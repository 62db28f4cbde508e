# A TLA+ verification of gev

gev is a TCP network library in Go built on the Reactor pattern.  This directory
holds TLA+ modules that model it, TLC configurations that check the models on
small instances, and TLAPS proofs for every value of their constants.  Paths of
Go files are relative to `src/`.  `PROJECT.json` lists the components, the runs,
the lines each definition models, the hazards and the theorems.

## The system

| Part | State | Operations |
|---|---|---|
| **Server** (`server.go`, `options.go`) | `running`, the loops | `Start`, `Stop`, `handleNewConnection`, `RunAfter`, `RunEvery` |
| **Listener** (`listener.go`) | listening descriptor, a loop of its own | `HandleEvent` (accept), `Stop` |
| **Load balancing** (`load_balance.go`) | round-robin index | `RoundRobin`, `LeastConnection` |
| **Event loop** (`eventloop/eventloop.go`) | two task queues, `needWake`, `sockets`, `ConnCunt` | `QueueInLoop`, `Run`, `handlerEvent`, `doPendingFunc`, `AddSocketAndEnableRead`, `DeleteFdInLoop`, `Stop` |
| **Poller** (`poller/epoll.go`, `poller/kqueue.go`) | `running`, `waitDone`, event slice; kqueue also the map of registered events | `Poll`, `Wake`, `Close`, `AddRead`, `Del`, `EnableRead`, `EnableReadWrite` |
| **Connection** (`connection.go`) | `connected`, `inBuffer`, `outBuffer`, cached lengths, idle timer | `HandleEvent`, `handleRead`, `handleWrite`, `sendInLoop`, `handleClose`, `Send`, `Close`, `ShutdownWrite`, `closeTimeoutConn` |
| **Protocols** (`protocol.go`, `plugins/protobuf`, `example/protocol`) | none | `UnPacket`, `Packet` |
| **WebSocket plugin** (`plugins/websocket`) | upgraded flag and header buffer in the connection's context | `Upgrade`, `UnPacket`, `VirtualReadHeader`, `OnMessage`, `HandleClose`, `Cipher` |
| **Windows server** (`server_std.go`) | a reading and a writing goroutine per connection | the same interface |
| **Context, Send options, logging** | a locked map; a callback; none | accessors |

How they interact.  Each loop is one goroutine.  It waits in the poller, calls
`HandleEvent` of the sockets reported, and runs the closures that any goroutine
queues with `QueueInLoop`.  The listener's loop accepts, picks a work loop and
queues the closure that registers the connection there.  `Send` and `Close` test
`connected` in the caller's goroutine and queue a closure that does the work in
the connection's loop.  `Stop` ends the listener's loop, then each work loop, and
waits for every one.  The idle timer calls `Close` from the timing wheel's
goroutine.  On Windows there are no loops: each connection has a goroutine that
reads and one that writes, `Send` queues for the second, and `Close` does its work
in whichever goroutine calls it.

What is hard to get right here, and hard to test:

* the wake-up: a caller that finds `needWake` cleared relies on a write some other
  caller has yet to make, while the loop re-arms the flag and swaps the queues;
* the gap between a test (`connected`, `running`) and the closure or store that
  relies on it;
* partial writes, in two pieces when the ring buffer wraps, and the write event
  that has to follow the buffer;
* descriptor numbers, which the kernel hands out again at once;
* `Start`, `Stop` and the loops' exits, in every order;
* the idle timer, which fires, is armed again, stored and stopped by different
  goroutines;
* `Close` of the Windows build, several steps that several goroutines may be in;
* frames cut by the network at any byte.

## Modules

| Module | Models | Abstracted |
|---|---|---|
| `TaskQueue` | what a loop promises to callers of `QueueInLoop`: a FIFO worker | |
| `EventLoop` | `QueueInLoop`, `Poll`, `handlerEvent`, `doPendingFunc`, `Stop` and `Poller.Close`, one action per step visible to another goroutine; epoll's eventfd or kqueue's user event | closures are names, a socket's handler may or may not exhaust its readiness |
| `Connection` | one connection of `connection.go` from its registration to `handleClose`, over a kernel socket and a peer | bytes are numbered; frames have a fixed length; a response is any number of bytes |
| `Server` | accept, load balancing, `sockets`, `ConnCunt`, `handleClose`, `Start`, `Stop` with several loops and reused descriptor numbers | a socket event that does not close its connection |
| `Kqueue` | the map of events in `poller/kqueue.go` against the kernel's filters | |
| `Framing` | `UnPacket` and `Packet` of `DefaultProtocol`, the protobuf plug-in and the example's length prefix, and `PackMessage` | an encoded number is truncated to its field, and each of its bytes stands for the number |
| `CloseStd` | `Close` of `server_std.go`, step by step | |
| `ConnectionStd` | one connection of `server_std.go`: `readLoop` with `handlerProtocol`, `writeLoop` with `doPendingFunc` and `sendInLoop`, `Send` and `Close`; it extends `Framing` and `CloseStd` | widths of the length fields |
| `IdleTimer` | `closeTimeoutConn` of both builds and what arms and stops its timers | time is relative to now, a second has a few ticks |
| `Lifetime` | a connection's life in either build: `Start`, the accepting goroutines, `NewConnection`, activity, the idle timer, everybody's `Close`, `Stop`; it composes `CloseStd` and `IdleTimer` | what flows through the connection |
| `Cipher` | the three loops of `Cipher`: which byte of the mask each byte gets | the bytes' values |
| `Upgrade` | `Upgrade`'s decisions on a complete request | a header line is its key, the verdict on its value and, where a callback gives the verdict, the status of the callback's error |
| `WebSocket` | `UnPacket` and `OnMessage` in `handlerProtocol`'s loop, on a stream cut anywhere; it uses `Upgrade` and `Cipher` | bytes are counted; of the header buffer it is known which bytes of a stale length are zero |

`MC...` modules and the `.cfg` files give the constants their values; `...Proofs`
modules hold the theorems.  Definitions marked "Mutant" anywhere are broken
variants that no specification uses; each shows that some property would notice.

How actions correspond to code:

* **EventLoop**: `loopPc` is the position of the loop's goroutine in `Poll`
  (`wait`, `events`, `callback`) and in `handlerEvent`/`doPendingFunc`
  (`setNeedWake`, `swap`, `run`, `checkRunning`).  `QueueInLoop` is three steps:
  the append under the mutex, the compare-and-swap, the write of the eventfd.
  `EpollWait` may leave a ready descriptor out only when the event slice is full.
  The variable `kqueue`, chosen at the start, selects the poller.
* **Connection**: an event or a closure runs to its end in the loop's goroutine,
  so each is one action.  `Send` and `Close` are `TestConnected`, then
  `QueueCall`.  `write` takes any non-empty part that fits, fails, or returns
  `EAGAIN` when there is no room.  The events reported are epoll's, as
  `poller/epoll.go` translates them.  Its `tasks` is the FIFO of `TaskQueue`,
  which `EventLoop` is shown to implement.
* **Server**: `handleClose` is two steps, because it leaves the map before it
  closes the descriptor and other loops can accept in between.  Closures run in
  rounds, and `Poller.running` is tested after a round, which is what decides
  the fate of closures queued during `Stop`.
* **Kqueue**: `kevent(2)` applies its change list in order and stops at the first
  failure; it is an external component, modelled from how the poller uses it.
* **ConnectionStd**: the reader, the writer and users are goroutines, and every
  access to what they share (`connected`, `dying`, the queue, the socket) is a step.
  `conn.Write` may take a part without an error, which is weaker than the contract
  of `net.Conn`: with the contract `outBuffer` would stay empty, and half of
  `writeLoop` would never run.
* **Lifetime**: `std` selects the build.  In `connection.go` `Close` queues
  `handleClose`; in `server_std.go` it goes through the steps of `CloseStd`.
  `pending`, `current` and `cbPc` tell the timer that is armed, whether
  `Connection.timer` is that one, and where the timer's function is.  Reading the
  clock and storing `activeTime` are one step.  A timer may fire late, never early.
* **WebSocket**: `Arrive...` is the read, `UnPacket...` one turn of the loop,
  `SendResponses` the write.  The client follows RFC 6455.

## Runs

| Run | Checks | Bounds and why they are enough |
|---|---|---|
| `loop` | `TypeOK`, `WakeupInv`, `NoLostWakeup`, `WakesBounded`, `ImplementsTaskQueue`, `CloseReturns` | either poller; two producers, the loop and two stoppers: a loser of the compare-and-swap, a winner, a third caller, and two `Close`s past the test; three closures: one running, one swapped out, one appended; an event slice of one, so that a busy socket can crowd the wake-up out.  Closures are named in the order in which they are queued (an action constraint instead of a symmetry set, which liveness rules out) |
| `connection` | `TypeOK`, `OutputIntact`, `InputIntact`, `WriteInterest`, `ClosedIsFinal`, `EofIsGraceful`, `OutputDrains`, `EofCloses` | messages of up to three bytes and a send buffer of two: every write can be whole, partial or refused, and the ring buffer can wrap; frames of two bytes, reads of up to three: every cut; two calls by two goroutines besides the responses |
| `server` | `TypeOK`, `OwnFd`, `CountsSockets`, `NoNilMapWrite`, `StopStopsLoops`, `StopEndsServer`, `AcceptedIsOpened` | two connections on two numbers and two work loops, under either balancing strategy: both open at once on one loop or on two, or the second on the number of the first while closures of the first are queued |
| `kqueue_filters` | `AskedIsEnabled`, `EntryPresent` | three numbers, unlimited reuse, `kevent(2)` failing at will; the state space is complete for them |
| `ws_frames` | `TypeOK`, `FramesIntact`, `UpgradeSound`, `CloseCodeLegal`, `PayloadUnmasked` | two requests, refused by callbacks with and without a status of their own among others, and two frames, with lengths on both sides of every threshold of the header (125, 126, 65535, 65536) and cuts at every byte of a header; every class of close code |
| `std` | `TypeOK`, `OutputIntact`, `InputIntact`, `NoBacklog`, `LengthsReported`, `CloseEndsLoops` | each protocol; two messages, one of them with a type or empty, cut into reads at every byte; replies and a user's `Send` or `Close` beside both loops; fields of two bytes and one, so that a read can end inside one |
| `lifetime` | `OnCloseOnce`, `TimerKept`, `ClosedWhenIdle`, `IdleIsClosed`, `TimersEnd`, `StartEnds` | either build, with and without an idle time; a second of two ticks and an idle time of three, so that `activeTime` loses a part and timers are armed for less than the idle time; five goroutines that may close; no bound on activity or on the number of timers |

Five more runs show the code disagreeing with its own documentation; TLC finds
the counterexample, and `PROJECT.json` has the quotation:

* `kqueue_enable_read`: `EnableRead` and `EnableReadWrite` store the new events
  when the call *fails* (`poller/kqueue.go:104`, `:120`).  After a success the map
  is stale, `EnableRead` computes no difference and the write filter stays on.
* `server_early_stop`: `Start` sets `running` before the loops have reached
  `Poll`.  A `Stop` in between finds their pollers not running and returns; the
  loops then run for ever.  The other runs have `EarlyStop = FALSE`: `Stop` comes
  after every loop has started.
* `server_close`: a `Close` that returned nil is lost when its closure is queued
  behind the last round of a loop that is being stopped, including the `Close`s
  that `Stop` itself makes.
* `server_shutdown`: `ShutdownWrite` does not test `connected`, and may shut down
  the connection that has been given the same descriptor number.
* `ws_split_header`: a read that ends six or seven bytes into the header of a frame
  of more than 65535 bytes makes `VirtualReadHeader` decode a length from old
  bytes of its buffer; if they are zero an empty message is delivered and the
  rest of the stream is misread.  `ws_frames` has `SplitLong = FALSE`, which
  leaves out these two cuts and no other.

## Fairness

Safety properties are checked without fairness, or hold with it all the same.
The liveness properties assume weak fairness of:

* each goroutine that has something to do (`LoopStep`, `CallStep`, `StopStep`,
  `QueueCall`, `UserCloseQueue`; `ReadStep`, `WriteStep`, `CloseStep`;
  `AcceptStep`, `StartReturns`, `CloseGoesOn`): the Go scheduler is preemptive and
  runs every runnable goroutine;
* `PollEvent` and `RunTask` of a connection: level-triggered events are reported
  until they are handled, and `EventLoop` is shown to run every queued closure;
* `PeerRead`, for `OutputDrains` and `EofCloses`: a peer that stops reading stops
  the output, and, since `HandleEvent` does not read while `outBuffer` holds data,
  the end of file too;
* in `Lifetime`, `TimePasses` and `TimerStep`: time passes, and the timing wheel
  calls the function of a timer that has run out, until it is stopped.  A reader is
  obliged to leave `Read` only once its socket is closed (`ReaderEnds`), and the
  loop of `connection.go` to run `handleClose` only before `Stop`, as `server_close`
  shows.

Nobody is obliged to send, close, stop or connect.  Deadlock is not checked
where a bound on calls, or a stopped server, may leave nothing to do.
`CloseEndsLoops`, `IdleIsClosed`, `TimersEnd` and `StartEnds` except the states in
which a second `close(dying)` has panicked, since the process has then ended.

## Proofs

TLAPS checks every leaf; the proofs hold for all values of the constants that the
named assumptions allow.

* **EventLoopProofs** (`CallersAssumption`, `FdsAssumption`, `EventsAssumption`).
  `TypeCorrect`, `WakeupBookkeeping`, `WakeupsAreNotLost`: `NoLostWakeup` is not
  inductive, for it says nothing while the loop is not about to block.  `WakeupInv`
  is: a cleared `needWake` is owed to a write that is still to come, or unread, or
  read and not yet acted upon; a queued closure is covered by a cleared `needWake`,
  a caller before its compare-and-swap, or the swap the loop is about to do.  The
  order of `handlerEvent`, arming before swapping, is what carries the step of the
  loop.  The other half of `NoLostWakeup`, that the loop does not block under a
  `Close` that has done its write, needs `CloseInv`: the write is unread, or the loop
  has been told of it, or has left.  `WakeUpsAreBounded`, for any finite set of stoppers: `BoundInv` counts the
  writes done, those about to be done, an armed `needWake` and a wake-up seen
  together, because each of these turns into another.  `LoopIsFifo`: every step of
  `EventLoop` is a step of `TaskQueue` or stutters, under the mapping that joins
  what `doPendingFunc` has swapped out and not started with what has been appended
  since; this is the safety part of `ImplementsTaskQueue`.  Both pollers are covered.
* **ConnectionProofs** (`LengthsAssumption`): `TypeCorrect`, `OutputStaysIntact`,
  `InputStaysIntact`, `WriteInterestInStep`, `ClosedStaysClosed`,
  `EofEndsGracefully`, for any message, frame, packet and send buffer lengths and
  any set of goroutines.  The inductive invariant is `OutInv /\ InInv /\ RestTypes
  /\ Opening`.  `OutputIntact` needs the types of the kernel's side to know what a
  partial write leaves; `WriteInterest` needs `Opening`, that the closure which
  registers the connection runs first and finds `outBuffer` empty: a registration
  after output had been buffered would ask for read events only.
* **ServerFdProofs** and **ServerProofs**, which extends it (`ServerAssumption`:
  among others a finite set of descriptor numbers): `TypeCorrect`,
  `DescriptorsAreOwned` and `CountsAreExact` for any number of loops and
  connections; `StopIsComplete` and `MapsOutliveConnects` besides that under
  `~EarlyStop`, without which `server_early_stop` refutes the first.  The
  inductive invariant is `TypeOK /\ StopInv /\ TaskInv /\ FdInv /\ NilInv`.
  `OwnFd` needs to know of the closures still queued: one that opens a connection
  is the only one for it and finds it accepted; one that closes it comes later and
  is for the same loop (`TaskInv`).  `NoNilMapWrite` needs the order of `Stop`:
  behind a loop's stop closure no connection is queued, since the listener's loop
  has ended by then.  `CountsSockets` adds `CountInv`: until `Stop`, an open
  connection is in its loop's map unless the poller refused it, so that each step
  moves the count and the map together.  `AcceptedIsNeverDropped` adds `RoundInv`,
  that a loop has finished its round before it swaps the queues again.
* **LifetimeProofs** (`TimeAssumption`, `ActorsAssumption`): `TypeCorrect`,
  `OnCloseIsUnique`, `TimerIsKept`, `OnlyIdleTimeOut`, for any idle times,
  resolution of the clock and number of accepting goroutines.  The inductive
  invariant is `TypeOK /\ CloseInv /\ TimerKept`.  `OnCloseOnce` alone does not say
  why a second goroutine past the test of `connected` does no harm; `CloseInv`
  does: only the one that closed `dying` gets beyond it, and `connected` is cleared
  before it calls `OnClose`.  `ActorsAssumption` names the goroutines that may close
  and says that the timer's is none of the others.
* **KqueueProofs** (`KqueueAssumption`): `TypeCorrect`, `NilMeansEnabled`,
  `NoLoadError`, for any set of descriptors, by `FdInv` for each: the entry of a
  descriptor in use says "read", or it says "write" too because an
  `EnableReadWrite` failed, and then the connection has output that it can never
  drain and makes no further call.
* **ConnectionStdProofs** (`WidthAssumption`, `StreamAssumption`,
  `ClosersAssumption`): `TypesKept`, `OutputStaysIntact`, `InputStaysIntact`,
  `BacklogIsRead`, `LengthsAreReported`, for any number of goroutines, any widths of
  the length fields and any messages that these can describe (`Fits`).  The inductive invariant is `ReadInv /\
  WriteInv /\ RestInv`.  For the input, a prefix of what is expected is not enough
  to know what the next `UnPacket` finds: `ReadInv` says that `inBuffer` and what is
  still to come are the encoding of the messages not yet delivered, so that the next
  header is at the front of `inBuffer` (`InStream`), and that outside
  `handlerProtocol`'s loop no message that could be taken is left there (`AtRest`).
  For the output, `WriteInv` joins what was sent, `outBuffer`, the closures swapped
  out, packed as they will be, and those still queued to what `Send` has taken
  (`Whole`), while the connection is live; once it is not, only the prefix is left
  (`Ordered`).
* **WebSocketProofs** (`FramesAssumption`: lengths below 2^32; `BoundsAssumption`;
  `RequestsAssumption`; `CodesAssumption`): `UpgradesAreSound`, for every list of
  header lines and every status that callbacks may give.  The
  loop over them is compared with the definition that has no loop (`Acceptable`,
  `Refusal`) by an invariant of the loop, `After`: as long as nobody has objected,
  `seen` holds the required headers met so far and `protocol` tells whether one
  subprotocol has been selected (`Recorded`); the first objection fixes the answer
  (`Settled`).  `TypesAreKept`, with `Laid` for the bytes that can have been read.
  `CipherIsMask`, for every length and offset each byte is XORed exactly once, with
  the byte of the mask RFC 6455 gives it;
  `CloseRepliesAreLegal` and `PayloadsAreUnmasked` for all frames and reads that end
  anywhere, and `FramesStayIntact` under `~SplitLong`.  The first follows from
  `LegalOut`.  The second says more than `CipherIsMask`: `VirtualReadHeader` takes
  what there is of a mask, and nothing but the length stops `UnPacket` from going on
  with a part of it.  `MaskBefore` shows that bytes of a payload are only found
  behind the whole mask, in a 64-bit header cut anywhere too, and the invariant
  `Masks` keeps that for what has been delivered.  The third rests on `PayloadExact`, which takes the three layouts of a
  header apart and shows that `UnPacket`'s tests pass exactly when the whole frame
  is there: with eight bytes or more of a 64-bit header, one of the length's
  non-zero bytes has been read (`LongIsSeen`), so a length decoded in part is still
  too long.  The invariant is `Laid`, where the frames lie in the stream, `Unsplit`,
  where reads do not end, and `Taken`, that the frames before `next` are delivered
  and, when `handlerProtocol`'s loop has ended, none of the others is complete.

Where a definition runs over a list or a number (`Concat`, `HeaderLines`,
`Modulus`), it is a recursive function, and what it computes is proved by induction in the form of a least
counterexample: `NatMin`, from the library's `WFMin`, says that a set of numbers has
a least element, `UpTo` is induction to a bound, and `Recursion` says that a
function with the recursive equation exists.  `Framing` has its own `Concat` and
`IsPrefix`, and `Upgrade` its own loop, because the community modules' operators
bring definitions with them that slow every proof down.

### What liveness rests on

Only model-checked is liveness itself: `CloseReturns`, `OutputDrains`, `EofCloses`,
`StopEndsServer`, `AcceptedIsOpened`, `CloseEndsLoops`, `IdleIsClosed`, `TimersEnd`,
`StartEnds`, and that part of `ImplementsTaskQueue`.  It needs fairness and ENABLED,
which are outside the prover.  What the arguments for it say about single steps is
proved, for all values of the constants, in two parts: an invariant by which whoever
is waited for has a step to take, with the guard written out, and an action property
by which each of its steps lowers a rank, a tuple of naturals in lexicographic order,
that no step of anybody else raises.  Finitely many steps are left then, and weak
fairness of the goroutine waited for, the one thing left to TLC, takes them.

| Theorem | Behind | The rank, and why it goes down |
|---|---|---|
| `WakeupsAreNotLost`, `CloseAlwaysComesNearer` (EventLoopProofs) | `CloseReturns` | calls of `EpollWait` before the one that reports the eventfd, the stage of the turn, closures to run.  A call leaves the eventfd out only by filling the event slice with sockets, and the slice is doubled then, so that this happens finitely often; closures queued meanwhile are in the other queue |
| `StopAlwaysComesNearer` (ServerProofs) | `StopEndsServer` | loops to go, stage of `Stop`, stage of the loop it waits for, work left there.  While that loop still waits, its work is the connections it can close; nothing adds to them, for only a round of the loop opens one; after the swap it is the round, to which nobody adds |
| `AcceptedIsNeverDropped` (ServerProofs) | `AcceptedIsOpened` | the safety half only: the closure that opens a connection is in its loop's queue or round until it has run |
| `LoopsAlwaysComeNearer` (ConnectionStdProofs) | `CloseEndsLoops` | one for each of `Close`, `readLoop` and `writeLoop`, from the closing of `dying` on: both loops test it before they come round again, and the goroutine that closed it goes on to close the socket on which the reader may be blocked |
| `TimersAlwaysComeNearer` (LifetimeProofs) | `IdleIsClosed`, `TimersEnd` | while the connection is not active: the stage of the timer, and the ticks until it goes off.  A timer that goes off early is armed for the rest of the idle time, and that one closes the connection |
| `AcceptorsLeave` (LifetimeProofs) | `StartEnds` | the steps to the next test of the server's `dying`; with the listener closed an accepting goroutine cannot be blocked in `Accept` nor get another connection |

For `OutputDrains` and `EofCloses` there is no such rank, since users may go on
sending as long as the connection is open; their core is `WriteInterestInStep`, by
which a connection with output asks for write events.

Every safety property of a passing run is proved, `ImplementsTaskQueue` but for its
liveness.  `FramesIntact` and `StopStopsLoops` are proved under the assumptions
(`~SplitLong`, `~EarlyStop`) without which `ws_split_header` and `server_early_stop`
refute them.  What `CloseStd` adds to `ConnectionStd`, `OnCloseOnce`, is checked and
proved in `Lifetime`.

## Observations without a run

Reading the code for the models also showed these.  For two of them a comment in
the repository says otherwise, and it is quoted; the others contradict nothing that
is written there.

* `Poller.Close` tests and clears `running` in two steps.  Two concurrent `Close`s
  can both pass, and both close the descriptors (`poller/epoll.go:74`);
  the run `loop` shows that both return.
* A `Stop` called from a callback waits for the loop it is called in
  (`poller/epoll.go:83`).
* `WriteBufferLength` is documented as the length of the data that is waiting now
  ("当前积压的数据长度", `connection.go:166`), but it is stored after events only
  (`connection.go:205`): after a `Send` that buffers it is old until the next event.
  `LengthsReported` is about `server_std.go`, whose loops store it.  `sendInLoop` ignores an error of `EnableReadWrite`.
* `activeTime` has whole seconds, so a connection may be closed up to a second
  before its idle time is over; `ClosedWhenIdle` has that bound.
* In `server_std.go` two goroutines may pass `Close`'s test of `connected`, and the
  second `close(dying)` panics (`server_std.go:267`).
* A connection accepted while `Stop` runs may be stored after `Range` has passed;
  nobody closes it, and `Start` does not return while it stays open
  (`server_std.go:93`, `:126`).  `StartEnds` leaves out exactly such a connection, and
  shows that nothing else keeps `Start`.
* In `server_std.go` `handlerProtocol` packs the replies and `Send`'s closure packs
  them again (`server_std.go:249`, `:424`), so that a reply of the length-prefixed
  protocol has two headers.
* There `OnMessage` and even `OnClose` may be called before `OnConnect`, which runs
  in a goroutine of its own (`server_std.go:102`).
* A message without data ends `handlerProtocol`'s loop, or is too short for
  `UnPacket`'s `>`: the messages behind it wait for the next read.  `NoBacklog`
  leaves streams with such a message out, and states what holds of the others;
  `InputIntact`, which has them, states that nothing is lost.
* A type or a message too long for its length field is packed with a truncated
  length, and no error is reported (`plugins/protobuf/protobuf.go:14`,
  `example/protocol/protocol.go:39`).  `StreamAssumption` leaves such messages out.
* The WebSocket plugin calls `ShutdownWrite` before the reply to a close frame is
  written, so the reply, and those to earlier frames of the same read, are lost
  (`plugins/websocket/wrap.go:56`).
* A pong is answered with a ping (`plugins/websocket/wrap.go:63`).
* For an error in the request line, or one from `OnRequest`, `Upgrade` returns no
  response (`plugins/websocket/ws/ws.go:227`), although the comment at line 156
  says "Even when error is non-nil Upgrade will write appropriate response", and the
  one at line 99 says so of `OnRequest`.  `UpgradeSound` says of these requests only
  that they do not upgrade the connection.
* `Upgrade` looks for the end of a request in each part of a wrapped ring buffer
  separately (`plugins/websocket/ws/ws.go:185`).
* A length with its highest bit set is an error that leaves the virtual read in
  place (`plugins/websocket/ws/read.go:71`).

## Not modelled

| Part | Why not |
|---|---|
| kqueue's translation of events (`EV_EOF` with data unread, `poller/kqueue.go:179`) in `Connection` | it tests `EV_ENABLE` in the flags that `kevent(2)` returns, and the repository does not tell what the kernels put there; `Connection` has epoll's translation |
| `RunAfter`, `RunEvery` (`server.go`, `everyscheduler.go`) | one call of the timing wheel, a library outside the repository |
| Context, Send options, logging | no state that spans two critical sections, or no state |
| Examples other than the protocol, benchmarks | uses of the library |
| Text of HTTP requests and responses, the accept key | parsing and SHA-1; `Upgrade` has the decisions |
| `PackData`, `PackCloseData` | called by applications only |
| A second request sent before the answer to the first | the model's client waits, as RFC 6455 has it |
| More than one connection in `Lifetime` | a connection's life does not depend on another's but through `Stop`'s `Range`, which takes them one at a time |
