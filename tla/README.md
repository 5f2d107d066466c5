# Specifications of the av_project streaming server and player

`sserver` captures video, encodes it and streams it to clients over TCP, UDP or
RTP; `sclient` receives, decodes and renders it. Both are multi-threaded C++
programs in which frames are dropped on purpose, sockets are closed by one
thread under the feet of another, and datagrams get lost. The modules in this
directory model the parts of that logic which tests hardly reach, check them
with TLC on small instances, and prove for every instance, with TLAPS, most of
the safety properties the runs check, both sides of the refinement of the
abstract session included.

Paths below are relative to `src/`. `PROJECT.json` maps every definition that
models code to its lines, and lists runs, mutants, hazards and theorems.

## 1. Inventory

### 1.1 Parts, state, operations

| Part | Source | State it keeps | Operations | Model |
|---|---|---|---|---|
| TCP client session | `sserver/src/modules/transport/tcp/TcpClientSession.cpp`, `common/concurrency/ThreadSafeQueue.h` | `running_`, `socket_fd_`, outbound queue, keepalive budget, drop counters | Start, EnqueueFrame, SendLoop, ReceiveLoop, Stop, CloseSocket | `TcpSession` |
| TCP backend | `.../tcp/TcpStreamingBackend.cpp` | session list, listen socket, accept thread | start, accept, prune, Broadcast, stop | `TcpBackend`, over `SessionLife` |
| UDP backend | `.../udp/UdpStreamingBackend.cpp` | client registry, retransmit cache, socket, receive thread, NACK counters | start, Broadcast, receive loop, NACK handling, stop | `UdpServer`, `UdpFec` |
| RTP backend, packetizer | `.../rtp/*.cpp` | sequence number, timestamp base, socket | start, packetize, pace, send, stop | `RtpStream` |
| Server lifecycle | `sserver/src/app`, `sserver/src/core`, `.../transport/Transport.cpp` | module list, started/initialized/running flags, handler binding | Initialize, Start with rollback, Stop, Shutdown | `ServerLifecycle` |
| Capture module | `.../capture/video/**` | `running_`, raw queue, frame handler, device, driver buffers, encoder | capture, encode, push, call the handler, start and stop of the device | `ServerLifecycle`, `CaptureDevice` |
| Player pipeline | `sclient/src/app/main.cpp`, `common/concurrency/BoundedQueue.h` | stop flag, two queues, pause flag, first error | receive, reconnect, decode, render, keys, signals, shutdown | `ClientPipeline` |
| UDP receiver | `sclient/src/modules/network/StreamClientUdp.cpp` | assembly table, window of completed frames, jitter buffer | drain, assemble, FEC recovery, NACK, pop | `UdpReceiver`, `UdpFec` |
| Stream client | `StreamClient.cpp`, `StreamClientTcp.cpp` | `running_`, socket, keepalive thread | Connect, ReceiveFrame, Close, KeepAliveLoop | `ClientConnection` |
| RTP receiver | `StreamClientRtp.cpp` | partial frame, jitter buffer | depacketize, pop | `RtpStream` |
| Adaptive jitter estimator | `AdaptiveJitterBuffer.h`, `LatencyStats.h` | samples, cached percentile, mode, counters, limits | RecordJitter, Reset, SetFixedMode, EnableAutoMode | `JitterEstimator` |
| Configuration, command line, SDP | `AppConfig.cpp`, `CliOptions.cpp`, `SdpSessionDescription.cpp` | none | parse, validate | no: sequential text processing with unit tests; what validation guarantees are the modules' ASSUMEs |
| Encoder | x264 wrapper | library context | initialise, encode, shut down | its life in `CaptureDevice`; compression is a step that yields a frame or nothing |
| Decoder, renderer | FFmpeg, OpenGL wrappers | library contexts | decode, draw | no: a step that succeeds, yields nothing, or fails |
| Logging, metrics | `Logger.cpp`, `LatencyRecorder.cpp` | counters | record, print | no: output only |

### 1.2 How they interact

```
 camera -> CapturePump -> raw_queue_ -> EncodePump --handler--> Transport::Broadcast
                                                                  |
                        TCP: EnqueueFrame -> queue -> SendLoop ---+--- UDP: fragments, parity, cache
                                                     |                     ^ keepalive, NACK
                                                     v                     v
 render <- decoded_frames <- decode <- received_frames <- StreamClient::ReceiveFrame
```

Calls cross threads in three places: the frame handler (the encode thread runs
transport code), the shared socket descriptors (closed by whoever notices the
end first), and the two stop flags (set by a signal, a key, an error or main).

### 1.3 What is hard, and what makes each part correct

- *TCP session*: a slow client must cost frames and never memory, the drop
  policy must hold although it is decided in three critical sections, the byte
  stream must keep its framing through partial writes, `Stop` must not wait for
  the client, a dead client must be noticed.
- *Player*: a frame rendered is newer than the last one, nothing runs after the
  joins, every way of stopping ends the process, a lost connection is
  re-established or reported.
- *UDP receiver*: late and duplicated datagrams must not deliver a frame twice,
  a completed frame must not get lost, a missing one must not block the others,
  a fragment computed from the parity must be the one the server cut.
- *UDP backend*: no client is registered twice, silent clients are forgotten,
  the cache stays ordered so that pruning from its front is right, a NACK is
  answered from exactly what the cache should keep, `stop` leaves nothing behind.
- *Server lifecycle*: no frame reaches a transport that does not run, nobody is
  inside a device that is torn down, a failed start leaves nothing running, open
  or mapped, at whichever of its steps it failed.
- *TCP backend*: a session is destroyed once, by one thread, and not under the
  feet of another; one accepted during `stop` is stopped too; waiting for a dead
  session with the lock held must not block a broadcast for good.
- *RTP*: a frame is never returned with a hole although sequence numbers and
  timestamps wrap; its times are its own; pacing never makes the sender slower
  than the camera.
- *Stream client*: two threads close and reopen one connection; a thread must
  not be overwritten while it can be joined, no socket may be left behind, a
  keepalive must not be sent on a descriptor that was closed, and the jitter
  strategy must hold on every connection, the second as the first.

The hazards, each at the line where it bites, are listed in `PROJECT.json`.

## 2. Plan

Done: `TcpSession` with proofs and the refinement of `SessionLife`, `TcpBackend`,
`ClientPipeline`, `ClientConnection` with `JitterEstimator`, `UdpReceiver` with
`UdpFec`, `RtpStream`, `ServerLifecycle` with `CaptureDevice`, `UdpServer`.

Proved: every safety property the runs check, for every value of the constants,
the contents of completed UDP and RTP frames included (section 5). What is left
to TLC is at the end of that section.

None of these modules declares or reaches a RECURSIVE operator.

## 3. Modules

Each `MC<Module>` extends its module and, where a constant is a set of records
or sequences, defines it; a `.cfg` gives the constants. An operator named `Definition_Variant` directly before `Definition` is a faulty
form of it, used to show that a property notices the fault.

A step is always one critical section, one access to a shared atomic or
unprotected variable, or one system call: anything another thread can observe
in between is a separate step, anything it cannot is not.

### TcpSession

`pc` holds the control point of the encoder thread (`prod`), SendLoop (`send`),
ReceiveLoop (`recv`) and the caller of Stop (`stop`).

| Code | Actions |
|---|---|
| `Start` | `StartReceive`, `StartSend` |
| `EnqueueFrame` | `EnqueueBegin`, `EnqueueSize`, `EnqueueAny`, `EnqueuePush` (three critical sections of the queue) |
| `SendLoop`, `SendMessageParts` | `SendCheck`, `SendWaitTimeout`, `SendPop`, `SendTest`, `SendWrite`, `SendFails` |
| `ReceiveLoop`, `ReceiveAll` | `ReceiveCheck`, `Select*`, `ReceiveTest`, `ReceiveHeader`, `ReceivePart`, `ReceiveFails` |
| a call on a number that was reused | `CallElsewhere`, `ElsewhereReturns` |
| end of a loop, `Stop`, `CloseSocket` | `LoopExit`, `StopBegin`, `CloseCheck`, `CloseSyscall`, `CloseReset`, `StopJoin` |
| client and kernel | `PeerSends`, `PeerLeaves`, `NumberReused` |

Abstractions: a message is `MsgUnits` units of which one `sendmsg` takes any
number; a frame is its number and whether it is a key frame; time is left out,
so a timeout may happen whenever its condition holds. `socket_fd_` is a plain
`int` shared by three threads, so testing, closing and resetting it are three
steps. A thread at `call` has tested `running_` and is about to enter, or is
blocked in, `recv` or `sendmsg`: it notices nothing but its descriptor. If that
number was closed and given to somebody else before the thread enters the
kernel, the call acts on the stranger's descriptor (`elsewhere`) for as long as
the stranger makes it wait; `StopReturns` excludes exactly that case. Applying
`FD_SET` to -1, which the same race allows, is taken as a select that times
out.

### SessionLife, and the refinement

`SessionLife` is all that the backend may rely on: a session starts once, ends
once, is released after that, and writes to its connection only in between.
`TcpSession` implements it (`ImplementsSessionLife`) with the mapping: `new`
before `Start` set `running_`, `running` while it is set, `ended` when it is
cleared, `released` when both threads are over; `sent` is the wire. What has to
be shown is that `running_` is never set again, that no loop outlives Stop, and
that a thread late in `sendmsg` writes before, and not after, the release.
`TcpBackend` checks the other side (`KeepsSessionLife`).

### TcpBackend

The accept thread, the encoder thread in `Broadcast`, and main in `start` and
`stop`, around `clients_mutex_`. Who holds which `shared_ptr` is state (`refs`,
`sessions`): the thread that drops the last reference runs the destructor, which
clears `running_`, joins the session's threads and only then returns; if it does
so while pruning it does it with the lock held. `clients_` and a broadcast's
snapshot of it are sets: no property depends on the order in which a frame is
given to the sessions. A session ends of itself at any
moment, and its threads take their time to leave. `AcceptError` ends the accept
loop for good, as the code does. `start` may fail and be called again.

### ClientConnection and JitterEstimator

`Close` takes no lock, and both main and the receive thread call it, the latter
also from within `Connect`: each access to `running_`, `socket_fd_` and
`keepalive_thread_` is a step. Descriptors are numbers of which the kernel hands
out the lowest free one, so a stale descriptor may be a new socket's. Joining a
thread from two threads at once is undefined: the process dies (`terminated`) or
goes on. `raced` records that main was in `Close` while the receive thread was
in `Close` or `Connect`; `SocketsHeld` is about the behaviours without that,
`LeavingEndsThreads` and `ThreadNeverOverwritten` about all.

`main` is followed from the render loop to its return: the two calls of `Close`,
the join of the receive thread (`MainJoins`), then the join of the decode thread
and the destructor's `Close` (`MainReturns`). The decode thread and the queues are
`ClientPipeline`'s, so here that second join may take any time or for ever:
`LeavingEndsThreads` claims that main gets as far as that join, and whether it
gets past it is the question of `QuitEndsProcess` and `StopEndsProcess` there.

`JitterEstimator` has the operations of `AdaptiveJitterBuffer` as operators on a
record: the ring of samples, the summary that is recomputed only every few
samples, the assessment of quality, the three modes with their counters. Times
are scaled integers. `ClientConnection` feeds it with frames and resets it where
`Close` does.

### RtpStream

Sender and receiver in one module, with the packets the kernel took between
them (`sent`), each of which may arrive any number of times, at any time, or
never. A frame is the list of the lengths of its NAL units; a byte is its place
in the frame, so that `ReturnedIsOneFrame` can compare what is returned with what
was given to `Broadcast`. Sequence numbers, timestamps and the product in
`BuildTimestamp` keep their width, as constants, so that all three wrap in the
run. `run` is the history that tells whether the packets of a frame arrived one
after the other; `first`, in `frames`, is the number of a frame's first packet,
kept for the invariant of section 5 and read by no action.

The network may deliver a packet as late as it likes, and RTP tells frames apart
by their timestamps only. `WrapAssumption` says what the protocol relies on: no
two frames of the history have the same timestamp, and no frame has more packets
than there are sequence numbers. Timestamps of 32 bits at 90 kHz take 13 hours to
wrap and a packet does not stay on its way that long; 65536 packets are some 90
MB, which the encoder does not make of one picture. The widths themselves do wrap
in the run, between one frame and the next.

### UdpFec

How the server cuts a frame and combines the fragments into the parity, and how
the client infers from the neighbours where a missing fragment belongs, how long
it is, and what it holds. A byte of a buffer is the set of the bytes of the
frame combined in it by exclusive or. `UdpReceiver` extends it; `MCUdpReceiver`
also compares recovery with its reference for frames of up to four fragments.

### CaptureDevice

The camera or null device and the encoder as a record, with the operations
`ServerLifecycle` calls: each step of `Start` that can fail, with what is undone
then, the buffers the driver has and those the process has, `Stop`, `Close`.

### ClientPipeline

`pc` holds the receive, decode and main threads. `RequestStop` is the exchange
on `stop_requested`; only the caller that sets the flag goes on to
`CloseQueues`. The cleanup at the end of `main` repeats `request_stop` and
`Close` after a quit or a render error: `passes` counts that. Frames arrive in
the order a TCP connection delivers, with gaps. Decoder and renderer are
choices of outcome.

### UdpReceiver

All UDP state is one record `rx` and each function of `StreamClientUdp.cpp` an
operator on it, so that an action is the composition the code calls. The
actions are the points of `ReceiveUdpFrame` where time may pass or a datagram
arrive. The network may deliver any datagram of any frame at any moment, any
number of times, which covers loss, duplication, reordering and retransmission,
and also datagrams which disagree on the size of a frame.
Timestamps are ages that stop growing past the threshold they are compared
with. The target delay is an arbitrary choice at every call, which covers what
`JitterEstimator` computes. The loop of `FinalizeRecoverableUdpFecFrames` is a
loop of the model too: `Recover` recovers every frame it can, `todo` holds their
numbers, and `FinalizeNext` finalizes the lowest until one is returned; time
stands still meanwhile, since the code passes one reading on. `rx.garbled` is a history: the frames completed with
bytes other than the server's.

### ServerLifecycle

`main` walks the module list as `Application` does, forwards for initialise and
start, backwards for stop, shutdown and the two rollbacks. `worker` is
`CapturePump` (camera) or `CaptureLoop` (null device), `encode` is `EncodePump`.
The initial state chooses camera or null device and capture enabled or not.
`initialize`, each step of `start`, capturing and encoding may fail at every
call, and the camera may stop delivering for good, in which case the blocking
`VIDIOC_DQBUF` keeps the worker; so does a camera that has refused every buffer.
When `x264_encoder_open` fails, the code frees the planes of a picture that was
never filled in: the process dies (`crashed`) or goes on.

### UdpServer

The encoder thread in `Broadcast`, the receive loop and main. Each send
accepts for the first `n` clients, as `sendmmsg` reports; `n = 0` is failure.
Keepalives and NACKs arrive at any time; a NACK asks for any frame and any
fragment index, one past the last included.

`HandleNackRequest` is as many steps as it has critical sections and system
calls: `NackPrune` (the pruning, and the request's counter), `NackLimit` (the
throttling) and one `NackServe` for each item of the request, which looks for
frame and fragment and may fail to send it. The lock is held from the second to
the last, so that no frame is cached meanwhile. The clock is read once per
datagram, so the pruning compares with a reading `req.lag` ticks old, against
which a cached frame may be from the future; `Broadcast` reads it when it begins
to send a frame, which therefore may have expired when it is cached.

`stored` is a history that no action reads: every frame cached since `start`,
with its age, and whether it had expired by then (`late`).
`NackFindsWhatIsKept` compares what a search finds with what, by this history,
the cache should keep: the last `CacheFrames` frames, as long as they are fresh.
The counters of what was sent are left out; those of NACKs are kept as the code
keeps them, among them that a fragment found but not taken by the socket is not
counted at all.

### Composition

`UdpServer` never runs `stop` while `Broadcast` is under way. That is no
assumption of the code but a consequence of the order in which modules stop:
`ServerLifecycle` checks it as `BroadcastReachesTransport`. The race between
several closers of one descriptor is modelled in `TcpSession`; `UdpServer`,
whose code has the same function, closes in one step. `TcpBackend` composes
sessions through `SessionLife`, `ClientConnection` extends `JitterEstimator`,
`ServerLifecycle` extends `CaptureDevice`, `UdpReceiver` extends `UdpFec`.

## 4. Runs

| Run | Shows |
|---|---|
| `tcp_session` | `QueueBound`, `NonKeySparesKey`, `WireWellFormed`, `FramesAccountedFor`, `StoppedIsClosed` over every interleaving of the four threads, the client, and reuse of the descriptor number; `ImplementsSessionLife`, the refinement |
| `tcp_session_live` | `StopReturns`: Stop never waits for the client. `DeadPeerEndsSession`: a client that closed, or fell silent on a message boundary, ends the session |
| `tcp_session_close_once` | violated: two threads close the same number |
| `client_pipeline` | `RenderForward`, `ExitIsFinal`, `QuitEndsProcess`, `LostConnectionResolved` |
| `client_pipeline_signal` | violated: a signal does not end the process |
| `udp_receiver` | `CompletedIsKept`: each completed frame is returned once, and none is left behind; `CompletedIsTheFrame`: with the bytes of the server; both with the jitter buffer on and off |
| `udp_receiver_live` | `BufferedLeaves`: no frame waits for ever behind a lost one |
| `server_lifecycle` | `BroadcastReachesTransport`, `DeviceOutlivesUse`, `StartedOrClean`, `SentForward`, `StopCompletes` through starts, failed starts, stops and restarts |
| `udp_server` | `CacheOldestFirst`; `NackFindsWhatIsKept`: a NACK finds every frame that should be cached and no other; `StoppedIsEmpty`, `SilentClientForgotten`, with two clients |
| `tcp_backend` | `TcpStoppedIsEmpty`, `DestroyedByOne`, `NoFrameSkipped`, `KeepsSessionLife`; `CallsReturn`: neither a broadcast nor stop hangs; `EndedIsReleased` |
| `rtp_stream` | `ReturnedIsOneFrame`: no hole, nothing of another frame, its own times; `PacingKeepsUp`; `CleanFrameArrives` |
| `client_connection` | `ThreadNeverOverwritten`, `SocketsHeld`, `StrategyHolds`, `ModeAfterRun`; `EstimatorSettles`, `DeadKeepAliveNoticed`; `LeavingEndsThreads`: main ends the receive thread wherever it is |

Every module states a `TypeOK`, with the bounds of its queues, caches and retry
counters. It holds on the instances of the runs and is what the proofs start
from; the runs themselves ask only the questions above.

### Bounds, and why they are enough

- `tcp_session`: a queue of 2 and 3 frames is the least in which a full queue
  holds a key and a non-key frame and a third one decides; 2 units per message
  is the least with a partial write. `drop_oldest_non_key` contains the paths
  of `drop_oldest` (a key frame offered to a queue of key frames drops the
  oldest). A budget of 1 suffices for safety; the liveness run uses 2, so that
  the budget is spent in more than one step.
- `client_pipeline`: capacities 2 and 1, 2 retries, 3 frames: both queues
  overflow, a retry may fail and then succeed, and a reconnection may be given
  up.
- `udp_receiver`: 3 frames of 1 or 3 bytes, in fragments of 2: the expected
  frame missing, one buffered and one late; two assemblies recoverable at once;
  2 fragments are the least with a parity, and the last one is shorter than it.
  Frames of 3 and 4 fragments are out of reach of the state graph; recovery of
  their fragments is compared with its reference as a constant expression. Ages need one tick below and one above each
  threshold. `Window` equals the number of frames, as the real window (1024)
  exceeds what is in flight; `CompletedIsKept` says so in its premise.
- `server_lifecycle`: 3 starts allow a failed start, a good one and a restart;
  6 frames overflow the queue of 3, which is the code's own constant; 2 buffers
  may be lost one after the other, or not.
- `udp_server`: 2 clients for a partial send, 2 fragments, a cache of 2 with 3
  frames, so that a frame is evicted by number and by age, a NACK for 3 fragments
  of which 2 are allowed, so that a found and a missing item meet in one request,
  and one tick while it is handled, which is enough for a frame to be newer than
  the reading of the clock and for one to expire after it.
- `tcp_backend`: 2 sessions, so that one ends or is added while a broadcast is
  between them; frames modulo 3, so that a frame given twice differs from one
  left out. Each session connects once per life of the process.
- `rtp_stream`: 3 frames in up to 3 packets each with sequence numbers modulo 4
  that start at 3, timestamps modulo 4 and a product modulo 22: all wrap, the
  number within a frame. The shapes are a frame without a NAL unit, a single
  packet, and a small NAL unit followed by a fragmented one. 2 starts: one may
  fail, and a restart repeats numbers.
- `client_connection`: 2 descriptors, 2 retries, 4 pairs of transport and
  strategy; a window of 3 samples from 3 classes of jitter, a summary refreshed
  every 2, runs of 2, so that every mode is entered and left and the cached
  percentile is stale at times.

`CHECK_DEADLOCK FALSE` appears in `client_pipeline` (a signal really hangs the
process, see below), `server_lifecycle` (a stalled camera really hangs `stop`),
`rtp_stream` (the bounds on frames and starts are used up) and
`client_connection` (the process ends, dies of a double join, or hangs as
described in section 6).

### Fairness

Weak fairness on the steps of each thread: the operating system runs a thread
that can run, and every wait in the code that is no condition of the model has
a timeout. Nothing forces a client to send, read or close, a user to press a
key, the network to deliver, or main to call Stop. Two steps
get strong fairness: `SelectTimeout` of `UdpServer` (the socket is quiet for
200 ms again and again) and `Tick` (the clock advances although a thread is often
handling a NACK with a reading made before, whose age `MaxLag` bounds). In
`UdpReceiver` the fair round includes the moment at which the drain loop finds
the kernel's buffer empty. A flood that never pauses is excluded by these. In `TcpBackend` and
`ClientConnection` every thread that can go on does; clients, users, samples and
failures are free. Main is bound neither to leave the render loop, in which it may be
paused, nor to get past the join of the decode thread. `EndedIsReleased` and
`EstimatorSettles` have as premises that frames keep coming and that the jitter stays in one class. In `TcpSession`
the writes of SendLoop are not fair, because a client may stop reading for ever,
and neither is the return from a stranger's descriptor; `StopReturns` holds
without them.

## 5. Proofs

Each `<Module>_proofs` extends its module and proves theorems about its `Spec`
for every value of the constants the ASSUMEs of the module allow. Each has one
inductive invariant, `IInv` (in `RtpStream` four, of which each builds on those
before), with the same three facts: `InitFits`
(`Init => IInv`), `IInvKept` (`IInv /\ [Next]_vars => IInv'`), and that `IInv`
implies the property, or, for an action property, that a step from a state of
`IInv` satisfies it. Every `IInv` was checked with TLC as an invariant of the
module's run before it was proved (that of `RtpStream` with two frames).

### TcpSession

For every queue capacity, drop policy, keepalive budget, message length and
number of frames (what `AppConfig` validates):

| Theorem | Statement | Strengthening |
|---|---|---|
| `TypeCorrect` | `Spec => []TypeOK` | `BudgetLeft`: inside the loop the budget is positive, so a decrement cannot go below zero |
| `QueueStaysBounded` | `Spec => []QueueBound` | none: `MakeRoomMakesRoom` shows that one eviction suffices in a queue within its bound |
| `NonKeyNeverEvictsKey` | `Spec => NonKeySparesKey` | `VictimSeen`: between finding the queue full and pushing, the send thread can only shorten it; while the queue is still full it still holds the non-key frame that was seen |
| `EveryFrameCounted` | `Spec => []FramesAccountedFor` | none: `PushReportsDrops` shows that a push shortens the queue by exactly what it reports |
| `StopLeavesClosed` | `Spec => []StoppedIsClosed` | `StopIsLate` (both threads exist before Stop, and `running_` is not set after it), `ResetAfterClose` (`socket_fd_` is -1 only after some thread closed it, and a thread about to reset it knows of a close), `JoinAfterClose` (Stop joins only past CloseSocket) |
| `StreamStaysFramed` | `Spec => []WireWellFormed` | `FramesOrdered` (what is on the wire, held by SendLoop, queued and offered is increasing in this order) and `LastMessage` (an unfinished message is the one SendLoop holds) |
| `SessionImplementsLife` | `Spec => ImplementsSessionLife` | `EndIsFinal`: `running_` is set once, before the threads exist, and is clear once either of them has come to CloseSocket; then initial states map to initial states, and each step of each thread to a step of `SessionLife` or a stutter |

### TcpBackend

For any set of connections and any modulus of the frame numbers:

| Theorem | Statement | Strengthening |
|---|---|---|
| `TypeCorrect` | `Spec => []TypeOK` | `Phases`: the accept thread runs only between start and the join in stop, Broadcast and stop exclude each other, nothing is left outside the running state |
| `DestroyedOnce` | `Spec => []DestroyedByOne` | `LocalsFit` (when a thread holds references and when it runs destructors) and `Owned` (a session started and not released is in the list, in the locals of a thread, or with the one thread that destroys it): dropping the last of several references is then one thread's act |
| `StopLeavesNothing` | `Spec => []TcpStoppedIsEmpty` | the same: with the threads gone nothing is left that could hold a session |
| `EveryFrameGiven` | `Spec => NoFrameSkipped` | `Listed` (a running session is in the list, but for the moment before it is put there) and `UpToDate` (its last frame is the current one, or the one before while Broadcast has still to serve it) |
| `BackendKeepsSessionLife` | `Spec => KeepsSessionLife` | `Owned`: a frame is given only to a session not yet released; each step then maps to a step of `SessionLife` or a stutter |

With `SessionImplementsLife` this closes the composition from both sides: the
session is what the backend takes it for, and the backend treats it so.

### ServerLifecycle

For every number of driver buffers, every number of starts and of frames:

| Theorem | Statement | Strengthening |
|---|---|---|
| `TypeCorrect` | `Spec => []TypeOK` | `Place`, which bounds main's index in each loop over the modules |
| `HandlerCalledInTime` | `Spec => []BroadcastReachesTransport` | `Place`: which module runs follows from where main is in which loop (`TransportUp`, `CaptureUp`); `ThreadsFit`: threads exist exactly while the capture module runs, which is inside the time the transport runs |
| `DeviceThereWhenUsed` | `Spec => []DeviceOutlivesUse` | `DeviceFits`: the device exists from initialise to shutdown, and is opened exactly while the capture module runs it |
| `StartIsAllOrNothing` | `Spec => []StartedOrClean` | the same three; each failing step of `CaptureDevice` is shown to leave a released device |
| `FramesInOrder` | `Spec => SentForward` | `InOrder`: what was sent, the frames the two threads hold, the raw queue and the next frame are increasing in this order |

### ClientPipeline

For every capacity of both queues, number of frames and limit of retries:

| Theorem | Statement | Strengthening |
|---|---|---|
| `TypeCorrect` | `Spec => []TypeOK`, with the bounds of both queues | `PushKeepsOrder`: one dropped frame makes room |
| `PictureNeverGoesBack` | `Spec => RenderForward` | `InOrder`: four numbers part the rendered frame, the decoded queue, the frame being decoded, the received queue and what is still to arrive |
| `NothingAfterExit` | `Spec => ExitIsFinal` | `Places`: main is past its joins only when both threads have ended |

### UdpServer

For any set of clients, fragment count, cache size and age, and request limits:

| Theorem | Statement | Strengthening |
|---|---|---|
| `CacheStaysOrdered` | `Spec => []CacheOldestFirst` | `CacheBehind`: while a frame is sent the cache holds only lower numbers, at least as old; `PruneCutsFront`, `CachedKeepsOrder`, `PruneKeepsOrder` say what pruning and caching do to an ordered cache, and `PruneLeavesFresh` that pruning its front leaves no expired entry |
| `AnswersFromWhatIsKept` | `Spec => []NackFindsWhatIsKept` | `StoredFits`: the cache is the end of the history `stored`, what is missing in front has expired or was pushed out (`EndOf`), and from its pruning to its last item nothing in the cache had expired at the reading a NACK is handled with, except what was late (`FreshOrLate`). `CachedIsEnd`, `PrunedIsEnd` and `AgedIsEnd` carry that through caching, pruning and ticks; that pruning the front is enough for `FreshOrLate` is `PruneLeavesFresh`, hence `CacheOldestFirst` |
| `StopLeavesNothing` | `Spec => []StoppedIsEmpty` | `Phases`: the threads run only between start and the end of stop |

### ClientConnection

For every configuration, any descriptors, number of retries, window and run
lengths up to the window (`HighRun` is 10, `LowRun` 20 and the window 100 in the
code):

| Theorem | Statement | Strengthening |
|---|---|---|
| `ThreadJoinedFirst` | `Spec => []ThreadNeverOverwritten` | `ThreadsFit`: the receive thread has joined the keepalive thread when it connects again, unless it found main at the same join; then the client was stopped (`Places`) and it gives up before it connects |
| `NoSocketLeaks` | `Spec => []SocketsHeld` | `SocketsFit`: which socket is open at which point of Close and Connect, while main does not interfere; `LowestIsFree` for the kernel's choice |
| `StrategyOnEveryConnection` | `Spec => []StrategyHolds` | `StrategyFits`: from the opening of the socket on the mode is set, the limits always; a fixed strategy keeps `auto_mode_` off, and then no sample changes them |
| `ModeChangesAfterRun` | `Spec => ModeAfterRun` | `RunsCounted`: each counter counts the last samples of the window, and only in the mode that reads it; `WindowSlides` and `RunGrows` carry that over a full ring |

### UdpReceiver

For any number of frames, any frame and fragment sizes, window of completed
frames, delays, retries, and with FEC, NACK and jitter buffer on or off. The
calls are operators on `rx`, so there is one lemma per operator: from a `Good`
state it makes a `Good` state, and leaves no more complete frames in the table.

| Theorem | Statement | Strengthening |
|---|---|---|
| `TypesOK` | `Spec => []TypeOK` | `RecoveredIsComplete`: the parity fills exactly the one fragment that is missing, inside the frame's own layout |
| `FramesReturnedOnce` | `Spec => []CompletedIsKept` | `Kept`: the window holds no frame twice, so that it is never longer than there are frames (`ShorterWithout`, by the pigeonhole principle) and `Remembered` forgets none; `NothingLeft`: the only complete frames in the table are those the loop has still to finalize, and from the drain on nothing else is recoverable. The second call of `FinalizeRecoverableUdpFecFrames`, which may return a frame in the middle of its loop, therefore never finds one to recover: `todo` is empty there |
| `RecoverySucceeds` | any one fragment of a frame that is not empty is recovered at its place, with its length and its bytes | `Sum`: place by place, the bytes combined so far are those of the fragments met so far; `CombinedIsSum` shows that of the loop's recursion, `LeftIsFragment` that the parity without the others is the missing one |
| `FramesHoldTheirBytes` | `Spec => []CompletedIsTheFrame` | `PatchFits`: what recovery has put into a frame is nothing, or exactly one fragment of the layout the frame is assembled under; then the history `garbled` of frames completed with other bytes stays empty (`FittingIsNotGarbled`) |

### RtpStream

For frames of any NAL units, any packet size, any width of numbers, timestamps
and product, any pacing limits, numbers of frames and of starts:

| Theorem | Statement | Strengthening |
|---|---|---|
| `PacingInTime` | `Spec => []PacingKeepsUp` | `PrevFits`: while the socket is open, `previous_frame_capture_timestamp_ns_` is that of the last frame of this start that had packets, because only `stop` makes way for the next start and it forgets it; `FramesFit`: captures increase. `WaitsFitGap` is the arithmetic of the two divisions; `FrameHasPackets` says that a frame with a NAL unit has packets |
| `FramesAreNotMixed` | `Spec => []ReturnedIsOneFrame` | `StreamInv`: `SentFits`, every packet on the network is part k of frame f with the number first + k - 1; `AsmFits`, a partial frame that is not damaged has gathered parts i to k of one frame without a gap, where i begins a NAL unit, and expects the number of part k + 1 |
| `CleanFramesArrive` | `Spec => CleanFrameArrives` | `RunFits`: a run of packets from the first one on is all in the partial frame, which is not damaged |
| `StreamTypes` | `Spec => []TypeOK` | `CountsFit`: every frame given to `Broadcast` is being sent, was sent or has failed; the rest are parts of `StreamInv` |

The argument for the contents has three parts:

1. *Cutting.* `Packetize` cuts a frame into a chain (`FrameIsChain`): each part
   goes on where the one before ended, within one NAL unit or from the end of one
   to the beginning of the next, and the marker is on the last part and on no
   other (`PartsFit`).
2. *Concatenating.* The parts from the beginning of a NAL unit to the last one
   hold the bytes of the frame from there on (`PiecesAreBytes`).
3. *Receiving.* By `NumbersTell` and `StampsTell` the number and the timestamp
   of a packet say whether it is the next one of the frame under assembly. One
   lemma for each case: it begins a frame (`AfterFirst`), is the next one
   (`AfterNext`), or damages the frame for good (`AfterDamage`).

`SplitAnnexBNalus` and `FlattenSeq` are recursive functions. That such a
recursion has a solution is itself proved (`RecursionHasSolution`, from the
least length without one), without an induction theorem of the library; that it
has no other one is `FlattenUnique`.

### What is only model-checked

- Every liveness property: fairness and ENABLED are outside the prover.
- `UdpServer`'s `TypeOK`: the registry is pruned with `SelectSeq`, about which
  the library has no theorem and which takes an operator; the proofs use
  `TypeInv`, the types without the registry.
- `ClientConnection`'s `TypeOK`: the percentile is taken from `SortSeq`, for the
  same reason. No proof depends on the percentile's value.

## 6. Findings

1. `TcpClientSession.cpp:402`: `CloseSocket` is not atomic, and Stop, SendLoop
   and ReceiveLoop call it concurrently. Run `tcp_session_close_once`: two
   threads pass the test, both close; the second hits whatever got the number
   meanwhile. The comment at lines 69-70 says there is only one close.
2. `sclient/src/app/main.cpp:291`: after SIGINT or SIGTERM `request_stop`
   returns early, the queues stay open, the decode thread waits in `WaitPop`
   and the join does not return. Run `client_pipeline_signal`.

Noticed while modelling, with no run of their own:

- `StreamClientUdp.cpp:346`: when the expected frame is absent, the lowest
  buffered one is taken, even one below those already returned; the comment at
  line 338 promises strictly increasing order.
- `StreamClientUdp.cpp:300`: with the jitter buffer off, of several frames
  recovered by one call only the first is returned; the others stay complete in
  the table until they expire. The last part of `CompletedIsKept` is therefore
  stated for the jitter buffer being on.
- `UdpStreamingBackend.cpp:604`: with several clients a fragment that reached
  one of them counts as sent; the comment at line 624 says that the frame is
  given up when a fragment fails.
- `UdpStreamingBackend.cpp:705`: a frame is cached after it was sent, with the
  time at which its sending began; one that took longer than the cache keeps
  frames is expired from the start, and a NACK whose pruning came before it was
  cached may still be answered from it (`late`).
- `StreamClientUdp.cpp:612`: a server that restarts numbers its frames from the
  beginning; a client that did not notice drops them as completed long ago, as
  far as its window reaches.
- `StreamClient.cpp:110` with `:157`: a quit that meets the receive thread in
  `Connect` may leave main joining the keepalive thread that `Connect` has just
  started, whose `running_` is set: the client then stays until that connection
  dies. `LeavingEndsThreads` holds main to leaving it then, and admits only a
  connection that never dies (`JoinsNewThread`); without that second part TLC
  shows the hang. Main and the receive thread may also join the same thread
  at once.
- `StreamClient.cpp:212`: a keepalive that fails only clears `running_`, which a
  TCP connection that goes on receiving never reads; `DeadKeepAliveNoticed`
  leaves TCP out.
- `AdaptiveJitterBuffer.h:256`: the percentile may be the cached one of the last
  decision, so that one measurement counts as two in a row.
- `StreamClientRtp.cpp:201`: frames skipped are counted in units of the
  timestamp, which makes the share of skipped frames too large.
- `sclient/src/app/main.cpp:359`: with the decode queue full a non-key frame is
  skipped, but the non-key frames after it are decoded as soon as there is room;
  the comment at line 358 says that a key frame is waited for.
- `X264VideoEncoderBackend.cpp:199`: when the encoder does not open, a picture
  that was never filled in is cleaned.
- `V4L2CaptureDevice.cpp:252`: a buffer the driver refuses is lost without
  notice.

Smaller ones: a paused player looks at no stop request (`main.cpp:431`), so that a
signal or a fatal error is noticed at the next key; the message "reconnection
failed after 10 attempts" (`main.cpp:330`) is also set when the user quits during
the retries; a failed batch send does not count into `failed_fragments_`; an accept error ends
the accept loop (`TcpStreamingBackend.cpp:210`); the camera is opened without
`O_NONBLOCK`, so `stop` waits for the driver.

## 7. Not modelled, and why

- Configuration (`AppConfig.cpp`), command line (`CliOptions.cpp`) and SDP
  parsing: sequential processing of text with unit tests. What validation
  guarantees appears as the ASSUMEs of the modules.
- Logging, metrics and the HUD: output only. The statistics the UDP receiver
  publishes are left out with them.
- Decoder and renderer: calls into FFmpeg and OpenGL, seen by `ClientPipeline`
  as outcomes. What a picture shows is outside every model.
- The compression itself: `CaptureDevice` has the life of the encoder, not its
  parameters or bytes.
- A server that restarts while a UDP client goes on (section 6).
