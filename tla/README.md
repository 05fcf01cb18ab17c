# Verification of node-pulseaudio

TLA+ models of node-pulseaudio, a Node.js addon that talks to a PulseAudio
server through libpulse, with the TLC runs that check them and the theorems
TLAPS proves about them. Paths are those of the repository (`src/lib/pulse.js`
is `lib/pulse.js`, `src/src/stream.cc` is `src/stream.cc`).

## The system

| Part | Code | State | Operations |
|---|---|---|---|
| Context | `pulse.js` `Context`, `context.cc` | `_connected`, the event listeners of pending calls, libpulse's state and operations | constructor (connects on the next tick), ten promise-returning methods, `createPlaybackStream`, `createRecordStream`, `end`; state callback, one callback per kind of reply |
| Playback stream | `pulse.js` `PlaybackStream` and `createStream`, `stream.cc` | Node's Writable and its `discard` counter, `playing`, `_connected`; `write_buffer`, `write_offset`, `drain_callback`; libpulse's state | `write`, `end`, `stop`, `play`, `discard`; state callback, `RequestCallback`, `DrainCallback` |
| Record stream | `pulse.js` `RecordStream`, `stream.cc` | `playing`, `_connected`, `read_callback`, libpulse's record buffer | `stop`, `play`, `end`; state callback, `ReadCallback` |
| Main loop adapter | `uv-mainloop.cc` | libuv poll, timer and idle handles and their events | `*_new`, `*_enable`, `time_restart`, `*_free`, `*_set_destroy`, and the libuv callbacks |
| Options and conversions | `pulse.js` `str2bit`, `str2num`, `num2str`; `Stream::New`; `common.hh` | none | flags, formats, sample specification, property lists |
| Bindings, declarations, build | `addon.cc`, headers, `pulse.d.ts`, build files | none after start-up | registration |
| Tests | `test/` | none | scripts against a live server |

How they interact:

- The application calls the JavaScript classes; they call the native objects,
  which call libpulse. Nothing of it runs on a second thread.
- libpulse calls back from the event loop, through the main loop adapter, and
  the native objects call JavaScript with `Nan::MakeCallback`. When such a call
  is over, Node runs the microtasks (the continuations of `await`) before the
  loop goes on. `pa_context_disconnect` and a `pa_context_connect` that fails
  call the state callback before they return.
- Context and streams signal each other by events: a stream connects in a
  listener of the context's `'connection'`, `_write` waits for the stream's
  `'connection'`, promises reject on `'error'`. libpulse fails or terminates all
  streams of a context that fails or terminates, one after another and after the
  context's own callback.
- libpulse runs only when the main loop adapter or the application calls it; it makes,
  changes and frees main loop events in either case, inside callbacks too.
- The server asks for bytes, acknowledges flushes and answers requests whenever
  it likes, and may go away at any time.

What is hard about it, and what makes each part correct:

- **Playback.** A chunk crosses five stages (the Writable's queue, the promise in
  `_write`, the microtask after it, the native buffer, the server's buffer).
  Requests, flush acknowledgements, `stop`, `discard`, a new `write` and the loss
  of the connection reach it at each. Correct is: bytes in order, once each, and no
  more than the server asked for; every `done` called once, in order, of the right
  chunk, and not before the server has the bytes; `discard` takes what was waiting and
  nothing else; everything ends.
- **Context.** A call goes from a listener of `'connection'` to a microtask to a
  pending request, and the failure or the end of the context may come between any
  two of these. Correct is: each call is issued once, in order, and when the
  connection is up; each promise settles, and tells the truth.
- **Client.** Streams are in any stage when the context is lost, and listeners create
  streams and end the context while that is being told. Correct is: every stream comes up
  or hears that it will not.
- **Record.** Holes in the record buffer, `stop` before the connection or inside a
  callback, data behind the end of the stream. Correct is: fragments in order, once each,
  none while stopped and none after the end; an ended stream closes.
- **Main loop.** Time arithmetic in unsigned 64 bits, a loop clock that is late, events
  freed in callbacks, flags that shadow what a handle does, errors of a poll handle. Correct
  is what libpulse relies on: no call of what was freed or disabled, no call early, and a
  call of everything that is due.
- **Options.** Truncation to fewer bits, unknown names.

`PROJECT.json` lists these hazards one by one with the lines where they bite.

## Modules

| Module | What it is |
|---|---|
| `PlaybackStream` | the playback path, from `write()` to the server's buffer |
| `ChunkSink` | the abstract specification `PlaybackStream` implements |
| `PlaybackStreamProofs` | its inductive invariant and the theorems |
| `MCPlaybackStream` | values of its constants for TLC |
| `PulseContext` | the context: connection, calls, answers |
| `Client` | a context with its streams: `PulseContext` (which it extends) and the streams' lives |
| `RecordStream` | the recording path, from the server's fragments to the Readable |
| `UvMainloop` | the main loop adapter over libuv |
| `MainloopApi` | the abstract specification `UvMainloop` implements |
| `PulseContextProofs`, `ClientProofs`, `RecordStreamProofs`, `UvMainloopProofs` | the inductive invariants of the others and the theorems |
| `MCPulseContext`, `MCClient`, `MCRecordStream`, `MCUvMainloop` | for TLC |

### PlaybackStream

A chunk is a number, in the order of `write()`; its content is its length. Since Node's
Writable calls `_write` for one chunk at a time, in order, its queue is the interval
`begun+1 .. submitted`, and `bufferedRequestCount` is the length of it. `flight` says
where the `done` of chunk `begun` is: in the promise (`await`), in the microtask queue
(`resumed`, `rejected`), or in `drain_callback` (`native`).

| In the model | In the code |
|---|---|
| `Write`, `End`, `Feed`, `Finish` | Node's Writable (from its documented behaviour) around `_write` and the `'finish'` handler |
| `ResumeWrite`, `ResumeStopped`, `ResumeRejected` | `_write` after its `await` |
| `Discard`, `Stop`, `Play` | the methods, `Stream::write(null, null)` included (`NativeFlush`) |
| `NativeWrite`, `Request`, `Drain` | `Stream::write`, `Stream::request`, `Stream::drain`; `Drain` calls `done`, which makes the Writable feed `_write` in the same step (`Feed`) |
| `RequestCallback`, `DrainCallback` | the callbacks of the same names |
| `Connect`, `StateReady`, `StateFailed`, `ContextEnd`, `DisconnectReply` | `createStream`'s use of the context, the state callbacks |
| `requested`, `queued`, `flushes`, `closing`, `corked` | what libpulse and the server keep |

`AtLoop` is Node's rule that events wait until the microtasks have run. The
application is not bound by it: its code may run in the same turn, before or after a
continuation, and in listeners. `outcome`, `sent`, `horizon` and `stopHorizon` are
history for the properties.

A stream that is lost takes no bytes: `pa_stream_writable_size` answers `(size_t)-1` and
`pa_stream_write` fails, which the native code does not notice; the chunk counts as
`drained`. That is why `HonestDone` makes an exception of lost streams.

### PulseContext

Calls are numbered in the order they are made, and are of three kinds: `info()`, whose
callback cannot bear an error; the other nine methods, which behave alike as far as the
control goes; and the creation of a stream, which goes through `_connection`. `waiting`
are those that wait for `'connection'`, `emitting` the listeners still to be called while
it is emitted (application code runs between them), `microtasks` the continuations.
`announcing` holds the states for which `'state'` is being emitted, before the handler does what
the state calls for: a listener that ends the context in that of "ready" finds `_connected` set
afterwards, and a call made in that of "failed" comes between the failure and its `'error'`
(`before` counts those made earlier). `operation` is libpulse's side:
running, answered (`done`), `cancelled` by the loss of the connection, or `refused`
because the context was not ready, in which case nothing calls back.

| In the model | In the code |
|---|---|
| `CallMethod`, `CreateStream`, `End` | the methods of `Context` up to their first `await`, `createStream`, `end` |
| `EmitConnection`, `Continue` | a listener of `'connection'`; a method after its `await`, with the native call |
| `Connect`, `ConnectFails`, `ConnectThrows` | the constructor's `nextTick` |
| `Advance`, `StateReady`, `StateFailed` | the state callback as far as the emission of `'state'` |
| `Connection`, `Failure`, `Closed` | the rest of it, for "ready", "failed" and "terminated" |
| `Reply` | the callbacks of `context.cc` and the resolvers of `makePromise` and `infoListWrap` |

`connect()` may fail at once: `'error'` is emitted from the state callback and then again
from the exception (`ConnectFails`, `ConnectThrows`). It rejects the promises that listen for
it; the listeners that `waitConnection` has put on `'connection'` stay in `waiting`, for an event
that will not come. Two exceptions are fatal (`crashed`):
`ServerInfoCallback` for a request that was refused, and `stm.connect` inside
`'connection'` after an earlier listener has ended the context.

What becomes of a stream after its connection is asked for is in `Client`.

### Client

Every action of `PulseContext` with what it does to the streams. `life` is libpulse's state
of each stream, `heard` the events its JavaScript object has emitted.

| In the model | In the code |
|---|---|
| `NewStream`, `RefusedStream` | `createStream`; the latter for options whose property list has a value that is no string, where `Stream::New` goes on after the exception |
| `DeferredConnect` | the listener that `createStream` puts on the context's `'connection'` |
| `Lose`, `LossGoesOn`, `Unlink`, `Tell` | the state callback of a lost context, as far as `'state'` and from there to its return, then those of its streams |
| `StreamReady`, `StreamConnection` | the handler of "ready" of a stream, before and after `'state'` is emitted; the application may end the context in between |
| `StreamFailed`, `StreamClosed` | the server refuses, kills or closes a stream |
| `ContextStep` | what leaves the streams alone |

libpulse goes through the list of streams as it is after the context's callback, the newest
first. A stream created later is `late`: nothing is ever told of it, and nothing is asked.
A stream whose constructor threw (`orphans`) is in the list all the same, though the
application never got it: the `'error'` it emits has no listener, which ends the process, or
its native object has been collected and libpulse calls back into freed memory.

In `PlaybackStream` and `RecordStream` the context is an environment that may connect, fail
or end at any time; `Client` is where these come from.

### RecordStream

Fragments are numbered as they arrive; libpulse's record buffer is the interval
`dropped+1 .. received`, the oldest of which `peeked` may be. A hole is a fragment without
data. `data()` is two actions, because the application runs between its peek and its drop:
the callback (`ReadCallback`, through `Data`) and the rest (`Return`); `inData` keeps the
event loop waiting. Streams may be created with `start_corked`.

| In the model | In the code |
|---|---|
| `Stop`, `Play`, `End` | the methods, with `Stream::read` (`NativeRead`: cork, drop, set the callback) |
| `PushChunk`, `PushNull`, `Consume`, `EmitEnd` | Node's Readable around `_read_cb` and the `'end'` handler |
| `ReadCallback`, `Data`, `Return` | `Stream::ReadCallback` and `Stream::data` |
| `Connect`, `StateReady`, `StateFailed`, `ContextEnd`, `DisconnectReply` | the connection and the state callback |
| `ServerCork` | the server stops sending some time after it was told to; it resumes at once |

libpulse refuses to cork a stream that is not up, and to drop what has not been peeked;
`NativeRead` relies on the second when `stop()` comes inside `data()`.

### UvMainloop and MainloopApi

`MainloopApi` says what libpulse may rely on: an event is called while it lives and only for
what was last asked of it, callbacks do not nest, freeing an event calls its destroy callback.
`UvMainloop` is the code: the flags of each event (`ev`, `en`), what its handle does (`poll`,
`due`, `idle`), the loop's clock and the real one. The refinement mapping computes what is asked
of an event (`Wants`) from the flags, and for a timer from its deadline, so that a handle that
does something else shows as a call nobody asked for.

| In the model | In the code |
|---|---|
| `IoNew`, `IoEnable`, `IoFree`, `TimeNew`, `TimeRestart`, `TimeFree`, `DeferNew`, `DeferEnable`, `DeferFree`, `SetDestroy` | the functions of `mainloop_api` |
| `PollReady`, `PollError`, `TimerCb`, `DeferCb` | libuv calls `io_cb`, `timer_cb`, `defer_cb` |
| `Passed` | the flags `io_cb` gives to libpulse |
| `Timeout` | `timeval_to_millisec`, modulo `2 ^ Width` |
| `UpdateTime`, `Tick`, `Socket`, `Return` | libuv and the system |

A time event asked for a deadline that has passed never fires; the model has this
(`Missed`), and `TimersFire` is stated for deadlines that were ahead.

## Runs

| Run | Question | Result |
|---|---|---|
| `playback` | the playback path: eight invariants, an action property, refinement of `ChunkSink`, two liveness properties | holds, about 51,000 states |
| `playback_stop` | does `stop()` discard what has not been played? (`README.md:121`) | no |
| `playback_late_flush` | does a flush concern only what was written before it? | no |
| `context` | the context: six invariants, an action property, one liveness property | holds, about 40,000 states |
| `context_server` | is the server of the options used? (`README.md:39`) | no |
| `context_failed` | do deferred calls settle? (`README.md:62`) | not after a failure |
| `context_error_reply` | does a resolved promise mean success? (`test/module.js:18-25`) | no |
| `client` | a context with its streams: two invariants, one liveness property | holds, about 297,000 states |
| `record` | the recording path: three invariants, two action properties, one liveness property | holds, about 35,000 states |
| `record_stop` | does `stop()` discard what has not been handed over? (`README.md:121`) | no |
| `mainloop` | the adapter: two invariants, an action property, refinement of `MainloopApi`, two liveness properties | holds, about 69,000 states |
| `mainloop_reset` | does libpulse hear that the server has reset the connection? (`README.md:49`) | no |

**Bounds of `playback`.** Three chunks of 3, 0 and 2 bytes with a server buffer of 2: one
that needs two requests, an empty one, and one that fits exactly; three are enough for one
in flight, one to be discarded and one written after that. At most two flushes are outstanding
(`MaxFlushes`), enough for the second to arrive a chunk late. Application calls are
otherwise unbounded: `stop`, `play` and `discard` may come at any step. The two violation
runs use two chunks of 3 bytes. Deadlock is checked; `play()` is always possible, so it says
little.

**Bounds of `context`.** Three calls (`MaxCalls`) of any kind, at any time: one each in two
different stages when the third comes. Four calls (467,000 states) were checked once with the
same result. Deadlock is not checked, since the process may die and a lost context
with all its calls made has nothing left to do.

**Bounds of `client`.** Three calls (`MaxCalls`): two streams in different stages when a listener
creates a third or a method is under way. Deadlock is not checked, for the same reason.

**Bounds of `record`.** Four fragments (`MaxFragments`), each of which may be a hole: one in
JavaScript's hands, two in the record buffer, one to come. Application calls are unbounded. The
violation run uses three. Deadlock is checked, and says little, since `play()` is always possible.

**Bounds of `mainloop`.** One event of each kind, so that callbacks of one kind meet changes of
another; libpulse makes an event once. Three ticks (`MaxNow`) of half a millisecond
(`TicksPerMs` 2): enough for a deadline on a millisecond and one off it, and for a loop clock that is
late. Times have 4 bits (`Width`); all that is required is that a deadline ahead fits
(`MainloopAssumption`) and a negative difference wraps. `Watchable` is the defer event alone: the
three `*_set_destroy` are the same code. Both clocks run alike and none is set back; a socket can
always be written to. Deadlock is not checked: with every event freed and time at its bound nothing is
left to do.

**Fairness.** Weak fairness of the runtime's steps (microtasks, `'finish'`, the listeners of
an event being emitted, the rest of a handler, the exception on its way), which Node always takes; and of the server
and the loop: it accepts connections, answers, asks for bytes whose room is free and plays
what it has. It is what a live server does; a dead one is the failure, which may come at any time
but need not. Nothing is assumed of the application. In `playback` a chunk that is in flight when
the application stops calling is done by requests alone. In `record` the application goes on
reading. In `client` libpulse goes on through its list when a callback has returned. In
`mainloop` time passes, callbacks return, and the callback of a handle that stays due, idle or ready
is strongly fair: between two chances to run, other callbacks do, and libuv visits every
handle in every turn.

**What the violations show.**

- `StopDiscards`: (1) write, stop, play before the stream is connected: the chunk `_write`
  waits with is not in `bufferedRequestCount`, is not discarded, and is played. (2) stop while the
  native stream holds part of a chunk: the flush empties the server's buffer, the native
  buffer lives until the flush is acknowledged, and a request in between takes its next bytes.
- `FlushSparesNewChunks`: `DrainCallback` does not know which chunk its flush was for. If the
  chunk is used up by a request before the acknowledgement, the next chunk, written after
  `discard()`, is forgotten with its bytes unsent and reported as done.
- `StopDiscards` (recording): neither `stop()` nor `play()` empties the record buffer. What arrived
  before the server heard of the cork is handed over after `play()`, one for each new fragment, so
  that the stream stays late. (`stream.cc:188` and `stream.cc:193` hold a flush that is commented out.)
- `ResetReported`: libuv reports a socket in error with a status and stops polling it; `io_cb` passes
  errors on to those who asked for them, and libpulse's iochannel does not ask.
- `ServerHonoured`: `context.cc:372-373` tests argument 0 and converts argument 1.
- `DeferredCallsSettle`: after `'error'` nothing will emit `'connection'` or `'error'` again.
- `ResolvedMeansDone`: no callback of `context.cc` looks at `success`, the sign of `eol`, or
  `PA_INVALID_INDEX`.

## Proofs

Five modules prove every safety invariant, action property and refinement that the passing
runs check, for every value of the constants. What is left to TLC alone is liveness, which
depends on fairness and is out of the prover's reach: `EachChunkSettles` and `EndCloses`
(`playback`), `EachCallSettles` (`context`), `EndCloses` (`record`), `TimersFire` and `Served`
(`mainloop`), `StreamsSettle` (`client`).

Each module proves `Invariance` (`ClientInvariance` in `ClientProofs`): an inductive invariant `Inv`
(`ClientInv`) that holds in every state, from which the rest follows. TLC has checked each of these
invariants at the bounds of its run.

### PlaybackStreamProofs

For every number and length of chunks, every size of the server's buffer and every number of
flushes (`PlaybackAssumption`: natural numbers, the buffer not empty).

| Theorem | States |
|---|---|
| `TypeCorrect`, `NoDoneLost`, `NoCreditIdle`, `CreditKept`, `DiscardExact` | `TypeOK`, `OneHolder`, `NoIdleCredit`, `CreditRespected`, `DiscardSparesNewChunks` |
| `BytesInOrder`, `DoneTruthful`, `DoneOrdered` | `InOrder`, `HonestDone`, `DoneInOrder` |
| `NoStartWhileStopped` | the action property `NothingStartsStopped` |
| `Refinement` | `Spec => ImplementsSink` |

`Inv` is the conjunction of the invariants of the run with three parts none of them implies.
`WritableInv` relates the Writable's numbers: no chunk waits while none is in flight, and while
the discard counter is positive it ends exactly at the chunk that was the last when it was
taken, which is what makes a counter as good as a list of the chunks to drop. `ConnectionInv`:
nothing gets past the promise in `_write` before the stream is up, and the server has asked for
nothing by then. `UnsentInv`: no byte has been sent of a chunk that has not reached the native
stream, so that a chunk that is dropped was not begun. The proof that a step keeps `Inv` is
split by the helper that the step goes through (`Feed`, `Drain`, `Request`), each with a lemma of
its own, and then by action.

### RecordStreamProofs

For every number of fragments (`RecordAssumption`).

| Theorem | States |
|---|---|
| `TypeCorrect`, `FragmentsOnce`, `QuietEnd` | `TypeOK`, `HandedOnce`, `EndIsQuiet` |
| `BacklogBounded`, `SilentWhileStopped` | the action properties `BacklogOnlyStopped`, `NothingWhileStopped` |

`Inv` adds to the invariants of the run: `CallbackInv`, the native callback is set exactly while
JavaScript's `playing` is; `PeekInv`, a fragment is peeked only in JavaScript's hands or on a lost
stream, and the numbers of what was handed over, dropped and received are in that order; and
`EndedInv`, which says why an ended stream may have a callback, and so why something may
still be pushed. The second is the heart of `HandedOnce`: a drop by `stop()` inside `data()` and
the drop after it are told apart by what is peeked.

### UvMainloopProofs

For every set of events, every clock rate and every width of libuv's times in which the clock
fits (`MainloopAssumption`).

| Theorem | States |
|---|---|
| `TypeCorrect`, `HandlesTrue` | `TypeOK`, `HandlesMatch` |
| `NeverEarly` | the action property `TimerNotEarly` |
| `Refinement` | `Spec => ImplementsApi` |

`Inv` adds `CallInv` (a callback that does not run has been told nothing) and `TimerInv`: a timer is
due exactly while a deadline is expected, and by the millisecond after it is due the deadline
has come, though `timeval_to_millisec` rounds down and the loop's clock is late. This is where the
arithmetic is: division of a negative number rounds down, and its remainder modulo
`2 ^ Width` is a time no clock reaches. That `2 ^ Width` is a number is derived, as the number of
subsets of `1 .. Width`, and not assumed.

### PulseContextProofs

For every number of calls (`ContextAssumption`).

| Theorem | States |
|---|---|
| `TypeCorrect`, `NoCallLost`, `InOrderIssued`, `PendingOwed`, `NeverRefusedEarly`, `LossSurvived` | `TypeOK`, `InOnePlace`, `IssueOrder`, `PendingIsOwed`, `RefusedOnlyWhenLost`, `SurvivesLoss` |
| `FailureIsTold` | the action property `FailureReachesAll` |

`Inv` has one part for each question. `MadeInv`: of a call that has not been made there is nothing.
`PhaseInv`: until `'connection'` is emitted nothing has left `waiting`; it is emitted by a context that
is up or was ended by a listener of `'state'`; while a failure is announced, only calls made since
are in the microtasks, and no `'connection'` is being emitted; and `connect()` throws only when the
connection is lost. It is why no call is refused too early and why `'error'` finds no call made before
the failure between two stages.
`PlaceInv` is `InOnePlace` queue by queue. `OrderInv` is what makes `IssueOrder` inductive: what is issued,
in the microtasks and being emitted is in turn, `waiting` and `emitting` are in the order of the
calls and hold none that was not deferred, and no stream is in the microtasks. `PendingInv` is
`PendingIsOwed` for a connection on its way up too. The lemmas about queues (`AppendEffect`, `TailEffect`,
`ConcatEffect`) say what appending, taking and joining do to the elements and to what is in line
before what; they are about any sequence.

### ClientProofs

For every number of calls.

| Theorem | States |
|---|---|
| `ClientTypeCorrect`, `EachStreamTold` | `ClientTypeOK`, `ToldOfLoss` |

`ClientInv` adds to the types: `LossInv`, streams are told of a loss only when there is one; and
`ToldInv`, which is `ToldOfLoss` while the list is being gone through: a stream that is over has
emitted its event, and once the callback of the lost context has returned, one that is not over is
in the list. It reuses `TypeStep` of `PulseContextProofs` for the steps that are the context's own.

## Not modelled

- The content of chunks, replies and property lists; formatting and logging.
- Memory: the `Pending` objects and the main loop events that are never freed, the handles that
  are never closed. The destructors: the state callback of a native object keeps its JavaScript object
  alive, so that they run for refused streams alone (`RefusedStream`).
- A listener of the context's `'state'` that ends it while `pa_context_connect` is still running,
  which libpulse does not foresee. An application without a listener for `'error'`, for
  which Node makes an exception of the event.
- Node 12, which `.travis.yml` and `HISTORY` still name. Its Writable keeps what it has buffered after
  an error and takes later chunks before it; the model has what Node does since version 14, which
  fails the buffered chunks and takes no more (`ResumeRejected`). The stream is lost by then in
  either case, and no chunk of it can reach the server.
- The getters for latency, upload streams, which `pulse.js` does not create, and the bindings'
  argument checks that `pulse.js` cannot fail.
- The conversions (`str2bit`, `str2num`, `num2str`, the tables of constants, the sample
  specification): look-ups and casts without state. Where they decide what happens next they
  are in the model they concern (`ServerName`, `Throws`). An invalid sample specification ends the
  process in the constructor of `Stream`, before `New` can throw; it is listed as a hazard.
- `quit` of the main loop, whose body is empty; a wall clock that is set.
- A sample rate, format or latency: no property tells them apart.

## Plan

Done: `PlaybackStream`, `ChunkSink`, `PulseContext`, `Client`, `RecordStream`, `MainloopApi`,
`UvMainloop`, and the proofs of all their safety properties and refinements.

Left: that the context keeps its promises in `Client`, where calls of a kind `PulseContext` does not
have (`RefusedStream`, `GoneUnheard`) come between its own: `IssueOrder`, `PendingIsOwed`,
`RefusedOnlyWhenLost` and `FailureReachesAll` of `ClientSpec`.
