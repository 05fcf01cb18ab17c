---------------------------- MODULE PlaybackStream ----------------------------
(***************************************************************************)
(* The playback path of node-pulseaudio: the Writable PlaybackStream of    *)
(* lib/pulse.js, the native Stream of src/stream.cc below it, and, as far  *)
(* as those two can observe them, Node's Writable, libpulse and the sound  *)
(* server.                                                                 *)
(*                                                                         *)
(* The chunks an application writes are numbered in the order of its       *)
(* write() calls.  Node's Writable hands them to _write one at a time and  *)
(* in that order, so its queue is the interval begun+1 .. submitted and    *)
(* the chunk it is waiting for is begun, whenever flight # "none".  flight *)
(* tells where the `done` callback of that chunk is:                       *)
(*   "await"     in _write, waiting for the stream's 'connection' event    *)
(*   "resumed"   the continuation of that await is in the microtask queue  *)
(*   "rejected"  the same, but the await throws                            *)
(*   "native"    with the native stream, in drain_callback                 *)
(*                                                                         *)
(* JavaScript runs to completion and its microtasks run before the event   *)
(* loop delivers anything (AtLoop); the application's own code, which may  *)
(* run in the same turn, is not held up by them.                           *)
(***************************************************************************)
EXTENDS Integers

CONSTANTS
  MaxChunks,   \* bound: how many chunks the application writes
  Length,      \* the size in bytes of each chunk
  TLength,     \* the server side buffer of the stream, in bytes
  MaxFlushes   \* bound: flush operations with a DrainCallback outstanding

Chunks == 1 .. MaxChunks
None == 0

ASSUME PlaybackAssumption ==
  /\ MaxChunks \in Nat
  /\ Length \in [Chunks -> Nat]
  /\ TLength \in Nat \ {0}
  /\ MaxFlushes \in Nat

VARIABLES
  \* Node's Writable
  submitted, begun, flight, ended, finished, errored,
  \* PlaybackStream (pulse.js)
  discard, connected, playing,
  \* Stream (stream.cc)
  pa_state, write_buffer, write_offset, drain_callback,
  \* libpulse and the server
  corked, requested, queued, flushes, closing,
  \* history: how `done` was called for a chunk, how many of its bytes reached
  \* the server, and how many chunks had been submitted at the last discard()
  \* and at the last stop()
  outcome, sent, horizon, stopHorizon

writable == <<submitted, begun, flight, ended, finished, errored>>
jsStream == <<discard, connected, playing>>
native   == <<write_buffer, write_offset, drain_callback>>
server   == <<corked, requested, queued, flushes, closing>>
history  == <<outcome, sent, horizon, stopHorizon>>
vars     == <<writable, jsStream, pa_state, native, server, history>>

Smaller(a, b) == IF a < b THEN a ELSE b

Ready == pa_state = "ready"
Lost  == pa_state \in {"failed", "terminated"}

\* The Writable has called _write for everything after end().
FinishDue ==
  /\ ended /\ ~finished /\ ~errored
  /\ begun = submitted /\ flight = "none"

\* The event loop delivers an event only when no continuation and no 'finish' is
\* pending.
AtLoop == flight \notin {"resumed", "rejected"} /\ ~FinishDue

\* The constructor: createStream, which ends with play(), and discard = 0.  The
\* stream may have been created with the start_corked flag.
Init ==
  /\ submitted = 0 /\ begun = 0 /\ flight = "none"
  /\ ended = FALSE /\ finished = FALSE /\ errored = FALSE
  /\ discard = 0 /\ connected = FALSE /\ playing = TRUE
  /\ pa_state = "unconnected"
  /\ write_buffer = None /\ write_offset = 0 /\ drain_callback = None
  /\ corked \in BOOLEAN
  /\ requested = 0 /\ queued = 0 /\ flushes = 0 /\ closing = FALSE
  /\ outcome = [c \in Chunks |-> "none"]
  /\ sent = [c \in Chunks |-> 0]
  /\ horizon = 0 /\ stopHorizon = 0

-------------------------------------------------------------------------------
(* Node's Writable and _write *)

\* waitConnection: a resolved promise, or a promise that waits for an event.
WaitConnection == IF connected THEN "resumed" ELSE "await"

\* Mutant: one chunk too many is reported as discarded.
ReportsAhead(next, how) ==
  [c \in Chunks |-> IF c = begun /\ flight # "none" THEN how
                    ELSE IF begun < c /\ c <= next + 1 THEN "discarded" ELSE outcome[c]]

\* How `done` is called for the chunk in flight and for those _write drops after it.  Node
\* gives _write the same function for every chunk and takes a call of it for the chunk in
\* flight, whatever it was meant for.
Reports(next, how) ==
  [c \in Chunks |-> IF c = begun /\ flight # "none" THEN how
                    ELSE IF begun < c /\ c <= next THEN "discarded" ELSE outcome[c]]

\* `done` has been called for the chunk in flight, if there is one, and the
\* Writable calls _write for the chunks that follow, up to number `last`.  _write
\* calls done at once for as many of them as the discard counter says; the next
\* one goes to waitConnection.
Feed(last, how) ==
  LET skipped == Smaller(discard, last - begun)
      next    == begun + skipped
  IN  /\ discard' = discard - skipped
      /\ begun' = Smaller(next + 1, last)
      /\ flight' = IF next < last THEN WaitConnection ELSE "none"
      /\ outcome' = Reports(next, how)

fed == <<discard, begun, flight, outcome>>

\* The application calls write(): a busy Writable buffers the chunk.
Write ==
  /\ submitted < MaxChunks /\ ~ended /\ ~errored
  /\ submitted' = submitted + 1
  /\ \/ flight # "none" /\ UNCHANGED fed
     \/ flight = "none" /\ Feed(submitted + 1, "none")
  /\ UNCHANGED <<ended, finished, errored, connected, playing, pa_state, native,
                 server, sent, horizon, stopHorizon>>

\* The application calls end().
End ==
  /\ ~ended /\ ~errored
  /\ ended' = TRUE
  /\ UNCHANGED <<submitted, begun, flight, finished, errored, jsStream, pa_state,
                 native, server, history>>

\* Mutant: no handler for 'finish'.
DisconnectNever == closing' = closing

\* pa_stream_disconnect, which libpulse refuses unless the stream is up.
Disconnect == closing' = (closing \/ Ready)

\* The Writable emits 'finish' and the handler disconnects the stream.
Finish ==
  /\ FinishDue
  /\ finished' = TRUE
  /\ Disconnect
  /\ UNCHANGED <<submitted, begun, flight, ended, errored, jsStream, pa_state,
                 native, corked, requested, queued, flushes, history>>

-------------------------------------------------------------------------------
(* The native stream *)

\* Mutants: the callback is not reset; it is reset and not called.
DrainKeepsCallback(callback, how) ==
  /\ write_buffer' = None
  /\ drain_callback' = callback
  /\ \/ callback = None /\ UNCHANGED fed
     \/ callback # None /\ Feed(submitted, how)

DrainForgetsCallback(callback, how) ==
  /\ write_buffer' = None
  /\ drain_callback' = None
  /\ flight' = "native"
  /\ UNCHANGED <<discard, begun, outcome>>

\* drain(): forget the buffer, then forget and call the callback.
Drain(callback, how) ==
  /\ write_buffer' = None
  /\ drain_callback' = None
  /\ \/ callback = None /\ UNCHANGED fed
     \/ callback # None /\ Feed(submitted, how)

\* pa_stream_write: bytes reach the server only if the stream is up.
Deliver(c, n, credit, backlog) ==
  LET accepted == IF Ready THEN n ELSE 0
  IN  /\ sent' = [sent EXCEPT ![c] = @ + accepted]
      /\ queued' = backlog + accepted
      /\ requested' = credit - accepted

\* pa_stream_writable_size, which is (size_t)-1 on a stream that is not up: more
\* than any buffer can fill.
WritableSize(c, credit) == IF Ready THEN credit ELSE Length[c] + 1

\* Mutants: request() does not clamp the length to what was asked for; it forgets the
\* offset; drain() follows whenever request(length) <= length.
ChunkUnclamped(c, offset, length) == Length[c] - offset
ChunkFromStart(c, offset, length) == Smaller(length, Length[c])
ExhaustedAtOnce(chunk, length) == chunk <= length

\* The bytes of chunk c that request(length) writes, and whether the chunk could not
\* use the whole length.
Chunk(c, offset, length) == Smaller(length, Length[c] - offset)
Exhausted(chunk, length) == chunk < length

\* request(length) for chunk c from `offset`, and drain() if that exhausts it.
Request(c, offset, callback, credit, backlog) ==
  LET length == WritableSize(c, credit)
      chunk  == Chunk(c, offset, length)
  IN  /\ Deliver(c, chunk, credit, backlog)
      /\ write_offset' = offset + chunk
      /\ \/ Exhausted(chunk, length) /\ Drain(callback, "drained")
         \/ /\ ~Exhausted(chunk, length)
            /\ write_buffer' = c
            /\ drain_callback' = callback
            /\ flight' = "native"
            /\ UNCHANGED <<discard, begun, outcome>>

\* pa_stream_flush with a DrainCallback, for a buffer that is still there.
MustFlush == write_buffer # None /\ Ready
FlushesAfter == IF MustFlush THEN flushes + 1 ELSE flushes

\* Mutant: write() leaves it to the next RequestCallback to start.
NativeWriteLater(c) ==
  /\ flushes' = FlushesAfter
  /\ corked' = (corked /\ ~Ready)
  /\ queued' = IF MustFlush THEN 0 ELSE queued
  /\ write_buffer' = c /\ write_offset' = 0 /\ drain_callback' = c
  /\ flight' = "native"
  /\ UNCHANGED <<discard, begun, outcome, sent, requested>>

\* write(buffer, callback) with a Buffer.
NativeWrite(c) ==
  /\ flushes' = FlushesAfter
  /\ corked' = (corked /\ ~Ready)
  /\ Request(c, 0, c, requested, IF MustFlush THEN 0 ELSE queued)

\* write(null, null): no callback and no Buffer, so two flushes.
NativeFlush ==
  /\ flushes' = FlushesAfter
  /\ queued' = IF Ready THEN 0 ELSE queued

-------------------------------------------------------------------------------
(* _write after its await, and the application's stop(), play() and discard() *)

\* Mutant: `playing` is not looked at.
ResumeWriteUnchecked ==
  /\ flight = "resumed"
  /\ NativeWrite(begun)
  /\ UNCHANGED <<submitted, ended, finished, errored, connected, playing, pa_state,
                 closing, horizon, stopHorizon>>

\* Playing: hand the chunk to the native stream.
ResumeWrite ==
  /\ flight = "resumed" /\ playing
  /\ NativeWrite(begun)
  /\ UNCHANGED <<submitted, ended, finished, errored, connected, playing, pa_state,
                 closing, horizon, stopHorizon>>

\* Stopped: report the chunk as done without playing it.
ResumeStopped ==
  /\ flight = "resumed" /\ ~playing
  /\ Feed(submitted, "stopped")
  /\ UNCHANGED <<submitted, ended, finished, errored, connected, playing, pa_state,
                 native, server, sent, horizon, stopHorizon>>

\* The await threw: done(e) puts the Writable in its error state, in which it
\* fails every chunk it has buffered and takes no more (Node 14 and later).
ResumeRejected ==
  /\ flight = "rejected"
  /\ errored' = TRUE
  /\ flight' = "none"
  /\ begun' = submitted
  /\ outcome' = [c \in Chunks |-> IF begun <= c /\ c <= submitted THEN "error"
                                  ELSE outcome[c]]
  /\ UNCHANGED <<submitted, ended, finished, jsStream, pa_state, native, server,
                 sent, horizon, stopHorizon>>

\* Mutants: the count includes the chunk in flight; it is one short.
BufferedRequestCountAll == submitted - begun + 1
BufferedRequestCountShort == submitted - begun - 1

BufferedRequestCount == submitted - begun

\* discard(): count the chunks that _write is to drop, and flush.
DiscardBuffered ==
  /\ flushes < MaxFlushes
  /\ discard' = BufferedRequestCount
  /\ \/ connected /\ NativeFlush
     \/ ~connected /\ UNCHANGED <<flushes, queued>>
  /\ horizon' = submitted
  /\ UNCHANGED <<writable, connected, pa_state, native, corked, requested, closing,
                 outcome, sent>>

Discard == DiscardBuffered /\ UNCHANGED <<playing, stopHorizon>>

Stop == DiscardBuffered /\ playing' = FALSE /\ stopHorizon' = submitted

Play ==
  /\ playing' = TRUE
  /\ UNCHANGED <<writable, discard, connected, pa_state, native, server, history>>

-------------------------------------------------------------------------------
(* Events of libpulse *)

\* Stream::connect, whose pa_stream_connect_playback is accepted on a stream that has not
\* been connected and lets the server make the stream.
NativeConnect == pa_state = "unconnected" /\ pa_state' = "creating"

\* The context is ready: createStream's callback connects the stream.
Connect ==
  /\ AtLoop
  /\ NativeConnect
  /\ UNCHANGED <<writable, jsStream, native, server, history>>

\* StateCallback with ready: 'state' is emitted, where a listener may end the context,
\* then _connected is set and 'connection' emitted all the same.  The server's answer
\* carries the first request, for its whole buffer.
StateReady ==
  /\ AtLoop /\ pa_state = "creating"
  /\ pa_state' \in {"ready", "terminated"}
  /\ connected' = TRUE
  /\ requested' = TLength
  /\ flight' = IF flight = "await" THEN "resumed" ELSE flight
  /\ UNCHANGED <<submitted, begun, ended, finished, errored, discard, playing, native,
                 corked, queued, flushes, closing, history>>

\* StateCallback with failed: 'error' is emitted and nothing else changes; libpulse
\* cancels the operations of the stream.
StateFailed ==
  /\ AtLoop /\ ~Lost
  /\ pa_state' = "failed"
  /\ flushes' = 0 /\ closing' = FALSE
  /\ flight' = IF flight = "await" THEN "rejected" ELSE flight
  /\ UNCHANGED <<submitted, begun, ended, finished, errored, jsStream, native, corked,
                 requested, queued, history>>

\* StateCallback with terminated: 'close' is emitted.
Terminated ==
  /\ pa_state' = "terminated"
  /\ connected' = FALSE
  /\ flushes' = 0 /\ closing' = FALSE
  /\ UNCHANGED <<writable, discard, playing, native, corked, requested, queued, history>>

\* The application ends the context, which terminates its streams at once, ...
ContextEnd == ~Lost /\ Terminated

\* ... or the server has answered the stream's own disconnect.
DisconnectReply == AtLoop /\ Ready /\ closing /\ Terminated

\* The server plays a byte.
ServerPlay ==
  /\ Ready /\ ~corked /\ queued > 0
  /\ queued' = queued - 1
  /\ UNCHANGED <<writable, jsStream, pa_state, native, corked, requested, flushes,
                 closing, history>>

\* The server asks for k bytes of those missing in its buffer and libpulse calls
\* RequestCallback with all that has been asked for and not been written.
RequestCallback ==
  /\ AtLoop /\ Ready
  /\ \E k \in 1 .. TLength - requested - queued :
       \/ /\ write_buffer = None
          /\ requested' = requested + k
          /\ UNCHANGED <<fed, sent, queued, native>>
       \/ /\ write_buffer # None
          /\ Request(write_buffer, write_offset, drain_callback, requested + k, queued)
  /\ UNCHANGED <<submitted, ended, finished, errored, connected, playing, pa_state,
                 corked, flushes, closing, horizon, stopHorizon>>

\* A flush has been acknowledged.
DrainCallback ==
  /\ AtLoop /\ Ready /\ flushes > 0
  /\ flushes' = flushes - 1
  /\ Drain(drain_callback, "flushed")
  /\ UNCHANGED <<submitted, ended, finished, errored, connected, playing, pa_state,
                 write_offset, corked, requested, queued, closing, sent, horizon,
                 stopHorizon>>

-------------------------------------------------------------------------------
Application == Write \/ End \/ Discard \/ Stop \/ Play \/ ContextEnd

\* What runs when the microtask queue reaches the continuation of _write.
Continuation == ResumeWrite \/ ResumeStopped \/ ResumeRejected

Runtime == Finish \/ Continuation

Events == \/ Connect \/ StateReady \/ StateFailed \/ DisconnectReply
          \/ ServerPlay \/ RequestCallback \/ DrainCallback

Next == Application \/ Runtime \/ Events

Spec == Init /\ [][Next]_vars

-------------------------------------------------------------------------------
(* Fairness: the runtime runs what is due, and a live server and a live event   *)
(* loop answer, ask for data and play it.  Nothing is assumed of the            *)
(* application, nor that the connection fails or survives.                      *)

Fairness ==
  /\ WF_vars(Finish) /\ WF_vars(Continuation)
  /\ WF_vars(Connect) /\ WF_vars(StateReady) /\ WF_vars(DisconnectReply)
  /\ WF_vars(ServerPlay) /\ WF_vars(RequestCallback) /\ WF_vars(DrainCallback)

FairSpec == Spec /\ Fairness

-------------------------------------------------------------------------------
(* Properties *)

\* Every variable has its type: the counters of JavaScript, libpulse and the native
\* stream stay within what was submitted and what a buffer holds.
TypeOK ==
  /\ submitted \in 0 .. MaxChunks /\ begun \in 0 .. submitted
  /\ flight \in {"none", "await", "resumed", "rejected", "native"}
  /\ ended \in BOOLEAN /\ finished \in BOOLEAN /\ errored \in BOOLEAN
  /\ discard \in 0 .. MaxChunks /\ connected \in BOOLEAN /\ playing \in BOOLEAN
  /\ pa_state \in {"unconnected", "creating", "ready", "failed", "terminated"}
  /\ write_buffer \in 0 .. MaxChunks /\ drain_callback \in 0 .. MaxChunks
  /\ write_offset \in Nat
  /\ corked \in BOOLEAN /\ closing \in BOOLEAN
  /\ requested \in Int /\ queued \in Nat /\ flushes \in Nat
  /\ outcome \in [Chunks -> {"none", "drained", "flushed", "discarded", "stopped", "error"}]
  /\ sent \in [Chunks -> Nat]
  /\ horizon \in 0 .. submitted /\ stopHorizon \in 0 .. submitted

\* The native stream holds a buffer exactly while it owes a callback, and both belong
\* to the chunk the Writable waits for: no `done` is lost or overwritten, whatever
\* requests, flushes and disconnections come in between (Stream::write and drain).
OneHolder ==
  /\ flight = "native" => write_buffer = begun /\ drain_callback = begun
  /\ flight # "native" => write_buffer = None /\ drain_callback = None

\* A stream that holds bytes has used up everything the server asked for: playback
\* never stalls with data and credit both at hand (write, request).
NoIdleCredit == Ready /\ write_buffer # None => requested = 0

\* The stream never writes more than the server asked for, so that what is queued and
\* what has been requested fit the server's buffer (request's clamp of write_length).
CreditRespected == requested >= 0 /\ requested + queued <= TLength

\* discard() drops chunks that were waiting when it was called, and never one that
\* was written afterwards, whatever completes in between: ws.discard is a count, taken
\* once and consumed by later calls of _write.
DiscardSparesNewChunks == \A c \in Chunks : outcome[c] = "discarded" => c <= horizon

\* The server hears of chunks in the order they were written and of no chunk before
\* all earlier ones are done with; the offset of the native stream is what the server
\* has of the chunk it holds (request, write_offset).
InOrder ==
  /\ \A c \in Chunks : /\ sent[c] <= Length[c]
                       /\ sent[c] > 0 => \A d \in 1 .. c - 1 : outcome[d] # "none"
  /\ write_buffer # None => write_offset = sent[write_buffer]

\* A chunk is reported as played only when the server has all of it or the stream is
\* lost, and a chunk reported through the discard, stop or error path never started.
HonestDone ==
  \A c \in Chunks :
    /\ outcome[c] = "drained" /\ ~Lost => sent[c] = Length[c]
    /\ outcome[c] \in {"discarded", "stopped", "error"} => sent[c] = 0

\* `done` is called once for a chunk, and chunks are done in the order of write(): at
\* any time those that are done are the ones before the chunk in flight.
DoneInOrder ==
  \A c \in Chunks : outcome[c] # "none" <=> c < begun \/ (c = begun /\ flight = "none")

\* While the stream is stopped, the server receives bytes of no chunk but the one the
\* native stream already held.
NothingStartsStopped ==
  [][~playing => \A c \in Chunks : sent'[c] # sent[c] => c = write_buffer]_vars

\* Every chunk written is done, unless the stream is lost: the callback of write() is
\* not forgotten by any interleaving of requests, flushes, stop(), play() and discard().
EachChunkSettles ==
  \A c \in Chunks : submitted >= c ~> (outcome[c] # "none" \/ Lost)

\* A stream that finishes after it was connected is closed: 'finish' comes once all
\* chunks are done, and its disconnect is answered.  (One that finishes earlier is not:
\* the disconnect is refused and nothing repeats it when the stream comes up.)
EndCloses == ended /\ ~finished /\ connected ~> Lost

\* The stream implements ChunkSink: a chunk is settled when it has left flight.
Settled == IF flight = "none" THEN begun ELSE begun - 1

Sink == INSTANCE ChunkSink WITH
          accepted <- submitted, settled <- Settled, received <- sent, closed <- ended

\* Whatever the connection and the application do, chunks are settled in order, bytes
\* go to the server for the oldest unsettled chunk, and 'finish' comes last.
ImplementsSink == Sink!Spec

\* README.md:121 "Stopping discards any unplayed samples from stream.": nothing of what
\* had been written at the last stop() reaches the server after it.
StopDiscards ==
  [][\A c \in Chunks : sent'[c] # sent[c] => c > stopHorizon]_vars

\* discard() concerns what has been written: a chunk written after the last one is
\* not cut short by it.
FlushSparesNewChunks == \A c \in Chunks : outcome[c] = "flushed" => c <= horizon

===============================================================================
