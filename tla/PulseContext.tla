----------------------------- MODULE PulseContext -----------------------------
(***************************************************************************)
(* The Context of lib/pulse.js over the native Context of src/context.cc:  *)
(* its connection, and the calls an application makes on it, numbered in   *)
(* the order they are made.  A call is                                     *)
(*   "info"       info(), answered through ServerInfoCallback              *)
(*   "operation"  any other of the promise-returning methods               *)
(*   "stream"     createPlaybackStream or createRecordStream               *)
(*                                                                         *)
(* A call made before the connection waits for the 'connection' event      *)
(* (waiting).  While that event is being emitted (emitting) its listeners  *)
(* run one after another, those of the application between them; each      *)
(* waiting promise puts the continuation of its call in the microtask      *)
(* queue, which runs once the emission is over.                            *)
(*                                                                         *)
(* Of each state the context first emits 'state', whose listeners are      *)
(* application code too, and only then does what the state calls for.  A   *)
(* state is in announcing in between; that of a context which a listener   *)
(* of "ready" has ended comes inside the other.                            *)
(*                                                                         *)
(* The application is assumed to listen for 'error' for as long as the     *)
(* context lives; without a listener Node makes an exception of that event.*)
(***************************************************************************)
EXTENDS Integers, Sequences, SequencesExt

CONSTANT MaxCalls   \* bound: how many calls the application makes

Calls == 1 .. MaxCalls
Kinds == {"info", "operation", "stream"}

ASSUME ContextAssumption == MaxCalls \in Nat

VARIABLES
  \* the options, and libpulse's side of the context
  option,      \* a server name was given
  server,      \* what pa_context_connect was told: "none", "default", "named", "flags"
  pa_state,
  operation,   \* of each call: "none", "running", "done", "cancelled", "refused"
  \* Context (pulse.js)
  connected,
  announcing,  \* the states for which 'state' is being emitted
  waiting, emitting, microtasks,
  promise,     \* of each call: "none", "pending", "resolved", "rejected"
  throwing,    \* connect() has failed and its exception is on the way
  crashed,     \* the process is gone
  \* history
  called,      \* how many calls were made
  kind,        \* what each of them was
  deferred,    \* those that were made before the connection
  before,      \* how many there were when the connection failed
  issued,      \* those that reached libpulse, in that order
  answer       \* what the server said of each: "none", "ok", "error"

connection == <<option, server, pa_state, connected, announcing, throwing, before>>
queues     == <<waiting, emitting, microtasks>>
calls      == <<called, kind, deferred>>
vars == <<connection, operation, queues, promise, crashed, calls, issued, answer>>

Ready == pa_state = "ready"
Good  == pa_state \in {"connecting", "authorizing", "setting_name", "ready"}
Lost  == pa_state \in {"failed", "terminated"}

\* No callback of libpulse is under way, so that microtasks run; when they have run,
\* JavaScript is back at the event loop.
Idle   == announcing = {} /\ emitting = <<>> /\ ~throwing /\ ~crashed
AtLoop == Idle /\ microtasks = <<>>

Init ==
  /\ option \in BOOLEAN /\ server = "none"
  /\ pa_state = "unconnected" /\ connected = FALSE /\ announcing = {}
  /\ operation = [c \in Calls |-> "none"]
  /\ waiting = <<>> /\ emitting = <<>> /\ microtasks = <<>>
  /\ promise = [c \in Calls |-> "none"]
  /\ throwing = FALSE /\ crashed = FALSE
  /\ called = 0 /\ before = 0
  /\ kind = [c \in Calls |-> "none"]
  /\ deferred = {} /\ issued = <<>>
  /\ answer = [c \in Calls |-> "none"]

-------------------------------------------------------------------------------
(* Calls of the application *)

\* Mutants: the connection is not waited for; the listener is put before the others; it is
\* that of another call.
DeferNever(c) == microtasks' = Append(microtasks, c) /\ UNCHANGED <<waiting, deferred>>
DeferFirst(c) ==
  /\ waiting' = <<c>> \o waiting
  /\ deferred' = deferred \cup {c}
  /\ UNCHANGED microtasks
DeferNext(c) ==
  /\ waiting' = Append(waiting, c + 1)
  /\ deferred' = deferred \cup {c}
  /\ UNCHANGED microtasks

\* waitConnection for a context that is not connected, and _connection.
Defer(c) ==
  /\ waiting' = Append(waiting, c)
  /\ deferred' = deferred \cup {c}
  /\ UNCHANGED microtasks

\* A promise-returning method: an async function up to its first await.
CallMethod(k) ==
  LET c == called + 1
  IN  /\ ~crashed /\ called < MaxCalls
      /\ called' = c
      /\ kind' = [kind EXCEPT ![c] = k]
      /\ promise' = [promise EXCEPT ![c] = "pending"]
      /\ \/ /\ connected
            /\ microtasks' = Append(microtasks, c)
            /\ UNCHANGED <<waiting, deferred>>
         \/ ~connected /\ Defer(c)
      /\ UNCHANGED <<connection, operation, emitting, crashed, issued, answer>>

\* libpulse takes a request only while the context is ready; otherwise it returns no
\* operation, which nobody looks at, and will never call back.
Issue(c) ==
  /\ operation' = [operation EXCEPT ![c] = IF Ready THEN "running" ELSE "refused"]
  /\ issued' = Append(issued, c)

\* Mutant: a stream listens for 'connection' even if that event is over.
CreateStreamLater ==
  LET c == called + 1
  IN  /\ ~crashed /\ called < MaxCalls
      /\ called' = c
      /\ kind' = [kind EXCEPT ![c] = "stream"]
      /\ Defer(c)
      /\ UNCHANGED <<connection, operation, emitting, promise, crashed, issued, answer>>

\* createStream: what becomes of the stream is in Client, what it does in its own module.
\* On a context that has failed after it was connected the exception of stm.connect goes
\* to the application.
CreateStream ==
  LET c == called + 1
  IN  /\ ~crashed /\ called < MaxCalls
      /\ called' = c
      /\ kind' = [kind EXCEPT ![c] = "stream"]
      /\ \/ /\ connected
            /\ Issue(c)
            /\ UNCHANGED <<waiting, microtasks, deferred>>
         \/ /\ ~connected
            /\ Defer(c)
            /\ UNCHANGED <<operation, issued>>
      /\ UNCHANGED <<connection, emitting, promise, crashed, answer>>

\* pa_context_disconnect: libpulse forgets the operations and terminates the streams.
Cancelled == [c \in Calls |-> IF operation[c] = "running" THEN "cancelled" ELSE operation[c]]

\* end(): the state callback with "terminated" comes before it returns, and 'state' is
\* emitted.  On a context that is not up, libpulse does nothing.
End ==
  /\ ~crashed
  /\ Good
  /\ pa_state' = "terminated"
  /\ announcing' = announcing \cup {"terminated"}
  /\ operation' = Cancelled
  /\ UNCHANGED <<option, server, connected, throwing, before, queues, promise, crashed, calls,
                 issued, answer>>

-------------------------------------------------------------------------------
(* The 'connection' event, and the microtasks *)

\* The next listener is called.  A waiting promise is resolved and its continuation
\* queued; a stream is connected, and if end() was called by an earlier listener the
\* exception of stm.connect has no handler.
EmitConnection ==
  LET c == Head(emitting)
  IN  /\ emitting # <<>> /\ announcing = {} /\ ~crashed
      /\ emitting' = Tail(emitting)
      /\ \/ /\ kind[c] # "stream"
            /\ microtasks' = Append(microtasks, c)
            /\ UNCHANGED <<operation, issued, crashed>>
         \/ /\ kind[c] = "stream"
            /\ Issue(c)
            /\ crashed' = ~Ready
            /\ UNCHANGED microtasks
      /\ UNCHANGED <<connection, waiting, promise, calls, answer>>

\* A call goes on after its await: it listens for 'error' and asks libpulse.
Continue ==
  /\ Idle /\ microtasks # <<>>
  /\ microtasks' = Tail(microtasks)
  /\ Issue(Head(microtasks))
  /\ UNCHANGED <<connection, waiting, emitting, promise, crashed, calls, answer>>

-------------------------------------------------------------------------------
(* The connection *)

\* Mutant: calls that have been issued do not listen for 'error'.
ListeningOnlyWaiting == {c \in ToSet(waiting) : kind[c] # "stream"}

\* The calls with a listener for 'error': those that wait in waitConnection and those
\* whose promise comes from makePromise or infoListWrap.  A stream that waits has none.
Listening ==
  {c \in 1 .. called : /\ promise[c] = "pending"
                       /\ c \in ToSet(waiting) \/ operation[c] # "none"}

\* 'error' is emitted: its listeners reject their promises.  Those of waitConnection leave
\* their listeners for 'connection' behind, in `waiting`.
EmitError ==
  promise' = [c \in Calls |-> IF c \in Listening THEN "rejected" ELSE promise[c]]

\* The state callback with "failed": 'state' is emitted ...
Fail ==
  /\ pa_state' = "failed"
  /\ announcing' = {"failed"}
  /\ before' = called

\* ... then 'error', whatever its listeners did; _connected stays as it is.
Failure ==
  /\ "failed" \in announcing
  /\ announcing' = {}
  /\ EmitError
  /\ UNCHANGED <<option, server, pa_state, connected, throwing, before, operation, queues, crashed,
                 calls, issued, answer>>

\* What the native Connect tells pa_context_connect of the server: its name is made of
\* the argument that holds the flags.
ServerName == IF option THEN "flags" ELSE "default"

\* The constructor's nextTick: connect() starts the connection, ...
Connect ==
  /\ ~crashed /\ pa_state = "unconnected"
  /\ server' = ServerName
  /\ pa_state' = "connecting"
  /\ UNCHANGED <<option, connected, announcing, throwing, before, operation, queues, promise,
                 crashed, calls, issued, answer>>

\* ... or fails at once, in the state callback first ...
ConnectFails ==
  /\ ~crashed /\ pa_state = "unconnected"
  /\ server' = ServerName
  /\ Fail
  /\ throwing' = TRUE
  /\ UNCHANGED <<option, connected, operation, queues, promise, crashed, calls, issued, answer>>

\* ... and then by an exception, for which 'error' is emitted again.
ConnectThrows ==
  /\ throwing /\ announcing = {} /\ ~crashed
  /\ throwing' = FALSE
  /\ EmitError
  /\ UNCHANGED <<option, server, pa_state, connected, announcing, before, operation, queues, crashed,
                 calls, issued, answer>>

\* The state callback on the way to a connection.
Advance ==
  /\ AtLoop
  /\ \/ pa_state = "connecting" /\ pa_state' = "authorizing"
     \/ pa_state = "authorizing" /\ pa_state' = "setting_name"
  /\ UNCHANGED <<option, server, connected, announcing, throwing, before, operation, queues,
                 promise, crashed, calls, issued, answer>>

\* Mutants: the listeners stay (`on` for `once`); the event is not emitted.
ReleaseAndKeep == emitting' = waiting /\ waiting' = waiting
ReleaseNone == emitting' = <<>> /\ waiting' = waiting

Release == emitting' = waiting /\ waiting' = <<>>

\* The state callback with "ready": 'state' is emitted ...
StateReady ==
  /\ AtLoop /\ pa_state = "setting_name"
  /\ pa_state' = "ready"
  /\ announcing' = {"ready"}
  /\ UNCHANGED <<option, server, connected, throwing, before, operation, queues, promise, crashed,
                 calls, issued, answer>>

\* ... then _connected is set and 'connection' emitted, whatever listeners of 'state' did.
Connection ==
  /\ announcing = {"ready"}
  /\ announcing' = {}
  /\ connected' = TRUE
  /\ Release
  /\ UNCHANGED <<option, server, pa_state, throwing, before, operation, microtasks, promise,
                 crashed, calls, issued, answer>>

\* An established connection fails, or one that is being made.
StateFailed ==
  /\ AtLoop /\ Good
  /\ Fail
  /\ operation' = Cancelled
  /\ UNCHANGED <<option, server, connected, throwing, queues, promise, crashed, calls, issued,
                 answer>>

\* The rest of the handler of "terminated": _connected is reset and 'close' emitted.
Closed ==
  /\ "terminated" \in announcing
  /\ announcing' = announcing \ {"terminated"}
  /\ connected' = FALSE
  /\ UNCHANGED <<option, server, pa_state, throwing, before, operation, queues, promise, crashed,
                 calls, issued, answer>>

-------------------------------------------------------------------------------
(* Answers *)

\* Mutant: the promise is left alone.
ResolveNever(c) == UNCHANGED promise

\* Pending::Return calls the resolver.
Resolve(c) == promise' = [promise EXCEPT ![c] = "resolved"]

\* Mutant: every callback reads its argument whatever the verdict is.
ReplyUnchecked(c, verdict) ==
  /\ AtLoop
  /\ operation[c] = "running" /\ kind[c] # "stream"
  /\ operation' = [operation EXCEPT ![c] = "done"]
  /\ answer' = [answer EXCEPT ![c] = verdict]
  /\ \/ verdict = "error" /\ crashed' = TRUE /\ UNCHANGED promise
     \/ verdict = "ok" /\ Resolve(c) /\ UNCHANGED crashed
  /\ UNCHANGED <<connection, queues, calls, issued>>

\* The server has answered, or has not within libpulse's time limit.  The callbacks do
\* not look at the difference, but ServerInfoCallback reads its missing argument.
Reply(c, verdict) ==
  /\ AtLoop
  /\ operation[c] = "running" /\ kind[c] # "stream"
  /\ operation' = [operation EXCEPT ![c] = "done"]
  /\ answer' = [answer EXCEPT ![c] = verdict]
  /\ \/ /\ kind[c] = "info" /\ verdict = "error"
        /\ crashed' = TRUE
        /\ UNCHANGED promise
     \/ /\ kind[c] # "info" \/ verdict = "ok"
        /\ Resolve(c)
        /\ UNCHANGED crashed
  /\ UNCHANGED <<connection, queues, calls, issued>>

-------------------------------------------------------------------------------
Application == CallMethod("info") \/ CallMethod("operation") \/ CreateStream \/ End

Startup == Connect \/ ConnectFails

Replies == \E c \in Calls : Reply(c, "ok") \/ Reply(c, "error")

Next == \/ Application
        \/ Startup \/ ConnectThrows \/ EmitConnection \/ Continue
        \/ Advance \/ StateReady \/ Connection \/ StateFailed \/ Failure \/ Closed \/ Replies

Spec == Init /\ [][Next]_vars

\* The runtime runs what is due; a live server accepts the connection and answers.
Fairness ==
  /\ WF_vars(Startup) /\ WF_vars(ConnectThrows)
  /\ WF_vars(EmitConnection) /\ WF_vars(Continue)
  /\ WF_vars(Advance) /\ WF_vars(StateReady) /\ WF_vars(Connection)
  /\ WF_vars(Failure) /\ WF_vars(Closed)
  /\ \A c \in Calls : WF_vars(Reply(c, "ok") \/ Reply(c, "error"))

FairSpec == Spec /\ Fairness

-------------------------------------------------------------------------------
(* Properties *)

\* Every variable has its type, and the queues hold calls that have been made.
TypeOK ==
  /\ option \in BOOLEAN /\ server \in {"none", "default", "named", "flags"}
  /\ pa_state \in {"unconnected", "connecting", "authorizing", "setting_name", "ready",
                   "failed", "terminated"}
  /\ operation \in [Calls -> {"none", "running", "done", "cancelled", "refused"}]
  /\ connected \in BOOLEAN /\ announcing \subseteq {"ready", "failed", "terminated"}
  /\ throwing \in BOOLEAN /\ crashed \in BOOLEAN
  /\ called \in 0 .. MaxCalls /\ before \in 0 .. called
  /\ {waiting, emitting, microtasks, issued} \subseteq Seq(1 .. called)
  /\ promise \in [Calls -> {"none", "pending", "resolved", "rejected"}]
  /\ kind \in [Calls -> Kinds \cup {"none"}]
  /\ deferred \subseteq 1 .. called
  /\ answer \in [Calls -> {"none", "ok", "error"}]

\* A call that has not reached libpulse is in exactly one queue and once: the hand-over
\* from waitConnection through the 'connection' event to the microtasks neither loses a
\* call nor issues one twice.
InOnePlace ==
  LET line == waiting \o emitting \o microtasks
  IN  /\ IsInjective(line)
      /\ \A c \in 1 .. called : c \in ToSet(line) <=> operation[c] = "none"

\* Call c may reach libpulse before call d: it was made earlier, or by a listener of
\* 'connection' while d was waiting, or it is a stream, which awaits nothing.
MayPrecede(c, d) ==
  \/ c < d
  \/ c \notin deferred /\ d \in deferred
  \/ kind[c] = "stream" /\ kind[d] # "stream"

\* Calls reach libpulse in the order they were made, but for what the event brings about:
\* calls made in it may overtake calls that waited, and streams may overtake methods.
IssueOrder ==
  \A i, j \in DOMAIN issued : i < j => MayPrecede(issued[i], issued[j])

\* While the connection is up, a promise is pending exactly as long as its call is on its
\* way to libpulse or libpulse owes an answer: none is left behind, and no answer comes
\* for a promise that has been settled (makePromise, Pending).
PendingIsOwed ==
  Ready /\ ~crashed =>
    \A c \in 1 .. called :
      kind[c] # "stream" => (promise[c] = "pending" <=> operation[c] \in {"none", "running"})

\* waitConnection does its work: libpulse refuses a call only if the connection has been
\* lost, never because it is not there yet.
RefusedOnlyWhenLost == \A c \in Calls : operation[c] = "refused" => Lost

\* When the connection has failed and 'error' is emitted, the promise of every call made
\* before the failure is rejected, whether it waits for the connection or for an answer, and
\* whatever the listeners of 'state' do in between: the 'error' listeners of waitConnection
\* and makePromise leave no gap between them in which a failure could come.
FailureReachesAll ==
  [][announcing = {"failed"} /\ announcing' = {}
       => \A c \in 1 .. before : promise'[c] # "pending"]_vars

\* The loss of a connection does not kill the process, wherever it finds the calls, and an
\* error of the server does so only in an info().  What else does is end() while streams
\* still wait for their turn in the 'connection' event: stm.connect throws there.
SurvivesLoss ==
  crashed => \/ pa_state = "terminated"
                /\ \E c \in deferred : kind[c] = "stream" /\ operation[c] = "refused"
             \/ \E c \in Calls : kind[c] = "info" /\ answer[c] = "error"

\* What a call is for has happened: its promise is settled or its stream connected.
Settled(c) == IF kind[c] = "stream" THEN operation[c] # "none"
              ELSE promise[c] \in {"resolved", "rejected"}

\* Every call settles, unless the connection is lost or the process dies.
EachCallSettles == \A c \in Calls : called >= c ~> Settled(c) \/ Lost \/ crashed

\* README.md:39 "server: "my-preferred-server", // optional server name": libpulse is told
\* of the server the application names.
ServerHonoured == server # "none" => server = IF option THEN "named" ELSE "default"

\* README.md:62 "any operations execute deferred": the promise of a call settles, sooner or
\* later, unless the application ends the context.
DeferredCallsSettle ==
  \A c \in Calls : called >= c /\ kind[c] # "stream"
                      ~> Settled(c) \/ pa_state = "terminated" \/ crashed

\* test/module.js:18-25: once `await ctx.unloadModule(...)` is over, the module is gone; a
\* promise resolves only if the server did what it was asked.
ResolvedMeansDone == \A c \in Calls : promise[c] = "resolved" => answer[c] = "ok"

===============================================================================
