--------------------------------- MODULE Client ---------------------------------
(***************************************************************************)
(* A context together with its streams: PulseContext, with the life that   *)
(* createStream of lib/pulse.js and the native state callback give each of *)
(* its "stream" calls.                                                     *)
(*                                                                         *)
(* When a context is lost, libpulse first calls its state callback         *)
(* (losing) and then, if that created no end of its own, goes through the  *)
(* streams it has listed by then, the newest first, and calls theirs       *)
(* (toTell); what is created from then on is never told (late).  All this  *)
(* is one call of libpulse, and when the application ends the context in a *)
(* listener, it comes inside whatever event is being emitted.              *)
(*                                                                         *)
(* A stream whose constructor throws is listed all the same, and nobody    *)
(* has it to listen to (orphans).  The application listens for the 'error' *)
(* of the streams it has.                                                  *)
(***************************************************************************)
EXTENDS PulseContext

VARIABLES
  life,       \* of each call: "none" or libpulse's state of its stream
  announced,  \* the stream whose 'state' is emitted for "ready", or None
  losing, toTell,
  orphans,
  \* history
  heard,      \* the events each stream has emitted
  late

streams    == <<life, announced, losing, toTell, orphans, heard, late>>
clientVars == <<vars, streams>>

None == 0

Listed == {c \in Calls : life[c] \notin {"none", "failed", "terminated"}}

Unlinking == losing \/ toTell # {}

\* No callback of a stream and no loss is under way.
Undisturbed == announced = None /\ ~Unlinking

ClientInit ==
  /\ Init
  /\ life = [c \in Calls |-> "none"] /\ announced = None
  /\ losing = FALSE /\ toTell = {} /\ orphans = {}
  /\ heard = [c \in Calls |-> {}] /\ late = {}

-------------------------------------------------------------------------------
(* The context's actions, and what they are to its streams *)

\* The values of the property list that the options give.
Values == {"string", "other"}

\* maybe_build_proplist throws at a value that is not a string.
Throws(props) == \E value \in props : value # "string"

\* createStream: the native stream, and its connection at once or with the context.  On a
\* context that has failed, connect throws.
NewStream(props) ==
  LET c == called + 1
  IN  /\ ~Throws(props)
      /\ CreateStream
      /\ life' = [life EXCEPT ![c] = IF operation'[c] = "running" THEN "creating"
                                     ELSE "unconnected"]
      /\ orphans' = IF operation'[c] = "refused" THEN orphans \cup {c} ELSE orphans
      /\ late' = IF Lost /\ ~losing THEN late \cup {c} ELSE late
      /\ UNCHANGED <<announced, losing, toTell, heard>>

\* New goes on after the exception of maybe_build_proplist and makes a stream without
\* properties; createStream goes no further.
RefusedStream(props) ==
  LET c == called + 1
  IN  /\ Throws(props)
      /\ ~crashed /\ called < MaxCalls
      /\ called' = c
      /\ kind' = [kind EXCEPT ![c] = "stream"]
      /\ life' = [life EXCEPT ![c] = "unconnected"]
      /\ orphans' = orphans \cup {c}
      /\ late' = IF Lost /\ ~losing THEN late \cup {c} ELSE late
      /\ UNCHANGED <<connection, operation, queues, promise, crashed, deferred, issued, answer,
                     announced, losing, toTell, heard>>

\* A listener of the context's 'connection': that of createStream connects its stream.
DeferredConnect ==
  /\ ~Unlinking
  /\ EmitConnection
  /\ life' = [c \in Calls |-> IF life[c] = "unconnected" /\ operation'[c] = "running"
                              THEN "creating" ELSE life[c]]
  /\ UNCHANGED <<announced, losing, toTell, orphans, heard, late>>

\* The state callback of a context that is lost is called before those of its streams.
Lose ==
  /\ \/ End \/ ConnectFails
     \/ Undisturbed /\ StateFailed
  /\ losing' = TRUE
  /\ UNCHANGED <<life, announced, toTell, orphans, heard, late>>

\* The rest of the handlers of "ready" and of a failed connect(), and of those of a loss.
GoOn == ~Unlinking /\ ~crashed /\ (ConnectThrows \/ Connection)
LossGoesOn == Failure \/ Closed

\* Microtasks may run between the callbacks of a loss, when no other is under way.
ContextStep ==
  /\ \/ CallMethod("info") \/ CallMethod("operation") \/ Connect
     \/ announced = None /\ Continue
     \/ GoOn \/ LossGoesOn
     \/ Undisturbed /\ (Advance \/ StateReady \/ Replies)
  /\ UNCHANGED streams

-------------------------------------------------------------------------------
(* The streams' own *)

\* Mutant: a stream says nothing of its failure.
EmitNoError(c, state) ==
  heard' = [heard EXCEPT ![c] = @ \cup (IF state = "ready" THEN {"connection"}
                                        ELSE IF state = "terminated" THEN {"close"} ELSE {})]

\* What createStream's handler emits after 'state', for a state that has an event.
Emit(c, state) ==
  heard' = [heard EXCEPT ![c] = @ \cup {CASE state = "ready"      -> "connection"
                                          [] state = "failed"     -> "error"
                                          [] state = "terminated" -> "close"}]

\* The state callback for a stream that is gone.
Gone(c, state) ==
  /\ life' = [life EXCEPT ![c] = state]
  /\ Emit(c, state)
  /\ UNCHANGED vars

\* That of a stream nobody has: 'error' without a listener is an exception.  The native
\* object of a stream that was refused may be gone, and its memory is used.
GoneUnheard(c, state) ==
  /\ life' = [life EXCEPT ![c] = state]
  /\ crashed' \in IF operation[c] = "none" THEN BOOLEAN ELSE {state = "failed"}
  /\ UNCHANGED <<connection, operation, queues, promise, calls, issued, answer, heard>>

\* Mutant: streams that are over are told again.
UnlinkAll ==
  /\ losing /\ announcing \subseteq {"ready"} /\ ~crashed
  /\ losing' = FALSE
  /\ toTell' = {c \in Calls : life[c] # "none"}
  /\ UNCHANGED <<vars, life, announced, orphans, heard, late>>

\* The state callback of the context has returned.
Unlink ==
  /\ losing /\ announcing \subseteq {"ready"} /\ ~crashed
  /\ losing' = FALSE
  /\ toTell' = Listed
  /\ UNCHANGED <<vars, life, announced, orphans, heard, late>>

\* The newest stream that has not been told.
Tell ==
  \E c \in toTell :
    /\ \A d \in toTell : d <= c
    /\ ~crashed
    /\ toTell' = toTell \ {c}
    /\ \/ c \notin orphans /\ Gone(c, pa_state)
       \/ c \in orphans /\ GoneUnheard(c, pa_state)
    /\ UNCHANGED <<announced, losing, orphans, late>>

\* The server has created the stream: 'state' is emitted ...
StreamReady(c) ==
  /\ AtLoop /\ Undisturbed
  /\ life[c] = "creating"
  /\ life' = [life EXCEPT ![c] = "ready"]
  /\ announced' = c
  /\ UNCHANGED <<vars, losing, toTell, orphans, heard, late>>

\* ... and 'connection', whatever listeners of 'state' did.
StreamConnection ==
  /\ announced # None /\ ~Unlinking /\ ~crashed
  /\ Emit(announced, "ready")
  /\ announced' = None
  /\ UNCHANGED <<vars, life, losing, toTell, orphans, late>>

\* The server does not create the stream, or kills it ...
StreamFailed(c) ==
  /\ AtLoop /\ Undisturbed
  /\ life[c] \in {"creating", "ready"}
  /\ Gone(c, "failed")
  /\ UNCHANGED <<announced, losing, toTell, orphans, late>>

\* ... or has closed it, which 'finish' or 'end' asked for when it was up.
StreamClosed(c) ==
  /\ AtLoop /\ Undisturbed
  /\ life[c] = "ready"
  /\ Gone(c, "terminated")
  /\ UNCHANGED <<announced, losing, toTell, orphans, late>>

-------------------------------------------------------------------------------
StreamStep ==
  \/ Unlink \/ Tell \/ StreamConnection
  \/ \E c \in Calls : StreamReady(c) \/ StreamFailed(c) \/ StreamClosed(c)

ClientNext ==
  \/ \E props \in SUBSET Values : NewStream(props) \/ RefusedStream(props)
  \/ DeferredConnect \/ Lose \/ ContextStep \/ StreamStep

ClientSpec == ClientInit /\ [][ClientNext]_clientVars

\* As in PulseContext; libpulse goes on when a callback has returned, and the server answers.
ClientFairness ==
  /\ WF_clientVars(DeferredConnect)
  /\ WF_clientVars(Connect /\ UNCHANGED streams)
  /\ WF_clientVars(GoOn /\ UNCHANGED streams) /\ WF_clientVars(LossGoesOn /\ UNCHANGED streams)
  /\ WF_clientVars(Undisturbed /\ (Advance \/ StateReady) /\ UNCHANGED streams)
  /\ WF_clientVars(announced = None /\ Continue /\ UNCHANGED streams)
  /\ WF_clientVars(Unlink) /\ WF_clientVars(Tell) /\ WF_clientVars(StreamConnection)
  /\ \A c \in Calls : WF_clientVars(StreamReady(c) \/ StreamFailed(c))

FairClientSpec == ClientSpec /\ ClientFairness

-------------------------------------------------------------------------------
(* Properties *)

\* Every variable has its type, and a stream has a life exactly if it was created.
ClientTypeOK ==
  /\ TypeOK
  /\ life \in [Calls -> {"none", "unconnected", "creating", "ready", "failed", "terminated"}]
  /\ \A c \in Calls : life[c] # "none" <=> kind[c] = "stream"
  /\ announced \in Calls \cup {None}
  /\ losing \in BOOLEAN
  /\ toTell \subseteq Listed
  /\ orphans \subseteq 1 .. called
  /\ heard \in [Calls -> SUBSET {"connection", "error", "close"}]
  /\ late \subseteq 1 .. called

\* When the loss of a context has been dealt with, each of its streams has emitted 'error' or
\* 'close', wherever it was: waiting for the context, being created, in the midst of its own
\* 'state' event, or closed before.  Writers that wait in waitConnection or for a `done`
\* depend on it.  Exempt are streams created when it was too late and streams whose
\* constructor has thrown.
ToldOfLoss ==
  Lost /\ ~Unlinking /\ ~crashed =>
    \A c \in Calls \ (late \cup orphans) : kind[c] = "stream" => heard[c] \cap {"error", "close"} # {}

\* A stream comes up or is told that it will not, whether it was created before the
\* connection, inside the 'connection' event or after it, and whatever the application ends
\* in between; but for a process that dies.
StreamsSettle ==
  \A c \in Calls : life[c] # "none" ~> heard[c] # {} \/ c \in late \cup orphans \/ crashed

===============================================================================
