----------------------------- MODULE ClientProofs -----------------------------
(* Proofs about Client, for every number of calls. *)
EXTENDS Client, PulseContextProofs

-------------------------------------------------------------------------------
(* The invariant *)

Lives  == {"none", "unconnected", "creating", "ready", "failed", "terminated"}
Events == {"connection", "error", "close"}

Over(c) == life[c] \in {"failed", "terminated"}
Told(c) == heard[c] \cap {"error", "close"} # {}

\* Of a call that has not been made there is nothing.
UnmadeInv == \A c \in Calls : c > called => kind[c] = "none" /\ operation[c] = "none"

\* Streams are told of a loss when there is one.
LossInv == Unlinking => Lost

\* ToldOfLoss while streams are being told: one that is over has emitted its event, and
\* after the callback of a context that is lost, one that is not is going to be told.
ToldInv ==
  \A c \in Calls \ (late \cup orphans) : kind[c] = "stream" =>
    /\ Over(c) => Told(c)
    /\ Lost /\ ~losing => Over(c) \/ c \in toTell

\* The inductive invariant.
ClientInv == ClientTypeOK /\ UnmadeInv /\ LossInv /\ ToldInv

\* The invariant holds at first, when there is no stream.
LEMMA ClientInitInv == ClientInit => ClientInv
<1> SUFFICES ASSUME ClientInit PROVE ClientInv
  OBVIOUS
<1>1. Init /\ TypeOK
  BY TypeInit DEF ClientInit
<1>2. ClientTypeOK
  <2>1. \A c \in Calls : life[c] = "none" /\ kind[c] = "none"
    BY DEF ClientInit, Init
  <2>2. toTell \subseteq Listed /\ orphans \subseteq 1 .. called /\ late \subseteq 1 .. called
    BY DEF ClientInit
  <2>3. /\ life \in [Calls -> Lives] /\ heard \in [Calls -> SUBSET Events]
        /\ announced \in Calls \cup {None} /\ losing \in BOOLEAN
    BY DEF ClientInit, Lives
  <2> QED
    BY <1>1, <2>1, <2>2, <2>3 DEF ClientTypeOK, Lives, Events
<1>3. UnmadeInv /\ LossInv
  BY DEF ClientInit, Init, UnmadeInv, LossInv, Unlinking
<1>4. ToldInv
  BY DEF ClientInit, Init, ToldInv
<1> QED
  BY <1>2, <1>3, <1>4 DEF ClientInv

-------------------------------------------------------------------------------
(* What the context's actions are to its streams *)

\* A stream's event goes to the stream; that of a stream that is gone tells of it.
LEMMA EmitEffect ==
  ASSUME ClientTypeOK, NEW c \in Calls, NEW state \in {"ready", "failed", "terminated"},
         Emit(c, state)
  PROVE  /\ heard' \in [Calls -> SUBSET Events]
         /\ \A d \in Calls : heard[d] \subseteq heard'[d]
         /\ state # "ready" => heard'[c] \cap {"error", "close"} # {}
<1> DEFINE event == CASE state = "ready"      -> "connection"
                      [] state = "failed"     -> "error"
                      [] state = "terminated" -> "close"
<1>1. event \in Events /\ (state # "ready" => event \in {"error", "close"})
  BY DEF Events
<1>2. heard' = [heard EXCEPT ![c] = @ \cup {event}] /\ heard \in [Calls -> SUBSET Events]
  BY DEF Emit, ClientTypeOK, Events
<1> HIDE DEF event
<1> QED
  BY <1>1, <1>2

\* All steps of the client but two are steps of its context, or none.
LEMMA ContextSteps ==
  ASSUME ClientTypeOK, ClientNext
  PROVE  \/ Next
         \/ UNCHANGED vars
         \/ \E props \in SUBSET Values : RefusedStream(props)
         \/ \E c \in Calls : c \in toTell /\ GoneUnheard(c, pa_state)
<1>1. CASE \E props \in SUBSET Values : NewStream(props) \/ RefusedStream(props)
  BY <1>1 DEF NewStream, Next, Application
<1>2. CASE DeferredConnect \/ Lose
  BY <1>2 DEF DeferredConnect, Lose, Next, Application, Startup
<1>3. CASE ContextStep
  BY <1>3 DEF ContextStep, GoOn, LossGoesOn, Next, Application, Startup
<1>4. CASE Tell
  BY <1>4 DEF Tell, ClientTypeOK, Listed, Gone
<1>5. CASE Unlink \/ StreamConnection \/ \E c \in Calls : StreamReady(c) \/ StreamFailed(c) \/ StreamClosed(c)
  BY <1>5 DEF Unlink, StreamConnection, StreamReady, StreamFailed, StreamClosed, Gone
<1> QED
  BY <1>1, <1>2, <1>3, <1>4, <1>5 DEF ClientNext, StreamStep

\* A stream whose constructor throws is a call like any other.
LEMMA RefusedStreamType ==
  ASSUME TypeOK, NEW props, RefusedStream(props)
  PROVE  TypeOK'
<1>1. called < MaxCalls /\ called' = called + 1 /\ called' \in 0 .. MaxCalls
  BY NewCallFacts DEF RefusedStream
<1>2. kind' \in [Calls -> Kinds \cup {"none"}]
  BY DEF RefusedStream, TypeOK, Kinds
<1>3. {waiting', emitting', microtasks', issued'} \subseteq Seq(1 .. called')
  BY <1>1, NewCallFacts DEF RefusedStream, queues
<1>4. deferred' \subseteq 1 .. called'
  BY <1>1, NewCallFacts DEF RefusedStream, TypeOK
<1>5. UNCHANGED <<connection, operation, promise, crashed, answer>>
  BY DEF RefusedStream
<1> QED
  BY <1>1, <1>2, <1>3, <1>4, <1>5 DEF TypeOK, connection

\* PulseContext's types are kept.
LEMMA ContextTypeStep == ClientTypeOK /\ [ClientNext]_clientVars => TypeOK'
<1> SUFFICES ASSUME ClientTypeOK, [ClientNext]_clientVars PROVE TypeOK'
  OBVIOUS
<1>1. TypeOK
  BY DEF ClientTypeOK
<1>2. CASE Next \/ UNCHANGED vars
  BY <1>1, <1>2, TypeStep
<1>3. CASE \E props \in SUBSET Values : RefusedStream(props)
  BY <1>1, <1>3, RefusedStreamType
<1>4. ASSUME NEW c \in Calls, GoneUnheard(c, pa_state) PROVE TypeOK'
  <2>1. /\ UNCHANGED <<connection, operation, queues, promise, calls, issued, answer>>
        /\ crashed' \in BOOLEAN
    BY <1>4 DEF GoneUnheard
  <2> QED
    BY <1>1, <2>1, TypeStays DEF connection, TypeOK, Operations, Promises
<1> QED
  BY <1>2, <1>3, <1>4, ContextSteps DEF clientVars

\* A context is lost by Lose and by nothing else, once and for all.
LEMMA LossByLose ==
  ASSUME ClientTypeOK, [ClientNext]_clientVars
  PROVE  (Lose => Lost' /\ ~Lost) /\ (~Lose => (Lost' <=> Lost))
<1>1. CASE Lose
  BY <1>1 DEF Lose, End, ConnectFails, StateFailed, Fail, Good, Lost
<1>2. CASE UNCHANGED pa_state
  BY <1>1, <1>2 DEF Lost
<1>3. CASE ContextStep
  <2>1. CASE CallMethod("info") \/ CallMethod("operation") \/ Continue \/ Replies
    BY <1>2, <2>1 DEF CallMethod, Continue, Replies, Reply, connection
  <2>2. CASE Connect \/ GoOn \/ LossGoesOn \/ Advance \/ StateReady
    BY <1>1, <2>2 DEF Connect, GoOn, ConnectThrows, Connection, LossGoesOn, Failure, Closed,
       Advance, StateReady, Lost
  <2> QED
    BY <1>3, <2>1, <2>2 DEF ContextStep
<1>4. CASE \E props \in SUBSET Values : NewStream(props) \/ RefusedStream(props)
  BY <1>2, <1>4 DEF NewStream, CreateStream, RefusedStream, connection
<1>5. CASE DeferredConnect
  BY <1>2, <1>5 DEF DeferredConnect, EmitConnection, connection
<1>6. CASE StreamStep
  BY <1>2, <1>6 DEF StreamStep, Unlink, Tell, StreamConnection, StreamReady, StreamFailed, StreamClosed,
     Gone, GoneUnheard, vars, connection
<1>7. CASE UNCHANGED clientVars
  BY <1>2, <1>7 DEF clientVars, vars, connection
<1> QED
  BY <1>1, <1>3, <1>4, <1>5, <1>6, <1>7 DEF ClientNext

\* Nothing is known of calls that have not been made.
LEMMA UnmadeStep == ClientInv /\ [ClientNext]_clientVars => UnmadeInv'
<1> SUFFICES ASSUME ClientInv, [ClientNext]_clientVars PROVE UnmadeInv'
  OBVIOUS
<1>1. /\ ClientTypeOK /\ TypeOK /\ UnmadeInv
      /\ operation \in [Calls -> Operations] /\ kind \in [Calls -> Kinds \cup {"none"}]
      /\ called \in Nat /\ \A c \in Calls : c \in Nat
  <2>1. ClientTypeOK /\ TypeOK /\ UnmadeInv
    BY DEF ClientInv, ClientTypeOK
  <2>2. operation \in [Calls -> Operations] /\ kind \in [Calls -> Kinds \cup {"none"}]
    BY <2>1 DEF TypeOK, Operations
  <2>3. called \in Nat /\ \A c \in Calls : c \in Nat
    BY <2>1, ContextAssumption DEF TypeOK, Calls
  <2> QED
    BY <2>1, <2>2, <2>3
<1>2. ASSUME called' = called, kind' = kind,
             \A c \in Calls : operation[c] = "none" /\ c > called => operation'[c] = "none"
      PROVE  UnmadeInv'
  BY <1>1, <1>2 DEF UnmadeInv
<1>3. ASSUME called' = called + 1, NEW k \in Kinds, kind' = [kind EXCEPT ![called + 1] = k],
             operation' = operation \/ Issue(called + 1)
      PROVE  UnmadeInv'
  <2> SUFFICES ASSUME NEW c \in Calls, c > called + 1
               PROVE  kind'[c] = "none" /\ operation'[c] = "none"
    BY <1>3 DEF UnmadeInv
  <2>1. c > called /\ c # called + 1
    BY <1>1
  <2>2. kind'[c] = kind[c] /\ operation'[c] = operation[c]
    BY <1>1, <1>3, <2>1 DEF Issue
  <2> QED
    BY <1>1, <2>1, <2>2 DEF UnmadeInv
<1>4. CASE Next
  <2>1. ASSUME NEW k \in Kinds, CallMethod(k) PROVE UnmadeInv'
    BY <1>3, <2>1 DEF CallMethod
  <2>2. CASE CreateStream
    BY <1>3, <2>2 DEF CreateStream, Kinds
  <2>3. ASSUME NEW s \in {emitting, microtasks}, s # <<>>,
               operation' = operation \/ Issue(Head(s)), UNCHANGED calls
        PROVE  UnmadeInv'
    <3>1. Head(s) \in 1 .. called
      BY <1>1, <2>3, HeadFacts
    <3>2. \A c \in Calls : c > called => c # Head(s)
      BY <1>1, <3>1
    <3> QED
      BY <1>1, <1>2, <2>3, <3>2 DEF Issue, calls
  <2>4. CASE EmitConnection \/ Continue
    BY <2>3, <2>4 DEF EmitConnection, Continue
  <2>5. ASSUME UNCHANGED calls, operation' = operation \/ operation' = Cancelled PROVE UnmadeInv'
    BY <1>2, <2>5 DEF Cancelled, calls
  <2>6. CASE \/ End \/ Startup \/ ConnectThrows \/ Advance \/ StateReady \/ Connection
             \/ StateFailed \/ Failure \/ Closed
    BY <2>5, <2>6 DEF End, Startup, Connect, ConnectFails, ConnectThrows, Advance, StateReady,
       Connection, StateFailed, Failure, Closed
  <2>7. ASSUME NEW c \in Calls, NEW verdict, Reply(c, verdict) PROVE UnmadeInv'
    <3>1. operation[c] = "running" /\ operation' = [operation EXCEPT ![c] = "done"]
      BY <2>7 DEF Reply
    <3>2. \A d \in Calls : operation[d] = "none" => operation'[d] = "none"
      BY <1>1, <3>1
    <3> QED
      BY <1>2, <2>7, <3>2 DEF Reply, calls
  <2> QED
    BY <1>4, <2>1, <2>2, <2>4, <2>6, <2>7 DEF Next, Application, Replies, Kinds
<1>5. CASE UNCHANGED vars
  BY <1>2, <1>5 DEF vars, calls
<1>6. CASE \E props \in SUBSET Values : RefusedStream(props)
  BY <1>3, <1>6 DEF RefusedStream, Kinds
<1>7. CASE \E c \in Calls : GoneUnheard(c, pa_state)
  BY <1>2, <1>7 DEF GoneUnheard, calls
<1> QED
  BY <1>1, <1>4, <1>5, <1>6, <1>7, ContextSteps DEF clientVars

\* Only a loss has streams to tell.
LEMMA LossStep == ClientInv /\ [ClientNext]_clientVars => LossInv'
<1> SUFFICES ASSUME ClientInv, [ClientNext]_clientVars PROVE LossInv'
  OBVIOUS
<1>1. ClientTypeOK /\ LossInv
  BY DEF ClientInv
<1>2. CASE Lose
  BY <1>1, <1>2, LossByLose DEF LossInv
<1>3. CASE ~Lose
  <2>1. Lost' <=> Lost
    BY <1>1, <1>3, LossByLose
  <2>2. Unlinking' => Unlinking
    <3>1. CASE \E props \in SUBSET Values : NewStream(props) \/ RefusedStream(props)
      BY <3>1 DEF NewStream, RefusedStream, Unlinking
    <3>2. CASE DeferredConnect
      BY <3>2 DEF DeferredConnect, Unlinking
    <3>3. CASE ContextStep
      BY <3>3 DEF ContextStep, streams, Unlinking
    <3>4. CASE StreamStep
      BY <3>4 DEF StreamStep, Unlink, Tell, StreamConnection, StreamReady, StreamFailed, StreamClosed,
         Unlinking
    <3>5. CASE UNCHANGED clientVars
      BY <3>5 DEF clientVars, streams, Unlinking
    <3> QED
      BY <1>3, <3>1, <3>2, <3>3, <3>4, <3>5 DEF ClientNext
  <2> QED
    BY <1>1, <2>1, <2>2 DEF LossInv
<1> QED
  BY <1>2, <1>3

-------------------------------------------------------------------------------
(* Types *)

\* What ClientTypeOK says besides TypeOK, of a step that leaves most of it alone.
LEMMA StreamTypes ==
  ASSUME ClientTypeOK, TypeOK', called' = called, kind' = kind,
         life' \in [Calls -> Lives], \A c \in Calls : life'[c] = "none" <=> life[c] = "none",
         announced' \in Calls \cup {None}, losing' \in BOOLEAN, toTell' \subseteq Listed',
         UNCHANGED <<orphans, late>>, heard' \in [Calls -> SUBSET Events]
  PROVE  ClientTypeOK'
BY DEF ClientTypeOK, Lives, Events

\* A call that is made gets a life if it is a stream.
LEMMA NewLife ==
  ASSUME ClientInv, TypeOK', called < MaxCalls, called' = called + 1,
         NEW k \in Kinds, kind' = [kind EXCEPT ![called + 1] = k],
         NEW l \in Lives \ {"failed", "terminated"},
         l = "none" <=> k # "stream", life' = [life EXCEPT ![called + 1] = l],
         orphans' \subseteq orphans \cup {called + 1}, late' \subseteq late \cup {called + 1},
         UNCHANGED <<announced, losing, toTell, heard>>
  PROVE  ClientTypeOK'
<1>1. TypeOK /\ ClientTypeOK
  BY DEF ClientInv, ClientTypeOK
<1>2. /\ called + 1 \in Calls /\ 1 .. called \subseteq 1 .. called + 1 /\ called + 1 \in 1 .. called + 1
      /\ called + 1 > called
  BY <1>1, NewCallFacts
<1>3. kind[called + 1] = "none" /\ life[called + 1] = "none"
  BY <1>1, <1>2 DEF ClientInv, UnmadeInv, ClientTypeOK
<1>4. life \in [Calls -> Lives] /\ kind \in [Calls -> Kinds \cup {"none"}]
  BY <1>1 DEF ClientTypeOK, TypeOK, Lives
<1>5. life' \in [Calls -> Lives] /\ \A c \in Calls : life'[c] # "none" <=> kind'[c] = "stream"
  BY <1>1, <1>2, <1>4 DEF ClientTypeOK
<1>6. toTell' \subseteq Listed'
  BY <1>1, <1>2, <1>3, <1>4 DEF ClientTypeOK, Listed
<1>7. orphans' \subseteq 1 .. called' /\ late' \subseteq 1 .. called'
  BY <1>1, <1>2 DEF ClientTypeOK
<1> QED
  BY <1>1, <1>5, <1>6, <1>7 DEF ClientTypeOK, Lives

\* A stream that is told leaves the list.
LEMMA GoneTypes ==
  ASSUME ClientTypeOK, NEW c \in Calls, NEW state \in {"failed", "terminated"}, life[c] # "none",
         life' = [life EXCEPT ![c] = state], toTell' \subseteq toTell \ {c}
  PROVE  /\ life' \in [Calls -> Lives]
         /\ \A d \in Calls : life'[d] = "none" <=> life[d] = "none"
         /\ toTell' \subseteq Listed'
<1>1. life \in [Calls -> Lives] /\ toTell \subseteq Listed
  BY DEF ClientTypeOK, Lives
<1>2. life' \in [Calls -> Lives] /\ \A d \in Calls : life'[d] = "none" <=> life[d] = "none"
  BY <1>1 DEF Lives
<1>3. toTell' \subseteq Listed'
  BY <1>1 DEF Listed
<1> QED
  BY <1>2, <1>3

\* Every step keeps the types.
LEMMA ClientTypeStep == ClientInv /\ [ClientNext]_clientVars => ClientTypeOK'
<1> SUFFICES ASSUME ClientInv, [ClientNext]_clientVars PROVE ClientTypeOK'
  OBVIOUS
<1>1. /\ ClientTypeOK /\ TypeOK /\ TypeOK' /\ LossInv
      /\ life \in [Calls -> Lives] /\ heard \in [Calls -> SUBSET Events]
  BY ContextTypeStep DEF ClientInv, ClientTypeOK, Lives, Events
<1>2. ASSUME UNCHANGED <<called, kind, life, announced, toTell, orphans, heard, late>>,
             losing' \in BOOLEAN
      PROVE  ClientTypeOK'
  BY <1>1, <1>2, StreamTypes DEF ClientTypeOK, Listed
<1>3. ASSUME NEW props \in SUBSET Values, NewStream(props) PROVE ClientTypeOK'
  <2>1. /\ called < MaxCalls /\ called' = called + 1
        /\ kind' = [kind EXCEPT ![called + 1] = "stream"]
    BY <1>3 DEF NewStream, CreateStream
  <2>2. PICK l \in {"creating", "unconnected"} : life' = [life EXCEPT ![called + 1] = l]
    BY <1>3 DEF NewStream
  <2>3. /\ orphans' \subseteq orphans \cup {called + 1} /\ late' \subseteq late \cup {called + 1}
        /\ UNCHANGED <<announced, losing, toTell, heard>>
    BY <1>3 DEF NewStream
  <2> QED
    BY <1>1, <2>1, <2>2, <2>3, NewLife DEF Kinds, Lives
<1>4. ASSUME NEW props \in SUBSET Values, RefusedStream(props) PROVE ClientTypeOK'
  <2>1. /\ called < MaxCalls /\ called' = called + 1
        /\ kind' = [kind EXCEPT ![called + 1] = "stream"]
        /\ life' = [life EXCEPT ![called + 1] = "unconnected"]
    BY <1>4 DEF RefusedStream
  <2>2. /\ orphans' \subseteq orphans \cup {called + 1} /\ late' \subseteq late \cup {called + 1}
        /\ UNCHANGED <<announced, losing, toTell, heard>>
    BY <1>4 DEF RefusedStream
  <2> QED
    BY <1>1, <2>1, <2>2, NewLife DEF Kinds, Lives
<1>5. CASE DeferredConnect
  <2>1. called' = called /\ kind' = kind
    BY <1>5 DEF DeferredConnect, EmitConnection, calls
  <2>2. life' \in [Calls -> Lives] /\ \A c \in Calls : life'[c] = "none" <=> life[c] = "none"
    BY <1>1, <1>5 DEF DeferredConnect, Lives
  <2>3. toTell = {} /\ UNCHANGED <<announced, losing, toTell, orphans, heard, late>>
    BY <1>5 DEF DeferredConnect, Unlinking
  <2> QED
    BY <1>1, <2>1, <2>2, <2>3, StreamTypes DEF ClientTypeOK
<1>6. CASE Lose
  <2>1. called' = called /\ kind' = kind
    BY <1>6 DEF Lose, End, ConnectFails, StateFailed, calls
  <2> QED
    BY <1>2, <1>6, <2>1 DEF Lose
<1>7. CASE ContextStep
  <2>1. UNCHANGED <<life, announced, losing, toTell, orphans, heard, late>>
    BY <1>7 DEF ContextStep, streams
  <2>2. ASSUME NEW k \in {"info", "operation"}, CallMethod(k) PROVE ClientTypeOK'
    <3>1. /\ called < MaxCalls /\ called' = called + 1
          /\ kind' = [kind EXCEPT ![called + 1] = k]
      BY <2>2 DEF CallMethod
    <3>2. life[called + 1] = "none"
      <4>1. called + 1 \in Calls /\ called + 1 > called
        BY <1>1, <3>1, NewCallFacts
      <4> QED
        BY <1>1, <4>1 DEF ClientInv, UnmadeInv, ClientTypeOK
    <3>3. life' = [life EXCEPT ![called + 1] = "none"]
      BY <1>1, <2>1, <3>2
    <3> QED
      BY <1>1, <2>1, <3>1, <3>3, NewLife DEF Kinds, Lives
  <2>3. CASE Connect \/ Continue \/ GoOn \/ LossGoesOn \/ Advance \/ StateReady \/ Replies
    <3>1. called' = called /\ kind' = kind
      BY <2>3 DEF Connect, Continue, GoOn, ConnectThrows, Connection, LossGoesOn, Failure, Closed,
         Advance, StateReady, Replies, Reply, calls
    <3> QED
      BY <1>1, <1>2, <2>1, <3>1 DEF ClientTypeOK
  <2> QED
    BY <1>7, <2>2, <2>3 DEF ContextStep
<1>8. CASE Unlink
  <2>1. called' = called /\ kind' = kind
    BY <1>8 DEF Unlink, vars, calls
  <2>2. toTell' \subseteq Listed'
    BY <1>8 DEF Unlink, Listed
  <2> QED
    BY <1>1, <1>8, <2>1, <2>2, StreamTypes DEF Unlink, ClientTypeOK
<1>9. CASE Tell
  <2>1. PICK c \in toTell :
             /\ toTell' = toTell \ {c}
             /\ Gone(c, pa_state) \/ GoneUnheard(c, pa_state)
             /\ UNCHANGED <<announced, losing, orphans, late>>
    BY <1>9 DEF Tell
  <2>2. c \in Calls /\ life[c] # "none" /\ pa_state \in {"failed", "terminated"}
    BY <1>1 DEF ClientTypeOK, Listed, LossInv, Unlinking, Lost
  <2>3. life' = [life EXCEPT ![c] = pa_state] /\ called' = called /\ kind' = kind
    BY <2>1 DEF Gone, GoneUnheard, vars, calls
  <2>4. heard' \in [Calls -> SUBSET Events]
    <3>1. CASE Gone(c, pa_state)
      BY <1>1, <2>2, <3>1, EmitEffect DEF Gone
    <3>2. CASE GoneUnheard(c, pa_state)
      BY <1>1, <3>2 DEF GoneUnheard
    <3> QED
      BY <2>1, <3>1, <3>2
  <2>5. /\ life' \in [Calls -> Lives]
        /\ \A d \in Calls : life'[d] = "none" <=> life[d] = "none"
        /\ toTell' \subseteq Listed'
    BY <1>1, <2>1, <2>2, <2>3, GoneTypes
  <2> QED
    BY <1>1, <2>1, <2>3, <2>4, <2>5, StreamTypes DEF ClientTypeOK
<1>10. CASE StreamConnection
  <2>1. announced \in Calls /\ called' = called /\ kind' = kind
    BY <1>1, <1>10 DEF StreamConnection, ClientTypeOK, vars, calls
  <2>2. heard' \in [Calls -> SUBSET Events]
    BY <1>1, <1>10, <2>1, EmitEffect DEF StreamConnection
  <2>3. toTell' \subseteq Listed'
    BY <1>1, <1>10 DEF StreamConnection, ClientTypeOK, Listed
  <2> QED
    BY <1>1, <1>10, <2>1, <2>2, <2>3, StreamTypes DEF StreamConnection, ClientTypeOK
<1>11. ASSUME NEW c \in Calls, StreamReady(c) PROVE ClientTypeOK'
  <2>1. called' = called /\ kind' = kind /\ toTell = {} /\ toTell' = toTell
    BY <1>11 DEF StreamReady, Undisturbed, Unlinking, vars, calls
  <2>2. life' \in [Calls -> Lives] /\ \A d \in Calls : life'[d] = "none" <=> life[d] = "none"
    BY <1>1, <1>11 DEF StreamReady, Lives
  <2> QED
    BY <1>1, <1>11, <2>1, <2>2, StreamTypes DEF StreamReady, ClientTypeOK
<1>12. ASSUME NEW c \in Calls, StreamFailed(c) \/ StreamClosed(c) PROVE ClientTypeOK'
  <2>1. PICK state \in {"failed", "terminated"} : Gone(c, state)
    BY <1>12 DEF StreamFailed, StreamClosed
  <2>2. /\ life[c] # "none" /\ called' = called /\ kind' = kind /\ toTell = {} /\ toTell' = toTell
        /\ UNCHANGED <<announced, losing, orphans, late>>
    BY <1>12 DEF StreamFailed, StreamClosed, Undisturbed, Unlinking, Gone, vars, calls
  <2>3. /\ life' \in [Calls -> Lives]
        /\ \A d \in Calls : life'[d] = "none" <=> life[d] = "none"
        /\ toTell' \subseteq Listed'
    BY <1>1, <2>1, <2>2, GoneTypes DEF Gone
  <2>4. heard' \in [Calls -> SUBSET Events]
    BY <1>1, <2>1, EmitEffect DEF Gone
  <2> QED
    BY <1>1, <2>2, <2>3, <2>4, StreamTypes DEF ClientTypeOK
<1>13. CASE UNCHANGED clientVars
  BY <1>1, <1>2, <1>13 DEF clientVars, vars, calls, streams, ClientTypeOK
<1> QED
  BY <1>3, <1>4, <1>5, <1>6, <1>7, <1>8, <1>9, <1>10, <1>11, <1>12, <1>13 DEF ClientNext, StreamStep

-------------------------------------------------------------------------------
(* What the streams are told *)

\* A step without a loss, in which a stream is over if it was, and is not struck off.
LEMMA ToldKept ==
  ASSUME ToldInv, Lost' <=> Lost, losing' = losing, NEW c \in Calls \ (late' \cup orphans'),
         late \subseteq late', orphans \subseteq orphans',
         kind[c] = "stream", life'[c] = life[c] \/ (~Over(c) /\ ~Over(c)'),
         heard[c] \subseteq heard'[c], c \in toTell => c \in toTell'
  PROVE  /\ Over(c)' => Told(c)'
         /\ Lost' /\ ~losing' => Over(c)' \/ c \in toTell'
<1>1. /\ Over(c) => Told(c)
      /\ Lost /\ ~losing => Over(c) \/ c \in toTell
  BY DEF ToldInv
<1>2. Over(c)' <=> Over(c)
  BY DEF Over
<1>3. Told(c) => Told(c)'
  BY DEF Told
<1> QED
  BY <1>1, <1>2, <1>3

\* A step without a loss, in which a call is made: one that is a stream will be told of a
\* loss, unless nobody has it or it comes too late.
LEMMA ToldNew ==
  ASSUME ClientInv, Lost' <=> Lost, UNCHANGED <<losing, toTell, heard>>,
         called < MaxCalls, NEW e, e = called + 1, NEW k \in Kinds, kind' = [kind EXCEPT ![e] = k],
         NEW l \in Lives \ {"failed", "terminated"}, life' = [life EXCEPT ![e] = l],
         late \subseteq late', orphans \subseteq orphans',
         k = "stream" /\ e \notin orphans' /\ Lost /\ ~losing => e \in late'
  PROVE  ToldInv'
<1>1. /\ TypeOK /\ ToldInv /\ e \in Calls
      /\ life \in [Calls -> Lives] /\ kind \in [Calls -> Kinds \cup {"none"}]
  BY NewCallFacts DEF ClientInv, ClientTypeOK, TypeOK, Lives
<1> SUFFICES ASSUME NEW c \in Calls \ (late' \cup orphans'), kind'[c] = "stream"
             PROVE  /\ Over(c)' => Told(c)'
                    /\ Lost' /\ ~losing' => Over(c)' \/ c \in toTell'
  BY DEF ToldInv
<1>2. CASE c = e
  <2>1. kind'[e] = k /\ life'[e] = l
    BY <1>1
  <2>2. ~Over(c)'
    BY <1>2, <2>1 DEF Over
  <2>3. ~(Lost' /\ ~losing')
    BY <1>2, <2>1
  <2> QED
    BY <2>2, <2>3
<1>3. CASE c # e
  <2>1. kind'[c] = kind[c] /\ life'[c] = life[c]
    BY <1>1, <1>3
  <2> QED
    BY <1>1, <2>1, ToldKept
<1> QED
  BY <1>2, <1>3

\* A stream that is gone has been told, if anybody has it.
LEMMA ToldGone ==
  ASSUME ClientInv, Lost' <=> Lost, UNCHANGED <<kind, losing, orphans, late>>,
         NEW g \in Calls, NEW state \in {"failed", "terminated"}, life' = [life EXCEPT ![g] = state],
         Emit(g, state) \/ (g \in orphans /\ UNCHANGED heard), toTell \ {g} \subseteq toTell'
  PROVE  ToldInv'
<1>1. ClientTypeOK /\ ToldInv /\ life \in [Calls -> Lives] /\ heard \in [Calls -> SUBSET Events]
  BY DEF ClientInv, ClientTypeOK, Lives, Events
<1> SUFFICES ASSUME NEW c \in Calls \ (late' \cup orphans'), kind'[c] = "stream"
             PROVE  /\ Over(c)' => Told(c)'
                    /\ Lost' /\ ~losing' => Over(c)' \/ c \in toTell'
  BY DEF ToldInv
<1>2. CASE c = g
  <2>1. Over(c)'
    BY <1>1, <1>2 DEF Over
  <2>2. Told(c)'
    BY <1>1, <1>2, EmitEffect DEF Told
  <2> QED
    BY <2>1, <2>2
<1>3. CASE c # g
  <2>1. life'[c] = life[c]
    BY <1>1, <1>3
  <2>2. heard[c] \subseteq heard'[c]
    BY <1>1, EmitEffect
  <2> QED
    BY <1>1, <1>3, <2>1, <2>2, ToldKept
<1> QED
  BY <1>2, <1>3

\* Every step keeps to it.
LEMMA ToldStep == ClientInv /\ [ClientNext]_clientVars => ToldInv'
<1> SUFFICES ASSUME ClientInv, [ClientNext]_clientVars PROVE ToldInv'
  OBVIOUS
<1>1. /\ ClientTypeOK /\ TypeOK /\ LossInv /\ ToldInv
      /\ life \in [Calls -> Lives] /\ heard \in [Calls -> SUBSET Events]
      /\ kind \in [Calls -> Kinds \cup {"none"}]
  BY DEF ClientInv, ClientTypeOK, TypeOK, Lives, Events
<1>2. ~Lose => (Lost' <=> Lost)
  BY <1>1, LossByLose
<1>3. ASSUME ~Lose, UNCHANGED <<kind, losing, orphans, late>>, toTell \subseteq toTell',
             \A c \in Calls : /\ life'[c] = life[c] \/ (~Over(c) /\ ~Over(c)')
                              /\ heard[c] \subseteq heard'[c]
      PROVE  ToldInv'
  <2> SUFFICES ASSUME NEW c \in Calls \ (late' \cup orphans'), kind'[c] = "stream"
               PROVE  /\ Over(c)' => Told(c)'
                      /\ Lost' /\ ~losing' => Over(c)' \/ c \in toTell'
    BY DEF ToldInv
  <2> QED
    BY <1>1, <1>2, <1>3, ToldKept
<1>4. CASE Lose
  <2>1. kind' = kind
    BY <1>4 DEF Lose, End, ConnectFails, StateFailed, calls
  <2> QED
    BY <1>1, <1>4, <2>1 DEF Lose, ToldInv, Over, Told
<1>5. ASSUME ~Lose, NEW props \in SUBSET Values, NewStream(props) PROVE ToldInv'
  <2>1. called < MaxCalls /\ kind' = [kind EXCEPT ![called + 1] = "stream"]
    BY <1>5 DEF NewStream, CreateStream
  <2>2. PICK l \in {"creating", "unconnected"} : life' = [life EXCEPT ![called + 1] = l]
    BY <1>5 DEF NewStream
  <2>3. /\ late \subseteq late' /\ orphans \subseteq orphans'
        /\ Lost /\ ~losing => called + 1 \in late'
        /\ UNCHANGED <<losing, toTell, heard>>
    BY <1>5 DEF NewStream
  <2> QED
    BY <1>2, <1>5, <2>1, <2>2, <2>3, ToldNew DEF Kinds, Lives
<1>6. ASSUME ~Lose, NEW props \in SUBSET Values, RefusedStream(props) PROVE ToldInv'
  <2>1. /\ called < MaxCalls /\ kind' = [kind EXCEPT ![called + 1] = "stream"]
        /\ life' = [life EXCEPT ![called + 1] = "unconnected"]
        /\ late \subseteq late' /\ orphans \subseteq orphans' /\ called + 1 \in orphans'
        /\ UNCHANGED <<losing, toTell, heard>>
    BY <1>6 DEF RefusedStream
  <2> QED
    BY <1>2, <1>6, <2>1, ToldNew DEF Kinds, Lives
<1>7. CASE DeferredConnect /\ ~Lose
  <2>1. UNCHANGED <<kind, losing, toTell, orphans, heard, late>>
    BY <1>7 DEF DeferredConnect, EmitConnection, calls
  <2>2. \A c \in Calls : life'[c] = life[c] \/ (~Over(c) /\ ~Over(c)')
    BY <1>7 DEF DeferredConnect, Over
  <2> QED
    BY <1>3, <1>7, <2>1, <2>2
<1>8. CASE ContextStep /\ ~Lose
  <2>1. UNCHANGED streams
    BY <1>8 DEF ContextStep
  <2>2. ASSUME NEW k \in {"info", "operation"}, CallMethod(k) PROVE ToldInv'
    <3>1. called < MaxCalls /\ kind' = [kind EXCEPT ![called + 1] = k]
      BY <2>2 DEF CallMethod
    <3>2. life[called + 1] = "none"
      <4>1. called + 1 \in Calls /\ called + 1 > called
        BY <1>1, <3>1, NewCallFacts
      <4> QED
        BY <1>1, <4>1 DEF ClientInv, UnmadeInv, ClientTypeOK
    <3>3. life' = [life EXCEPT ![called + 1] = "none"]
      BY <1>1, <2>1, <3>2 DEF streams
    <3> QED
      BY <1>2, <1>8, <2>1, <3>1, <3>3, ToldNew DEF Kinds, Lives, streams
  <2>3. CASE Connect \/ Continue \/ GoOn \/ LossGoesOn \/ Advance \/ StateReady \/ Replies
    <3>1. kind' = kind
      BY <2>3 DEF Connect, Continue, GoOn, ConnectThrows, Connection, LossGoesOn, Failure, Closed,
         Advance, StateReady, Replies, Reply, calls
    <3> QED
      BY <1>3, <1>8, <2>1, <3>1 DEF streams
  <2> QED
    BY <1>8, <2>2, <2>3 DEF ContextStep
<1>9. CASE Unlink /\ ~Lose
  <2>1. UNCHANGED <<kind, life, orphans, heard, late>> /\ toTell' = Listed
    BY <1>9 DEF Unlink, vars, calls
  <2> SUFFICES ASSUME NEW c \in Calls \ (late' \cup orphans'), kind'[c] = "stream"
               PROVE  /\ Over(c)' => Told(c)'
                      /\ Lost' /\ ~losing' => Over(c)' \/ c \in toTell'
    BY DEF ToldInv
  <2>2. (Over(c)' <=> Over(c)) /\ (Told(c)' <=> Told(c)) /\ (Over(c) => Told(c))
    BY <1>1, <2>1 DEF ToldInv, Over, Told
  <2>3. Over(c) \/ c \in toTell'
    BY <1>1, <2>1 DEF Over, Listed, ClientTypeOK
  <2> QED
    BY <2>2, <2>3
<1>10. CASE Tell /\ ~Lose
  <2>1. PICK c \in toTell :
             /\ toTell' = toTell \ {c}
             /\ (c \notin orphans /\ Gone(c, pa_state)) \/ (c \in orphans /\ GoneUnheard(c, pa_state))
             /\ UNCHANGED <<announced, losing, orphans, late>>
    BY <1>10 DEF Tell
  <2>2. c \in Calls /\ pa_state \in {"failed", "terminated"}
    BY <1>1 DEF ClientTypeOK, Listed, LossInv, Unlinking, Lost
  <2>3. /\ life' = [life EXCEPT ![c] = pa_state] /\ kind' = kind
        /\ Emit(c, pa_state) \/ (c \in orphans /\ UNCHANGED heard)
    BY <2>1 DEF Gone, GoneUnheard, vars, calls
  <2> QED
    BY <1>2, <1>10, <2>1, <2>2, <2>3, ToldGone
<1>11. CASE StreamConnection /\ ~Lose
  <2>1. announced \in Calls /\ UNCHANGED <<kind, life, losing, toTell, orphans, late>>
    BY <1>1, <1>11 DEF StreamConnection, ClientTypeOK, vars, calls
  <2>2. \A c \in Calls : heard[c] \subseteq heard'[c]
    BY <1>1, <1>11, <2>1, EmitEffect DEF StreamConnection
  <2> QED
    BY <1>3, <1>11, <2>1, <2>2
<1>12. ASSUME ~Lose, NEW c \in Calls, StreamReady(c) PROVE ToldInv'
  <2>1. UNCHANGED <<kind, losing, toTell, orphans, heard, late>>
    BY <1>12 DEF StreamReady, vars, calls
  <2>2. \A d \in Calls : life'[d] = life[d] \/ (~Over(d) /\ ~Over(d)')
    BY <1>1, <1>12 DEF StreamReady, Over
  <2> QED
    BY <1>3, <1>12, <2>1, <2>2
<1>13. ASSUME ~Lose, NEW c \in Calls, StreamFailed(c) \/ StreamClosed(c) PROVE ToldInv'
  <2>1. PICK state \in {"failed", "terminated"} : Gone(c, state)
    BY <1>13 DEF StreamFailed, StreamClosed
  <2>2. UNCHANGED <<kind, losing, toTell, orphans, late>>
    BY <1>13 DEF StreamFailed, StreamClosed, Gone, vars, calls
  <2> QED
    BY <1>2, <1>13, <2>1, <2>2, ToldGone DEF Gone
<1>14. CASE UNCHANGED clientVars /\ ~Lose
  BY <1>3, <1>14 DEF clientVars, vars, calls, streams
<1> QED
  BY <1>4, <1>5, <1>6, <1>7, <1>8, <1>9, <1>10, <1>11, <1>12, <1>13, <1>14
     DEF ClientNext, StreamStep

\* The invariant is inductive.
LEMMA ClientStepInv == ClientInv /\ [ClientNext]_clientVars => ClientInv'
BY ClientTypeStep, UnmadeStep, LossStep, ToldStep DEF ClientInv

\* ClientInv holds in every state.
THEOREM ClientInvariance == ClientSpec => []ClientInv
BY ClientInitInv, ClientStepInv, PTL DEF ClientSpec

-------------------------------------------------------------------------------
\* The streams' states keep their types beside those of their context, and what libpulse
\* has still to tell of a loss is alive.
THEOREM ClientTypeCorrect == ClientSpec => []ClientTypeOK
BY ClientInvariance, PTL DEF ClientInv

\* When the loss of a context has been dealt with, every stream that can be told of it has
\* emitted 'error' or 'close'.
THEOREM EachStreamTold == ClientSpec => []ToldOfLoss
<1>1. ClientInv => ToldOfLoss
  BY DEF ClientInv, ToldInv, ToldOfLoss, Told, Unlinking
<1> QED
  BY <1>1, ClientInvariance, PTL

===============================================================================
