------------------------------ MODULE RecordStream ------------------------------
(***************************************************************************)
(* The recording path of node-pulseaudio: the Readable RecordStream of     *)
(* lib/pulse.js, the native Stream of src/stream.cc below it, and, as far  *)
(* as those two can observe them, Node's Readable, libpulse and the sound  *)
(* server.                                                                 *)
(*                                                                         *)
(* The fragments that the server sends are numbered in the order of their  *)
(* arrival.  libpulse keeps those that have not been dropped, the interval *)
(* dropped+1 .. received, in its record buffer; pa_stream_peek shows the   *)
(* oldest of them and pa_stream_drop drops the one that has been peeked.   *)
(* A hole is a fragment libpulse could not import: it has a size and no    *)
(* data.                                                                   *)
(*                                                                         *)
(* data() calls JavaScript between the peek and the drop (inData), where   *)
(* the application may call anything; the event loop waits until it has    *)
(* returned (AtLoop).                                                      *)
(***************************************************************************)
EXTENDS Integers

CONSTANT MaxFragments   \* bound: how many fragments the server sends

Fragments == 1 .. MaxFragments
None == 0

ASSUME RecordAssumption == MaxFragments \in Nat

VARIABLES
  \* Node's Readable
  buffered,      \* how many chunks wait in it to be read
  eof,           \* null has been pushed
  endEmitted, errored,
  \* RecordStream (pulse.js) and Stream (stream.cc)
  playing, read_callback, inData,
  \* libpulse and the server
  pa_state, closing,
  corkAsked,     \* what the last cork operation that libpulse took asks for
  recording,     \* the server may send fragments
  received, hole, dropped, peeked,
  \* history: how often each fragment was handed to JavaScript, how many had been
  \* received at the last stop(), and whether play() was called after the end
  handed, horizon, replayed

readable == <<buffered, eof, endEmitted, errored>>
buffer   == <<received, hole, dropped, peeked>>
history  == <<handed, horizon, replayed>>
vars == <<readable, playing, read_callback, inData, pa_state, closing, corkAsked,
          recording, buffer, history>>

Ready == pa_state = "ready"
Lost  == pa_state \in {"failed", "terminated"}

AtLoop == ~inData

\* Stream::Stream: neither callback nor anything in libpulse's buffer.  The flag
\* start_corked may be given.
NativeInit ==
  /\ inData = FALSE
  /\ pa_state = "unconnected" /\ closing = FALSE
  /\ corkAsked \in BOOLEAN /\ recording = ~corkAsked
  /\ received = 0 /\ hole = {} /\ dropped = 0 /\ peeked = None

\* The constructor: createStream, which ends with play().  Its cork operation is refused,
\* so that start_corked stands.
Init ==
  /\ buffered = 0 /\ eof = FALSE /\ endEmitted = FALSE /\ errored = FALSE
  /\ NativeInit
  /\ playing = TRUE /\ read_callback = TRUE
  /\ handed = [f \in Fragments |-> 0] /\ horizon = 0 /\ replayed = FALSE

-------------------------------------------------------------------------------
(* Node's Readable *)

PushNull == eof' = TRUE /\ UNCHANGED <<buffered, errored>>

\* A chunk pushed after the end is an error.
PushChunk ==
  /\ \/ ~eof /\ buffered' = buffered + 1 /\ UNCHANGED errored
     \/ eof /\ errored' = TRUE /\ UNCHANGED buffered
  /\ UNCHANGED eof

\* The application reads a chunk.
Consume ==
  /\ buffered > 0
  /\ buffered' = buffered - 1
  /\ UNCHANGED <<eof, endEmitted, errored, playing, read_callback, inData, pa_state, closing,
                 corkAsked, recording, buffer, history>>

\* Mutant: no handler for 'end'.
DisconnectNever == closing' = closing

\* pa_stream_disconnect, which libpulse refuses unless the stream is up.
Disconnect == closing' = (closing \/ Ready)

\* Everything has been read: 'end' is emitted and its handler disconnects the stream.
EmitEnd ==
  /\ eof /\ buffered = 0 /\ ~endEmitted
  /\ endEmitted' = TRUE
  /\ Disconnect
  /\ UNCHANGED <<buffered, eof, errored, playing, read_callback, inData, pa_state, corkAsked,
                 recording, buffer, history>>

-------------------------------------------------------------------------------
(* The native stream *)

\* pa_stream_drop is refused when nothing has been peeked.
CanDrop == Ready /\ peeked # None
Drop ==
  /\ dropped' = IF CanDrop THEN dropped + 1 ELSE dropped
  /\ peeked' = IF CanDrop THEN None ELSE peeked

\* pa_stream_cork is refused unless the stream is up.  The server resumes as soon as it
\* hears of it, and stops some time after (ServerCork).
Cork(b) ==
  /\ corkAsked' = IF Ready THEN b ELSE corkAsked
  /\ recording' = (recording \/ (Ready /\ ~b))

\* Mutant: read(null) keeps the callback.
NativeReadKeeps(on) ==
  /\ Cork(~on)
  /\ Drop
  /\ read_callback' = (on \/ read_callback)

\* read(callback), or read(null).
NativeRead(on) ==
  /\ Cork(~on)
  /\ Drop
  /\ read_callback' = on

\* Mutant: data() gives the fragment that has just come.
DataNewest ==
  /\ peeked' = received'
  /\ handed' = [handed EXCEPT ![received'] = @ + 1]
  /\ inData' = TRUE
  /\ \/ received' \in hole' /\ PushNull
     \/ received' \notin hole' /\ PushChunk

\* data(), up to and with the callback: the oldest fragment, as a buffer or as null.
Data ==
  LET f == dropped + 1
  IN  /\ peeked' = f
      /\ handed' = [handed EXCEPT ![f] = @ + 1]
      /\ inData' = TRUE
      /\ \/ f \in hole' /\ PushNull
         \/ f \notin hole' /\ PushChunk

\* Mutants: a fragment without data is not dropped; the fragment peeked is taken for granted.
DataReturnsUnchecked == inData' = FALSE /\ dropped' = dropped + 1 /\ peeked' = None
DataReturnsDataOnly ==
  /\ inData' = FALSE
  /\ \/ peeked \notin hole /\ Drop
     \/ peeked \in hole /\ UNCHANGED <<dropped, peeked>>

\* The rest of data(): peek has found a fragment, whose size is not zero.
DataReturns == inData' = FALSE /\ Drop

Return ==
  /\ inData
  /\ DataReturns
  /\ UNCHANGED <<readable, playing, read_callback, pa_state, closing, corkAsked, recording,
                 received, hole, history>>

-------------------------------------------------------------------------------
(* The application *)

Stop ==
  /\ NativeRead(FALSE)
  /\ playing' = FALSE
  /\ horizon' = received
  /\ UNCHANGED <<readable, inData, pa_state, closing, received, hole, handed, replayed>>

Play ==
  /\ NativeRead(TRUE)
  /\ playing' = TRUE
  /\ replayed' = (replayed \/ eof)
  /\ UNCHANGED <<readable, inData, pa_state, closing, received, hole, handed, horizon>>

\* Mutant: end() does not stop the stream.
EndUnstopped ==
  /\ PushNull
  /\ UNCHANGED <<endEmitted, playing, read_callback, inData, pa_state, closing, corkAsked,
                 recording, buffer, history>>

\* end(): stop() and push(null).
End ==
  /\ NativeRead(FALSE)
  /\ playing' = FALSE
  /\ horizon' = received
  /\ PushNull
  /\ UNCHANGED <<endEmitted, inData, pa_state, closing, received, hole, handed, replayed>>

-------------------------------------------------------------------------------
(* Events of libpulse *)

\* Stream::connect: pa_stream_connect_record is accepted on a stream that has not been
\* connected and lets the server make the stream.
Connect ==
  /\ AtLoop /\ pa_state = "unconnected"
  /\ pa_state' = "creating"
  /\ UNCHANGED <<readable, playing, read_callback, inData, closing, corkAsked, recording,
                 buffer, history>>

\* StateCallback with ready; a listener of 'state' may end the context in it.
StateReady ==
  /\ AtLoop /\ pa_state = "creating"
  /\ pa_state' \in {"ready", "terminated"}
  /\ UNCHANGED <<readable, playing, read_callback, inData, closing, corkAsked, recording,
                 buffer, history>>

\* StateCallback with failed: 'error' is emitted, which does not end the Readable.
StateFailed ==
  /\ AtLoop /\ ~Lost
  /\ pa_state' = "failed" /\ closing' = FALSE
  /\ UNCHANGED <<readable, playing, read_callback, inData, corkAsked, recording, buffer,
                 history>>

\* StateCallback with terminated: 'close' is emitted, by the application's ending the
\* context, which may be inside data(), ...
Terminated ==
  /\ pa_state' = "terminated" /\ closing' = FALSE
  /\ UNCHANGED <<readable, playing, read_callback, inData, corkAsked, recording, buffer,
                 history>>

ContextEnd == ~Lost /\ Terminated

\* ... or because the server has answered the stream's own disconnect.
DisconnectReply == AtLoop /\ Ready /\ closing /\ Terminated

\* The server has done as the last cork operation says.
ServerCork ==
  /\ Ready /\ recording /\ corkAsked
  /\ recording' = FALSE
  /\ UNCHANGED <<readable, playing, read_callback, inData, pa_state, closing, corkAsked,
                 buffer, history>>

\* A fragment arrives; holes in a row are one.  Without a callback data() does nothing.
ReadCallback ==
  /\ AtLoop /\ Ready /\ recording /\ received < MaxFragments
  /\ received' = received + 1
  /\ \/ hole' = hole
     \/ (received \in hole => received <= dropped) /\ hole' = hole \cup {received + 1}
  /\ \/ read_callback /\ Data
     \/ ~read_callback /\ UNCHANGED <<buffered, eof, errored, inData, peeked, handed>>
  /\ UNCHANGED <<endEmitted, playing, read_callback, pa_state, closing, corkAsked, recording,
                 dropped, horizon, replayed>>

-------------------------------------------------------------------------------
Application == Stop \/ Play \/ End \/ Consume \/ ContextEnd

Events == \/ Connect \/ StateReady \/ StateFailed \/ DisconnectReply
          \/ ServerCork \/ ReadCallback

Next == Application \/ Return \/ EmitEnd \/ Events

Spec == Init /\ [][Next]_vars

\* The runtime returns from callbacks; a live server makes the stream, obeys and answers;
\* the application reads what there is, and asks for more until it is told of the end.
\* Whether 'end' comes after an error depends on the version of Node.
Fairness ==
  /\ WF_vars(Return) /\ WF_vars(Consume) /\ WF_vars(EmitEnd /\ ~errored)
  /\ WF_vars(Connect) /\ WF_vars(StateReady) /\ WF_vars(DisconnectReply)
  /\ WF_vars(ServerCork)

FairSpec == Spec /\ Fairness

-------------------------------------------------------------------------------
(* Properties *)

\* Every variable has its type; libpulse keeps an interval of the fragments received.
TypeOK ==
  /\ buffered \in 0 .. received /\ dropped \in 0 .. received
  /\ received \in 0 .. MaxFragments /\ hole \subseteq 1 .. received
  /\ peeked \in 0 .. received /\ horizon \in 0 .. received
  /\ eof \in BOOLEAN /\ endEmitted \in BOOLEAN /\ errored \in BOOLEAN
  /\ playing \in BOOLEAN /\ read_callback \in BOOLEAN /\ inData \in BOOLEAN
  /\ closing \in BOOLEAN /\ corkAsked \in BOOLEAN /\ recording \in BOOLEAN
  /\ replayed \in BOOLEAN
  /\ pa_state \in {"unconnected", "creating", "ready", "failed", "terminated"}
  /\ handed \in [Fragments -> Nat]

\* JavaScript gets every fragment once and in order, and libpulse drops none that it has
\* not got, wherever the application calls stop(), play() or end(): data() and read() both
\* drop, and only the first of them finds something peeked.
HandedOnce ==
  /\ \A f \in Fragments : handed[f] = IF f <= dropped \/ f = peeked THEN 1 ELSE 0
  /\ peeked # None => peeked = dropped + 1

Backlog == received - dropped - (IF peeked = None THEN 0 ELSE 1)

\* A stream that listens keeps up: data() takes one fragment each time, and the record
\* buffer grows only while there is no callback (read(null), or before it is called).
BacklogOnlyStopped == [][read_callback => Backlog' <= Backlog]_vars

\* A stopped stream hands over nothing, though its cork may have been refused or the
\* server not have heard of it.
NothingWhileStopped == [][~playing => handed' = handed]_vars

\* After end() nothing is pushed any more: a push after the end comes only from a hole,
\* which data() takes for the end, or from play() after end().
EndIsQuiet == errored => replayed \/ \E f \in hole : handed[f] > 0

\* A stream that ends while it is up is closed once all has been read.  (If it ends
\* before, the disconnect is refused and it comes up all the same.)
EndCloses == eof /\ Ready /\ ~endEmitted ~> Lost \/ errored

\* README.md:121 "Stopping discards any unplayed samples from stream.": no fragment that
\* had been received at the last stop() is handed over after it.
StopDiscards == [][\A f \in Fragments : handed'[f] # handed[f] => f > horizon]_vars

===============================================================================
