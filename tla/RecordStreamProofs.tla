-------------------------- MODULE RecordStreamProofs --------------------------
(* Proofs about RecordStream, for every number of fragments. *)
EXTENDS RecordStream, TLAPS

\* What is peeked is in JavaScript's hands, but for a stream that was lost meanwhile, and
\* the Readable holds no more than was handed over.
PeekInv ==
  /\ peeked # None => (inData /\ Ready) \/ Lost
  /\ dropped + (IF peeked = None THEN 0 ELSE 1) <= received
  /\ buffered <= dropped + (IF peeked = None THEN 0 ELSE 1)

\* The native callback is set exactly while the stream plays.
CallbackInv == playing = read_callback

\* A stream that has ended and has a callback was played again or ended by a hole.
EndedInv == eof /\ read_callback => replayed \/ \E f \in hole : handed[f] > 0

\* The inductive invariant.
Inv == TypeOK /\ PeekInv /\ HandedOnce /\ CallbackInv /\ EndedInv /\ EndIsQuiet

-------------------------------------------------------------------------------

\* The invariant holds at first, when nothing has been recorded.
LEMMA InitInv == Init => Inv
<1> SUFFICES ASSUME Init PROVE Inv
  OBVIOUS
<1>1. MaxFragments \in Nat /\ \A f \in Fragments : f \in Nat \ {0}
  BY RecordAssumption DEF Fragments
<1>2. corkAsked \in BOOLEAN /\ recording \in BOOLEAN
  BY DEF Init, NativeInit
<1>3. handed \in [Fragments -> Nat]
  BY DEF Init
<1>4. TypeOK
  <2>1. /\ buffered = 0 /\ received = 0 /\ dropped = 0 /\ peeked = 0 /\ horizon = 0
        /\ hole = {}
    BY DEF Init, NativeInit, None
  <2>2. /\ eof \in BOOLEAN /\ endEmitted \in BOOLEAN /\ errored \in BOOLEAN
        /\ playing \in BOOLEAN /\ read_callback \in BOOLEAN /\ inData \in BOOLEAN
        /\ closing \in BOOLEAN /\ replayed \in BOOLEAN /\ pa_state = "unconnected"
    BY DEF Init, NativeInit
  <2> QED
    BY <1>1, <1>2, <1>3, <2>1, <2>2 DEF TypeOK
<1>5. PeekInv /\ CallbackInv /\ EndedInv /\ EndIsQuiet
  BY DEF Init, NativeInit, PeekInv, CallbackInv, EndedInv, EndIsQuiet, None
<1>6. HandedOnce
  BY <1>1 DEF Init, NativeInit, HandedOnce, None
<1> QED
  BY <1>4, <1>5, <1>6 DEF Inv

\* pa_stream_drop, wherever it comes: one fragment is dropped, and it is the one that
\* was handed over last; the numbers that bound the Readable's buffer stay.
LEMMA DropKeeps ==
  ASSUME TypeOK, PeekInv, HandedOnce, Drop, UNCHANGED <<received, handed>>
  PROVE  /\ HandedOnce'
         /\ dropped' \in 0 .. received /\ peeked' \in 0 .. received
         /\ peeked' # None => peeked' = peeked
         /\ dropped' + (IF peeked' = None THEN 0 ELSE 1)
              = dropped + (IF peeked = None THEN 0 ELSE 1)
<1>1. MaxFragments \in Nat /\ received \in Nat /\ received <= MaxFragments
  BY RecordAssumption DEF TypeOK
<1>2. dropped \in Nat /\ peeked \in Nat /\ (peeked # None => peeked = dropped + 1)
  BY <1>1 DEF TypeOK, HandedOnce
<1>3. CASE ~CanDrop
  BY <1>1, <1>2, <1>3 DEF Drop, HandedOnce, TypeOK
<1>4. CASE CanDrop
  <2>1. peeked # None /\ peeked = dropped + 1 /\ dropped' = dropped + 1 /\ peeked' = None
    BY <1>2, <1>4 DEF CanDrop, Drop
  <2>2. dropped + 1 <= received
    BY <2>1 DEF PeekInv
  <2>3. ASSUME NEW f \in Fragments
        PROVE  handed'[f] = IF f <= dropped' \/ f = peeked' THEN 1 ELSE 0
    <3>1. f \in Nat \ {0} /\ handed[f] = IF f <= dropped \/ f = peeked THEN 1 ELSE 0
      BY <1>1 DEF HandedOnce, Fragments
    <3> QED
      BY <1>2, <2>1, <3>1 DEF None
  <2> QED
    BY <1>1, <1>2, <2>1, <2>2, <2>3 DEF HandedOnce, None
<1> QED
  BY <1>3, <1>4

\* Steps after which fragments, the callback and what has been handed over are as before.
LEMMA QuietStep ==
  ASSUME Inv,
         UNCHANGED <<eof, errored, playing, read_callback, inData, buffer, history>>,
         TypeOK', buffered' <= buffered, Lost => Lost', Ready => Ready' \/ Lost'
  PROVE  Inv'
<1>1. PeekInv'
  BY DEF Inv, PeekInv, TypeOK, buffer
<1>2. HandedOnce' /\ CallbackInv' /\ EndedInv' /\ EndIsQuiet'
  BY DEF Inv, HandedOnce, CallbackInv, EndedInv, EndIsQuiet, buffer, history
<1> QED
  BY <1>1, <1>2 DEF Inv

\* A call of the application's that goes through read(): `eof` may be set when the callback
\* is taken away, and a play() after the end is noted.
LEMMA ReadStep ==
  ASSUME Inv, NEW on \in BOOLEAN, NativeRead(on), playing' = on,
         eof' \in BOOLEAN, eof' /\ on => replayed',
         replayed' \in BOOLEAN, replayed => replayed', horizon' \in 0 .. received,
         UNCHANGED <<buffered, errored, endEmitted, inData, pa_state, closing,
                     received, hole, handed>>
  PROVE  Inv'
<1>1. /\ HandedOnce'
      /\ dropped' \in 0 .. received /\ peeked' \in 0 .. received
      /\ peeked' # None => peeked' = peeked
      /\ dropped' + (IF peeked' = None THEN 0 ELSE 1)
           = dropped + (IF peeked = None THEN 0 ELSE 1)
  BY DropKeeps DEF Inv, NativeRead
<1>2. corkAsked' \in BOOLEAN /\ recording' \in BOOLEAN /\ read_callback' = on
  BY DEF NativeRead, Cork, Inv, TypeOK
<1>3. TypeOK'
  BY <1>1, <1>2 DEF Inv, TypeOK
<1>4. PeekInv'
  BY <1>1 DEF Inv, PeekInv, Lost, Ready
<1>5. CallbackInv' /\ EndedInv' /\ EndIsQuiet'
  BY <1>2 DEF Inv, CallbackInv, EndedInv, EndIsQuiet
<1> QED
  BY <1>1, <1>3, <1>4, <1>5 DEF Inv

\* A fragment arrives, with or without data: it joins those received, and the holes stay.
LEMMA Arrives ==
  ASSUME TypeOK, ReadCallback
  PROVE  /\ received \in Nat /\ received < MaxFragments /\ received' = received + 1
         /\ hole \subseteq hole' /\ hole' \subseteq 1 .. received'
<1>1. received \in Nat /\ hole \subseteq 1 .. received
  BY RecordAssumption DEF TypeOK
<1>2. received < MaxFragments /\ received' = received + 1
  BY DEF ReadCallback
<1>3. hole' = hole \/ hole' = hole \cup {received + 1}
  BY DEF ReadCallback
<1>4. 1 .. received \subseteq 1 .. received' /\ received + 1 \in 1 .. received'
  BY <1>1, <1>2
<1> QED
  BY <1>1, <1>2, <1>3, <1>4

\* A fragment arrives and finds the callback: the oldest fragment is handed over, which
\* had not been, and nothing is peeked at that time.
LEMMA DataStep ==
  ASSUME Inv, ReadCallback, read_callback
  PROVE  Inv'
<1> DEFINE f == dropped + 1
<1>1. /\ MaxFragments \in Nat /\ received \in Nat /\ received < MaxFragments
      /\ received' = received + 1 /\ peeked = None
      /\ hole \subseteq hole' /\ hole' \subseteq 1 .. received'
  BY Arrives, RecordAssumption DEF ReadCallback, Inv, TypeOK, PeekInv, AtLoop, Ready, Lost
<1>2. /\ Data
      /\ UNCHANGED <<endEmitted, playing, read_callback, pa_state, closing, corkAsked, recording,
                     dropped, horizon, replayed>>
  BY DEF ReadCallback
<1>3. dropped \in Nat /\ dropped <= received /\ buffered \in Nat /\ buffered <= dropped
  BY <1>1 DEF Inv, TypeOK, PeekInv
<1>4. f \in Fragments /\ f \in 1 .. received' /\ f # None
  BY <1>1, <1>3 DEF Fragments, None
<1>5. /\ peeked' = f /\ inData' = TRUE
      /\ handed' = [handed EXCEPT ![f] = @ + 1]
      /\ (f \in hole' /\ PushNull) \/ (f \notin hole' /\ PushChunk)
  BY <1>2 DEF Data
<1>6. handed \in [Fragments -> Nat] /\ handed' \in [Fragments -> Nat]
  BY <1>4, <1>5 DEF Inv, TypeOK
<1>7. HandedOnce'
  <2>1. ASSUME NEW g \in Fragments
        PROVE  handed'[g] = IF g <= dropped' \/ g = peeked' THEN 1 ELSE 0
    <3>1. handed[g] = IF g <= dropped THEN 1 ELSE 0
      BY <1>1 DEF Inv, HandedOnce, None, Fragments
    <3>2. CASE g = f
      BY <1>3, <1>5, <1>6, <3>1, <3>2
    <3>3. CASE g # f
      BY <1>2, <1>5, <1>6, <3>1, <3>3
    <3> QED
      BY <3>2, <3>3
  <2> QED
    BY <1>2, <1>5, <2>1 DEF HandedOnce
<1>8. /\ buffered' \in {buffered, buffered + 1}
      /\ eof' \in BOOLEAN /\ errored' \in BOOLEAN
      /\ eof' /\ ~eof => f \in hole'
      /\ errored' /\ ~errored => eof
  <2>1. eof \in BOOLEAN /\ errored \in BOOLEAN
    BY DEF Inv, TypeOK
  <2>2. CASE f \in hole' /\ PushNull
    BY <2>1, <2>2 DEF PushNull
  <2>3. CASE f \notin hole' /\ PushChunk
    <3>1. eof' = eof /\ (errored' = errored \/ (errored' = TRUE /\ eof))
      BY <2>3 DEF PushChunk
    <3>2. buffered' \in {buffered, buffered + 1}
      BY <2>3 DEF PushChunk
    <3>3. eof' \in BOOLEAN /\ errored' \in BOOLEAN
      BY <2>1, <3>1
    <3>4. (eof' => eof) /\ (errored' /\ ~errored => eof)
      BY <3>1
    <3> QED
      BY <3>2, <3>3, <3>4
  <2> QED
    BY <1>5, <2>2, <2>3
<1>9. TypeOK'
  <2>1. /\ buffered' \in 0 .. received' /\ dropped' \in 0 .. received'
        /\ received' \in 0 .. MaxFragments /\ hole' \subseteq 1 .. received'
        /\ peeked' \in 0 .. received' /\ horizon' \in 0 .. received'
    BY <1>1, <1>2, <1>3, <1>4, <1>5, <1>8 DEF Inv, TypeOK
  <2> QED
    BY <1>2, <1>5, <1>6, <1>8, <2>1 DEF Inv, TypeOK
<1>10. PeekInv'
  <2>1. inData' /\ Ready'
    BY <1>2, <1>5 DEF ReadCallback, Ready
  <2> QED
    BY <1>1, <1>2, <1>3, <1>4, <1>5, <1>8, <2>1 DEF PeekInv
<1>11. \A g \in hole : handed[g] > 0 => g \in hole' /\ handed'[g] > 0
  <2>1. \A g \in hole : g \in Fragments
    BY <1>1 DEF Inv, TypeOK, Fragments
  <2> QED
    BY <1>1, <1>5, <1>6, <2>1
<1>12. handed'[f] > 0
  BY <1>4, <1>5, <1>6
<1>13. CallbackInv'
  BY <1>2 DEF Inv, CallbackInv
<1>14. EndedInv' /\ EndIsQuiet'
  BY <1>2, <1>8, <1>11, <1>12 DEF Inv, EndedInv, EndIsQuiet
<1> QED
  BY <1>7, <1>9, <1>10, <1>13, <1>14 DEF Inv

\* Every step keeps the invariant.
LEMMA StepInv == Inv /\ [Next]_vars => Inv'
<1> SUFFICES ASSUME Inv, [Next]_vars PROVE Inv'
  OBVIOUS
<1>1. MaxFragments \in Nat /\ received \in Nat
  BY RecordAssumption DEF Inv, TypeOK
<1>2. CASE Stop
  <2>1. received \in 0 .. received
    BY <1>1
  <2> QED
    BY <1>2, <2>1, ReadStep DEF Stop, readable, Inv, TypeOK
<1>3. CASE Play
  <2>1. eof' = eof /\ replayed' = (replayed \/ eof) /\ eof \in BOOLEAN /\ replayed \in BOOLEAN
    BY <1>3 DEF Play, readable, Inv, TypeOK
  <2> QED
    BY <1>3, <2>1, ReadStep DEF Play, readable, Inv, TypeOK
<1>4. CASE End
  <2>1. received \in 0 .. received
    BY <1>1
  <2> QED
    BY <1>4, <2>1, ReadStep DEF End, PushNull, readable, Inv, TypeOK
<1>5. CASE Consume
  <2>1. TypeOK' /\ buffered' <= buffered
    BY <1>1, <1>5 DEF Consume, Inv, TypeOK, buffer, history
  <2> QED
    BY <1>5, <2>1, QuietStep DEF Consume, Lost, Ready
<1>6. CASE EmitEnd
  <2>1. closing' \in BOOLEAN
    BY <1>6 DEF EmitEnd, Disconnect, Inv, TypeOK
  <2>2. TypeOK' /\ buffered' <= buffered
    BY <1>1, <1>6, <2>1 DEF EmitEnd, Inv, TypeOK, buffer, history
  <2> QED
    BY <1>6, <2>2, QuietStep DEF EmitEnd, Lost, Ready
<1>7. CASE Return
  <2>1. /\ Drop /\ inData' = FALSE
        /\ UNCHANGED <<readable, playing, read_callback, pa_state, closing, corkAsked, recording,
                       received, hole, history>>
    BY <1>7 DEF Return, DataReturns
  <2>2. /\ HandedOnce'
        /\ dropped' \in 0 .. received /\ peeked' \in 0 .. received
        /\ dropped' + (IF peeked' = None THEN 0 ELSE 1)
             = dropped + (IF peeked = None THEN 0 ELSE 1)
    BY <2>1, DropKeeps DEF Inv, history
  <2>3. TypeOK'
    BY <2>1, <2>2, ZenonT(30) DEF Inv, TypeOK, readable, history
  <2>4. PeekInv'
    <3>1. peeked' # None => ~Ready /\ peeked # None
      BY <2>1 DEF Drop, CanDrop
    <3>2. peeked' # None => Lost
      BY <3>1 DEF Inv, PeekInv
    <3> QED
      BY <2>1, <2>2, <3>2 DEF Inv, PeekInv, Lost, readable
  <2>5. CallbackInv' /\ EndedInv' /\ EndIsQuiet'
    BY <2>1 DEF Inv, CallbackInv, EndedInv, EndIsQuiet, readable, history
  <2> QED
    BY <2>2, <2>3, <2>4, <2>5 DEF Inv
<1>8. CASE ReadCallback
  <2>1. CASE read_callback
    BY <1>8, <2>1, DataStep
  <2>2. CASE ~read_callback
    <3>1. /\ received' = received + 1 /\ received < MaxFragments
          /\ hole \subseteq hole' /\ hole' \subseteq 1 .. received'
          /\ UNCHANGED <<readable, playing, read_callback, inData, pa_state, closing, corkAsked,
                         recording, dropped, peeked, history>>
      BY <1>8, <2>2, Arrives DEF ReadCallback, Inv, readable, history
    <3>2. TypeOK'
      BY <1>1, <3>1 DEF Inv, TypeOK, readable, history
    <3>3. PeekInv'
      BY <1>1, <3>1 DEF Inv, PeekInv, TypeOK, Lost, Ready, readable
    <3>4. HandedOnce' /\ CallbackInv' /\ EndedInv' /\ EndIsQuiet'
      BY <2>2, <3>1 DEF Inv, HandedOnce, CallbackInv, EndedInv, EndIsQuiet, readable, history
    <3> QED
      BY <3>2, <3>3, <3>4 DEF Inv
  <2> QED
    BY <2>1, <2>2
<1>9. CASE Connect \/ StateReady
  <2>1. /\ ~Lost /\ ~Ready
        /\ UNCHANGED <<readable, playing, read_callback, inData, closing, corkAsked, recording,
                       buffer, history>>
        /\ pa_state' \in {"creating", "ready", "terminated"}
    BY <1>9 DEF Connect, StateReady, Lost, Ready
  <2>2. pa_state' \in {"unconnected", "creating", "ready", "failed", "terminated"}
    BY <2>1
  <2>3. TypeOK'
    <3>1. UNCHANGED <<readable, playing, read_callback, inData, closing, corkAsked, recording,
                      buffer, history>>
      BY <2>1
    <3> QED
      BY <2>2, <3>1 DEF Inv, TypeOK, readable, buffer, history
  <2>4. buffered' <= buffered
    BY <1>1, <2>1 DEF Inv, TypeOK, readable
  <2> QED
    BY <2>1, <2>3, <2>4, QuietStep DEF readable
<1>10. CASE StateFailed \/ ContextEnd \/ DisconnectReply
  <2>1. /\ Lost' /\ closing' = FALSE /\ pa_state' \in {"failed", "terminated"}
        /\ UNCHANGED <<readable, playing, read_callback, inData, corkAsked, recording, buffer,
                       history>>
    BY <1>10 DEF StateFailed, ContextEnd, DisconnectReply, Terminated, Lost
  <2>2. /\ closing' \in BOOLEAN
        /\ pa_state' \in {"unconnected", "creating", "ready", "failed", "terminated"}
    BY <2>1
  <2>3. TypeOK'
    <3>1. UNCHANGED <<readable, playing, read_callback, inData, corkAsked, recording, buffer,
                      history>>
      BY <2>1
    <3> QED
      BY <2>2, <3>1 DEF Inv, TypeOK, readable, buffer, history
  <2>4. buffered' <= buffered
    BY <1>1, <2>1 DEF Inv, TypeOK, readable
  <2> QED
    BY <2>1, <2>3, <2>4, QuietStep DEF readable
<1>11. CASE ServerCork \/ UNCHANGED vars
  <2>1. /\ UNCHANGED <<readable, playing, read_callback, inData, pa_state, closing, corkAsked,
                       buffer, history>>
        /\ recording' \in BOOLEAN
    BY <1>11 DEF ServerCork, vars, Inv, TypeOK
  <2>2. TypeOK' /\ buffered' <= buffered
    BY <1>1, <2>1 DEF Inv, TypeOK, readable, buffer, history
  <2> QED
    BY <2>1, <2>2, QuietStep DEF readable, Lost, Ready
<1> QED
  BY <1>2, <1>3, <1>4, <1>5, <1>6, <1>7, <1>8, <1>9, <1>10, <1>11 DEF Next, Application, Events

\* The invariant holds in every reachable state of the recording path.
THEOREM Invariance == Spec => []Inv
BY InitInv, StepInv, PTL DEF Spec

-------------------------------------------------------------------------------
\* The fields of pulse.js, stream.cc and libpulse keep their types, and libpulse's record
\* buffer is an interval of the fragments received.
THEOREM TypeCorrect == Spec => []TypeOK
BY Invariance, PTL DEF Inv

\* Fragments are handed to JavaScript once and in order, and none is dropped that was not,
\* though stop() and play() drop as well as data().
THEOREM FragmentsOnce == Spec => []HandedOnce
BY Invariance, PTL DEF Inv

\* What is pushed after the end comes from a hole or from a play() after end().
THEOREM QuietEnd == Spec => []EndIsQuiet
BY Invariance, PTL DEF Inv

\* A stream that listens takes as much as comes.
THEOREM BacklogBounded == Spec => BacklogOnlyStopped
<1>1. Inv /\ [Next]_vars => [read_callback => Backlog' <= Backlog]_vars
  <2> SUFFICES ASSUME Inv, Next, read_callback PROVE Backlog' <= Backlog
    OBVIOUS
  <2>1. /\ received \in Nat /\ dropped \in Nat
        /\ peeked # None => peeked = dropped + 1
    BY RecordAssumption DEF Inv, TypeOK, HandedOnce
  <2>2. CASE ReadCallback
    <3>1. /\ received' = received + 1 /\ dropped' = dropped /\ peeked' = dropped + 1
          /\ peeked = None
      BY <2>2 DEF ReadCallback, Data, Inv, PeekInv, AtLoop, Ready, Lost
    <3> QED
      BY <2>1, <3>1 DEF Backlog, None
  <2>3. CASE Stop \/ Play \/ End \/ Return
    <3>1. received' = received /\ Drop
      BY <2>3 DEF Stop, Play, End, NativeRead, Return, DataReturns
    <3> QED
      BY <2>1, <3>1 DEF Drop, CanDrop, Backlog, None
  <2>4. CASE ~ReadCallback /\ ~(Stop \/ Play \/ End \/ Return)
    <3>1. UNCHANGED <<received, dropped, peeked>>
      BY <2>4 DEF Next, Application, Events, Consume, ContextEnd, Terminated, EmitEnd, Connect,
           StateReady, StateFailed, DisconnectReply, ServerCork, buffer
    <3> QED
      BY <2>1, <3>1 DEF Backlog
  <2> QED
    BY <2>2, <2>3, <2>4
<1> QED
  BY <1>1, Invariance, PTL DEF Spec, BacklogOnlyStopped

\* A stopped stream hands nothing to JavaScript, whatever becomes of its cork.
THEOREM SilentWhileStopped == Spec => NothingWhileStopped
<1>1. Inv /\ [Next]_vars => [~playing => handed' = handed]_vars
  <2> SUFFICES ASSUME Inv, Next, ~playing PROVE handed' = handed
    OBVIOUS
  <2>1. ~read_callback
    BY DEF Inv, CallbackInv, TypeOK
  <2> QED
    BY <2>1 DEF Next, Application, Events, Stop, Play, End, Return, Consume, ContextEnd,
       Terminated, EmitEnd, Connect, StateReady, StateFailed, DisconnectReply, ServerCork,
       ReadCallback, history
<1> QED
  BY <1>1, Invariance, PTL DEF Spec, NothingWhileStopped

===============================================================================
