------------------------- MODULE PlaybackStreamProofs -------------------------
(* Proofs about PlaybackStream, for every number, length and order of chunks. *)
EXTENDS PlaybackStream, TLAPS

\* The stream has left its first two states.
Up == pa_state \notin {"unconnected", "creating"}

\* What the Writable and _write maintain: no chunk waits while none is in flight, and
\* the discard counter ends at the chunk that was the last when it was taken.
WritableInv ==
  /\ flight = "none" => begun = submitted
  /\ flight # "none" => begun >= 1
  /\ errored => flight = "none"
  /\ discard > 0 /\ ~errored => flight # "none" /\ begun + discard = horizon

\* What the connection maintains: nothing reaches the native stream or the server
\* before the stream is up.
ConnectionInv ==
  /\ connected => Up
  /\ flight \in {"resumed", "native"} => Up
  /\ ~Up => requested = 0 /\ queued = 0

\* No byte of a chunk that has not been handed to the native stream.
UnsentInv ==
  \A c \in Chunks : sent[c] > 0 => c < begun \/ (c = begun /\ flight \in {"none", "native"})

\* The inductive invariant.
Inv ==
  /\ TypeOK /\ WritableInv /\ ConnectionInv /\ UnsentInv
  /\ OneHolder /\ NoIdleCredit /\ CreditRespected /\ DiscardSparesNewChunks
  /\ InOrder /\ HonestDone /\ DoneInOrder


-------------------------------------------------------------------------------

Outcomes == {"none", "drained", "flushed", "discarded", "stopped", "error"}

\* The invariant holds at first, when nothing has been written.
LEMMA InitInv == Init => Inv
<1> SUFFICES ASSUME Init PROVE Inv
  OBVIOUS
<1>1. MaxChunks \in Nat /\ TLength \in Nat /\ \A c \in Chunks : c \in Nat \ {0} /\ Length[c] \in Nat
  BY PlaybackAssumption DEF Chunks
<1>2. \A c \in Chunks : outcome[c] = "none" /\ sent[c] = 0
  BY DEF Init
<1>3. TypeOK
  <2>1. /\ outcome \in [Chunks -> {"none", "drained", "flushed", "discarded", "stopped", "error"}]
        /\ sent \in [Chunks -> Nat]
    BY DEF Init
  <2>2. /\ submitted \in 0 .. MaxChunks /\ begun \in 0 .. submitted
        /\ discard \in 0 .. MaxChunks
        /\ write_buffer \in 0 .. MaxChunks /\ drain_callback \in 0 .. MaxChunks
        /\ write_offset \in Nat /\ requested \in Int /\ queued \in Nat /\ flushes \in Nat
        /\ horizon \in 0 .. submitted /\ stopHorizon \in 0 .. submitted
    BY <1>1 DEF Init, None
  <2> QED
    BY <2>1, <2>2 DEF Init, TypeOK
<1>4. WritableInv /\ ConnectionInv /\ UnsentInv
  BY <1>1, <1>2 DEF Init, WritableInv, ConnectionInv, UnsentInv
<1>5. OneHolder /\ NoIdleCredit /\ CreditRespected
  BY <1>1 DEF Init, OneHolder, NoIdleCredit, CreditRespected, None
<1>6. DiscardSparesNewChunks /\ HonestDone
  BY <1>1, <1>2 DEF DiscardSparesNewChunks, HonestDone
<1>7. InOrder
  BY <1>1, <1>2 DEF Init, InOrder, None
<1>8. DoneInOrder
  BY <1>1, <1>2 DEF Init, DoneInOrder
<1> QED
  BY <1>3, <1>4, <1>5, <1>6, <1>7, <1>8 DEF Inv

\* What a call of `done`, or of write() on an idle Writable, leads to: the discard counter
\* is used up, exactly the chunks before the new one in flight are done, and those that
\* are done now had been waiting at the last discard().
LEMMA FeedEffect ==
  ASSUME TypeOK, WritableInv, DiscardSparesNewChunks, DoneInOrder, ~errored,
         NEW last \in submitted .. MaxChunks,
         NEW how \in Outcomes \ {"discarded"},
         flight # "none" => how # "none",
         Feed(last, how)
  PROVE  /\ discard' = 0
         /\ begun' \in begun .. last
         /\ flight' \in {"none", "await", "resumed"}
         /\ flight' = "resumed" => connected
         /\ flight' = "none" => begun' = last
         /\ flight' # "none" => begun' > begun
         /\ outcome' \in [Chunks -> Outcomes]
         /\ \A c \in Chunks :
              /\ outcome'[c] # "none" <=> c < begun' \/ (c = begun' /\ flight' = "none")
              /\ outcome'[c] = "discarded" => c <= horizon
              /\ \/ outcome'[c] = outcome[c]
                 \/ c = begun /\ flight # "none" /\ outcome'[c] = how
                 \/ c > begun /\ outcome'[c] = "discarded"
<1> DEFINE next == begun + discard
<1>1. /\ MaxChunks \in Nat /\ begun \in Nat /\ submitted \in Nat /\ discard \in Nat
      /\ last \in Nat /\ begun <= submitted /\ submitted <= last
  BY PlaybackAssumption DEF TypeOK
<1>2. next <= last /\ (discard > 0 => next = horizon) /\ (discard > 0 => flight # "none")
  BY <1>1 DEF WritableInv, TypeOK
<1>3. Smaller(discard, last - begun) = discard
  BY <1>1, <1>2 DEF Smaller
<1>4. /\ discard' = 0
      /\ begun' = Smaller(next + 1, last)
      /\ flight' = IF next < last THEN WaitConnection ELSE "none"
      /\ outcome' = Reports(next, how)
  BY <1>1, <1>3 DEF Feed
<1>5. /\ begun' \in begun .. last
      /\ flight' \in {"none", "await", "resumed"}
      /\ flight' = "resumed" => connected
      /\ flight' = "none" => begun' = last /\ next = last
      /\ flight' # "none" => begun' = next + 1
  BY <1>1, <1>2, <1>4 DEF Smaller, WaitConnection
<1>6. outcome' \in [Chunks -> Outcomes]
  BY <1>4 DEF Reports, TypeOK, Outcomes
<1>7. ASSUME NEW c \in Chunks
      PROVE  /\ outcome'[c] # "none" <=> c < begun' \/ (c = begun' /\ flight' = "none")
             /\ outcome'[c] = "discarded" => c <= horizon
             /\ \/ outcome'[c] = outcome[c]
                \/ c = begun /\ flight # "none" /\ outcome'[c] = how
                \/ c > begun /\ outcome'[c] = "discarded"
  <2>1. c \in Nat
    BY <1>1 DEF Chunks
  <2>2. outcome'[c] = IF c = begun /\ flight # "none" THEN how
                      ELSE IF begun < c /\ c <= next THEN "discarded" ELSE outcome[c]
    BY <1>4 DEF Reports
  <2>3. outcome[c] # "none" <=> c < begun \/ (c = begun /\ flight = "none")
    BY DEF DoneInOrder
  <2>4. outcome[c] = "discarded" => c <= horizon
    BY DEF DiscardSparesNewChunks
  <2>5. CASE c = begun /\ flight # "none"
    BY <1>1, <1>2, <1>5, <2>1, <2>2, <2>5 DEF Outcomes
  <2>6. CASE begun < c /\ c <= next
    BY <1>1, <1>2, <1>5, <2>1, <2>2, <2>6
  <2>7. CASE ~(c = begun /\ flight # "none") /\ ~(begun < c /\ c <= next)
    BY <1>1, <1>2, <1>5, <2>1, <2>2, <2>3, <2>4, <2>7
  <2> QED
    BY <2>5, <2>6, <2>7
<1> QED
  BY <1>1, <1>4, <1>5, <1>6, <1>7


\* A step that ends with such a call keeps the invariant, if it hands nothing to the
\* native stream and its bytes, if any, were of the chunk that is done.
LEMMA FeedKeepsInv ==
  ASSUME Inv, ~errored,
         NEW last \in submitted .. MaxChunks,
         NEW how \in Outcomes \ {"discarded", "error"},
         Feed(last, how), submitted' = last,
         write_buffer' = None, drain_callback' = None,
         write_offset' \in Nat, corked' \in BOOLEAN, flushes' \in Nat,
         requested' \in Nat, queued' \in Nat, requested' + queued' <= TLength,
         ~Up => requested' = 0 /\ queued' = 0,
         sent' \in [Chunks -> Nat],
         \A c \in Chunks : sent'[c] <= Length[c],
         \A c \in Chunks : (c = begun /\ flight # "none") \/ sent'[c] = sent[c],
         flight # "none" => /\ how # "none"
                            /\ sent'[begun] > 0 => how \in {"drained", "flushed"}
                            /\ how = "drained" /\ ~Lost => sent'[begun] = Length[begun],
         UNCHANGED <<ended, finished, errored, connected, playing, pa_state, closing,
                     horizon, stopHorizon>>
  PROVE  Inv'
<1>1. /\ discard' = 0
      /\ begun' \in begun .. last
      /\ flight' \in {"none", "await", "resumed"}
      /\ flight' = "resumed" => connected
      /\ flight' = "none" => begun' = last
      /\ flight' # "none" => begun' > begun
      /\ outcome' \in [Chunks -> Outcomes]
  BY FeedEffect DEF Inv
<1>2. \A c \in Chunks :
        /\ outcome'[c] # "none" <=> c < begun' \/ (c = begun' /\ flight' = "none")
        /\ outcome'[c] = "discarded" => c <= horizon
        /\ \/ outcome'[c] = outcome[c]
           \/ c = begun /\ flight # "none" /\ outcome'[c] = how
           \/ c > begun /\ outcome'[c] = "discarded"
  BY FeedEffect DEF Inv
<1>3. /\ MaxChunks \in Nat /\ begun \in Nat /\ submitted \in Nat /\ last \in Nat
      /\ begun' \in Nat /\ begun <= submitted /\ submitted <= last /\ last <= MaxChunks
      /\ Chunks \subseteq Nat \ {0}
  BY <1>1, PlaybackAssumption DEF Inv, TypeOK, Chunks
<1>4. \A c \in Chunks : sent[c] \in Nat /\ sent'[c] \in Nat /\ Length[c] \in Nat
  BY PlaybackAssumption DEF Inv, TypeOK
<1>5. TypeOK'
  <2>1. /\ submitted' \in 0 .. MaxChunks /\ begun' \in 0 .. submitted'
        /\ discard' \in 0 .. MaxChunks
        /\ write_buffer' \in 0 .. MaxChunks /\ drain_callback' \in 0 .. MaxChunks
        /\ horizon' \in 0 .. submitted' /\ stopHorizon' \in 0 .. submitted'
        /\ requested' \in Int
    BY <1>1, <1>3 DEF Inv, TypeOK, None
  <2> QED
    BY <2>1, <1>1 DEF Inv, TypeOK, Outcomes
<1>6. WritableInv'
  BY <1>1, <1>3 DEF WritableInv
<1>7. ConnectionInv'
  BY <1>1 DEF Inv, ConnectionInv, Up
<1>8. UnsentInv'
  <2> SUFFICES ASSUME NEW c \in Chunks, sent'[c] > 0
               PROVE  c < begun' \/ (c = begun' /\ flight' \in {"none", "native"})
    BY DEF UnsentInv
  <2>1. CASE c = begun /\ flight # "none"
    BY <2>1, <1>1, <1>2, <1>3
  <2>2. CASE sent'[c] = sent[c]
    BY <2>2, <1>1, <1>2, <1>3 DEF Inv, UnsentInv, WritableInv
  <2> QED
    BY <2>1, <2>2
<1>9. OneHolder' /\ NoIdleCredit' /\ CreditRespected' /\ DiscardSparesNewChunks'
  BY <1>1, <1>2 DEF OneHolder, NoIdleCredit, CreditRespected, DiscardSparesNewChunks, Ready
<1>10. DoneInOrder'
  BY <1>2 DEF DoneInOrder
<1>11. InOrder'
  <2>1. ASSUME NEW c \in Chunks, sent'[c] > 0, NEW d \in 1 .. c - 1
        PROVE  outcome'[d] # "none"
    <3>1. d \in Chunks /\ d < c
      BY <2>1, <1>3 DEF Chunks
    <3>2. d < begun'
      BY <2>1, <3>1, <1>1, <1>3, <1>8 DEF UnsentInv
    <3> QED
      BY <3>1, <3>2, <1>2
  <2> QED
    BY <2>1 DEF InOrder
<1>12. HonestDone'
  <2> SUFFICES ASSUME NEW c \in Chunks
               PROVE  /\ outcome'[c] = "drained" /\ ~Lost => sent'[c] = Length[c]
                      /\ outcome'[c] \in {"discarded", "stopped", "error"} => sent'[c] = 0
    BY DEF HonestDone, Lost
  <2>1. CASE c = begun /\ flight # "none"
    <3>1. outcome[c] = "none"
      BY <2>1, <1>3 DEF Inv, DoneInOrder
    <3> QED
      BY <2>1, <3>1, <1>2, <1>3, <1>4 DEF Outcomes
  <2>2. CASE ~(c = begun /\ flight # "none") /\ outcome'[c] = outcome[c]
    BY <2>2 DEF Inv, HonestDone
  <2>3. CASE c > begun /\ outcome'[c] = "discarded"
    BY <2>3, <1>3, <1>4 DEF Inv, UnsentInv
  <2> QED
    BY <2>1, <2>2, <2>3, <1>2
<1> QED
  BY <1>5, <1>6, <1>7, <1>8, <1>9, <1>10, <1>11, <1>12 DEF Inv


\* request() on the chunk in flight keeps the invariant, whether the chunk is exhausted or
\* waits for the server to ask for more.
LEMMA RequestKeepsInv ==
  ASSUME Inv, flight \in {"resumed", "native"},
         NEW offset \in Nat, offset = sent[begun],
         NEW credit \in Nat, NEW backlog \in Nat,
         Up, Ready => credit + backlog <= TLength,
         ~Ready => credit = requested /\ backlog = queued,
         Request(begun, offset, begun, credit, backlog),
         flushes' \in Nat, corked' \in BOOLEAN,
         UNCHANGED <<submitted, ended, finished, errored, connected, playing, pa_state,
                     closing, horizon, stopHorizon>>
  PROVE  Inv'
<1> DEFINE length == WritableSize(begun, credit)
           chunk  == Chunk(begun, offset, length)
<1>1. /\ MaxChunks \in Nat /\ begun \in Nat \ {0} /\ submitted \in Nat /\ begun <= submitted
      /\ begun \in Chunks /\ submitted \in submitted .. MaxChunks /\ ~errored
      /\ Chunks \subseteq Nat \ {0} /\ submitted <= MaxChunks
  BY PlaybackAssumption DEF Inv, TypeOK, WritableInv, Chunks
<1>2. /\ \A c \in Chunks : sent[c] \in Nat /\ Length[c] \in Nat /\ sent[c] <= Length[c]
      /\ TLength \in Nat /\ requested \in Nat /\ queued \in Nat
      /\ requested + queued <= TLength
  BY PlaybackAssumption DEF Inv, TypeOK, InOrder, CreditRespected
<1>3. /\ length \in Nat /\ chunk \in Nat /\ chunk <= Length[begun] - offset
      /\ chunk <= length
      /\ Ready => length = credit
      /\ ~Ready => chunk < length
      /\ chunk < length => chunk = Length[begun] - offset
  BY <1>1, <1>2 DEF WritableSize, Chunk, Smaller
<1>4. /\ Deliver(begun, chunk, credit, backlog)
      /\ write_offset' = offset + chunk
      /\ \/ chunk < length /\ Drain(begun, "drained")
         \/ /\ ~(chunk < length)
            /\ write_buffer' = begun
            /\ drain_callback' = begun
            /\ flight' = "native"
            /\ UNCHANGED <<discard, begun, outcome>>
  BY DEF Request, Exhausted
<1>5. /\ Ready => /\ sent' = [sent EXCEPT ![begun] = @ + chunk]
                  /\ queued' = backlog + chunk /\ requested' = credit - chunk
      /\ ~Ready => sent' = sent /\ queued' = queued /\ requested' = requested
  <2>1. ASSUME ~Ready PROVE sent' = sent /\ queued' = queued /\ requested' = requested
    <3>1. sent' = [sent EXCEPT ![begun] = sent[begun] + 0]
      BY <2>1, <1>4 DEF Deliver
    <3>2. sent \in [Chunks -> Nat]
      BY DEF Inv, TypeOK
    <3> QED
      BY <2>1, <3>1, <3>2, <1>1, <1>2, <1>4 DEF Deliver
  <2> QED
    BY <2>1, <1>4 DEF Deliver
<1>6. /\ sent' \in [Chunks -> Nat]
      /\ \A c \in Chunks : c # begun => sent'[c] = sent[c]
      /\ sent'[begun] = IF Ready THEN offset + chunk ELSE offset
  BY <1>1, <1>2, <1>3, <1>5 DEF Inv, TypeOK
<1>7. /\ requested' \in Nat /\ queued' \in Nat /\ requested' + queued' <= TLength
      /\ write_offset' \in Nat
      /\ \A c \in Chunks : sent'[c] <= Length[c]
  BY <1>1, <1>2, <1>3, <1>4, <1>5, <1>6
<1>8. CASE chunk < length /\ Drain(begun, "drained")
  <2>1. /\ Feed(submitted, "drained")
        /\ write_buffer' = None /\ drain_callback' = None
    BY <1>8, <1>1 DEF Drain, None
  <2>2. ~Lost => sent'[begun] = Length[begun]
    BY <1>1, <1>2, <1>3, <1>6, <1>8 DEF Lost, Ready, Up, Inv, TypeOK
  <2> QED
    BY <2>1, <2>2, <1>1, <1>6, <1>7, FeedKeepsInv DEF Outcomes
<1>9. CASE /\ ~(chunk < length)
           /\ write_buffer' = begun
           /\ drain_callback' = begun
           /\ flight' = "native"
           /\ UNCHANGED <<discard, begun, outcome>>
  <2>1. Ready /\ chunk = length /\ requested' = 0
    BY <1>9, <1>2, <1>3, <1>5
  <2>2. TypeOK'
    BY <1>1, <1>6, <1>7, <1>9 DEF Inv, TypeOK
  <2>3. WritableInv' /\ ConnectionInv' /\ UnsentInv'
    BY <1>1, <1>6, <1>9, <2>1 DEF Inv, WritableInv, ConnectionInv, UnsentInv, Up
  <2>4. OneHolder' /\ NoIdleCredit' /\ CreditRespected' /\ DiscardSparesNewChunks'
    BY <1>1, <1>7, <1>9, <2>1
       DEF Inv, OneHolder, NoIdleCredit, CreditRespected, DiscardSparesNewChunks, None
  <2>5. DoneInOrder'
    BY <1>9 DEF Inv, DoneInOrder
  <2>6. InOrder'
    BY <1>1, <1>4, <1>6, <1>7, <1>9, <2>1, <2>3, <2>5, SMTT(30)
       DEF InOrder, UnsentInv, DoneInOrder, Chunks
  <2>7. HonestDone'
    BY <1>1, <1>6, <1>9 DEF Inv, HonestDone, DoneInOrder, Lost
  <2> QED
    BY <2>2, <2>3, <2>4, <2>5, <2>6, <2>7 DEF Inv
<1> QED
  BY <1>4, <1>8, <1>9


-------------------------------------------------------------------------------

\* The numbers the invariant relates, for the arithmetic of the steps.
LEMMA NumberFacts ==
  ASSUME Inv
  PROVE  /\ MaxChunks \in Nat /\ TLength \in Nat /\ submitted \in Nat /\ begun \in Nat
         /\ begun <= submitted /\ submitted <= MaxChunks /\ submitted \in submitted .. MaxChunks
         /\ requested \in Nat /\ queued \in Nat /\ requested + queued <= TLength
         /\ write_offset \in Nat /\ flushes \in Nat
         /\ sent \in [Chunks -> Nat]
         /\ \A c \in Chunks : /\ c \in Nat \ {0} /\ c <= MaxChunks
                              /\ Length[c] \in Nat /\ sent[c] <= Length[c]
BY PlaybackAssumption DEF Inv, TypeOK, CreditRespected, InOrder, Chunks

\* Write keeps the invariant, whether _write is busy or not.
LEMMA WriteKeepsInv == ASSUME Inv, Write PROVE Inv'
<1> USE NumberFacts
<1>1. CASE flight = "none" /\ Feed(submitted + 1, "none")
  <2>1. submitted + 1 \in submitted .. MaxChunks /\ "none" \in Outcomes \ {"discarded", "error"}
    BY DEF Write, Outcomes
  <2>2. write_buffer = None /\ drain_callback = None /\ ~errored
    BY <1>1 DEF Write, Inv, OneHolder
  <2> QED
    BY <1>1, <2>1, <2>2, FeedKeepsInv
       DEF Write, Inv, TypeOK, ConnectionInv, native, server
<1>2. CASE flight # "none" /\ UNCHANGED fed
  <2>1. TypeOK'
    BY <1>2 DEF Write, fed, Inv, TypeOK, native, server
  <2>2. WritableInv' /\ ConnectionInv' /\ UnsentInv'
    BY <1>2 DEF Write, fed, native, server, Inv, WritableInv, ConnectionInv, UnsentInv, Up
  <2>3. /\ OneHolder' /\ NoIdleCredit' /\ CreditRespected' /\ DiscardSparesNewChunks'
        /\ InOrder' /\ HonestDone' /\ DoneInOrder'
    BY <1>2 DEF Write, fed, native, server, Inv, OneHolder, NoIdleCredit, CreditRespected,
         DiscardSparesNewChunks, InOrder, HonestDone, DoneInOrder, Ready, Lost
  <2> QED
    BY <2>1, <2>2, <2>3 DEF Inv
<1> QED
  BY <1>1, <1>2 DEF Write

\* _write hands its chunk over: nothing of it was sent, and no flush is due.
LEMMA ResumeWriteKeepsInv == ASSUME Inv, ResumeWrite PROVE Inv'
<1> USE NumberFacts
<1>1. /\ write_buffer = None /\ begun \in Chunks /\ sent[begun] = 0 /\ Up
  BY DEF ResumeWrite, Inv, OneHolder, WritableInv, UnsentInv, ConnectionInv, Chunks
<1>2. ~MustFlush
  BY <1>1 DEF MustFlush
<1>3. /\ Request(begun, 0, begun, requested, queued)
      /\ flushes' \in Nat /\ corked' \in BOOLEAN
  BY <1>2 DEF ResumeWrite, NativeWrite, FlushesAfter, Inv, TypeOK
<1> QED
  BY <1>1, <1>3, RequestKeepsInv DEF ResumeWrite

\* The server asks for bytes.
LEMMA RequestCallbackKeepsInv == ASSUME Inv, RequestCallback PROVE Inv'
<1> USE NumberFacts
<1>1. PICK k \in 1 .. TLength - requested - queued :
        \/ /\ write_buffer = None
           /\ requested' = requested + k
           /\ UNCHANGED <<fed, sent, queued, native>>
        \/ /\ write_buffer # None
           /\ Request(write_buffer, write_offset, drain_callback, requested + k, queued)
  BY DEF RequestCallback
<1>2. /\ requested + k \in Nat /\ requested + k + queued <= TLength
      /\ Ready
      /\ UNCHANGED <<submitted, ended, finished, errored, connected, playing, pa_state,
                     corked, flushes, closing, horizon, stopHorizon>>
  BY DEF RequestCallback
<1>3. CASE write_buffer = None /\ requested' = requested + k
           /\ UNCHANGED <<fed, sent, queued, native>>
  <2>1. TypeOK'
    BY <1>2, <1>3 DEF Inv, TypeOK, fed, native
  <2>2. WritableInv' /\ ConnectionInv' /\ UnsentInv'
    BY <1>2, <1>3 DEF Inv, WritableInv, ConnectionInv, UnsentInv, Up, Ready, fed
  <2>3. NoIdleCredit' /\ CreditRespected'
    BY <1>2, <1>3 DEF NoIdleCredit, CreditRespected, native
  <2>4. OneHolder' /\ DiscardSparesNewChunks' /\ InOrder' /\ HonestDone' /\ DoneInOrder'
    BY <1>2, <1>3 DEF Inv, OneHolder, DiscardSparesNewChunks, InOrder, HonestDone, DoneInOrder,
         Lost, fed, native
  <2> QED
    BY <2>1, <2>2, <2>3, <2>4 DEF Inv
<1>4. CASE write_buffer # None
           /\ Request(write_buffer, write_offset, drain_callback, requested + k, queued)
  <2>1. /\ flight = "native" /\ write_buffer = begun /\ drain_callback = begun
        /\ write_offset = sent[begun] /\ Up
    BY <1>4 DEF Inv, OneHolder, InOrder, ConnectionInv
  <2>2. Request(begun, write_offset, begun, requested + k, queued)
    BY <1>4, <2>1
  <2>3. flushes' \in Nat /\ corked' \in BOOLEAN
    BY <1>2 DEF Inv, TypeOK
  <2> QED
    BY <1>2, <2>1, <2>2, <2>3, RequestKeepsInv
<1> QED
  BY <1>1, <1>3, <1>4

\* _write after its await, on a stopped stream.
LEMMA ResumeStoppedKeepsInv == ASSUME Inv, ResumeStopped PROVE Inv'
<1> USE NumberFacts
<1>1. /\ write_buffer = None /\ drain_callback = None /\ ~errored
      /\ begun \in Chunks /\ sent[begun] = 0
  BY DEF ResumeStopped, Inv, OneHolder, WritableInv, UnsentInv, Chunks
<1>2. /\ Feed(submitted, "stopped") /\ "stopped" \in Outcomes \ {"discarded", "error"}
      /\ UNCHANGED <<submitted, ended, finished, errored, connected, playing, pa_state,
                     native, server, sent, horizon, stopHorizon>>
  BY DEF ResumeStopped, Outcomes
<1> QED
  BY <1>1, <1>2, FeedKeepsInv DEF Inv, TypeOK, ConnectionInv, native, server

\* A flush is acknowledged.
LEMMA DrainCallbackKeepsInv == ASSUME Inv, DrainCallback PROVE Inv'
<1> USE NumberFacts
<1>1. /\ Ready /\ flushes' = flushes - 1 /\ flushes' \in Nat
      /\ Drain(drain_callback, "flushed")
      /\ UNCHANGED <<submitted, ended, finished, errored, connected, playing, pa_state,
                     write_offset, corked, requested, queued, closing, sent, horizon,
                     stopHorizon>>
  BY DEF DrainCallback
<1>2. CASE drain_callback = None /\ UNCHANGED fed
  <2>1. /\ write_buffer' = None /\ drain_callback' = None /\ flight # "native"
        /\ write_buffer = None
    BY <1>1, <1>2 DEF Drain, Inv, OneHolder, WritableInv, None
  <2>2. TypeOK'
    BY <1>1, <1>2, <2>1 DEF Inv, TypeOK, fed
  <2>3. WritableInv' /\ ConnectionInv' /\ UnsentInv'
    BY <1>1, <1>2 DEF Inv, WritableInv, ConnectionInv, UnsentInv, Up, fed
  <2>4. /\ OneHolder' /\ NoIdleCredit' /\ CreditRespected' /\ DiscardSparesNewChunks'
        /\ InOrder' /\ HonestDone' /\ DoneInOrder'
    BY <1>1, <1>2, <2>1 DEF Inv, OneHolder, NoIdleCredit, CreditRespected,
         DiscardSparesNewChunks, InOrder, HonestDone, DoneInOrder, Lost, fed
  <2> QED
    BY <2>2, <2>3, <2>4 DEF Inv
<1>3. CASE drain_callback # None /\ Feed(submitted, "flushed")
  <2>1. /\ write_buffer' = None /\ drain_callback' = None /\ ~errored
        /\ flight = "native"
    BY <1>1, <1>3 DEF Drain, Inv, OneHolder, WritableInv
  <2>2. "flushed" \in Outcomes \ {"discarded", "error"}
    BY DEF Outcomes
  <2> QED
    BY <1>1, <1>3, <2>1, <2>2, FeedKeepsInv DEF Inv, TypeOK, ConnectionInv
<1> QED
  BY <1>1, <1>2, <1>3 DEF Drain


\* _write after its await, when the connection has failed.
LEMMA ResumeRejectedKeepsInv == ASSUME Inv, ResumeRejected PROVE Inv'
<1> USE NumberFacts
<1>1. /\ flight = "rejected" /\ errored' = TRUE /\ flight' = "none" /\ begun' = submitted
      /\ outcome' = [c \in Chunks |-> IF begun <= c /\ c <= submitted THEN "error"
                                      ELSE outcome[c]]
      /\ UNCHANGED <<submitted, ended, finished, jsStream, pa_state, native, server,
                     sent, horizon, stopHorizon>>
  BY DEF ResumeRejected
<1>2. \A c \in Chunks :
        /\ c < begun => outcome'[c] = outcome[c] /\ outcome[c] # "none"
        /\ begun <= c /\ c <= submitted => outcome'[c] = "error" /\ sent[c] = 0
        /\ c > submitted => outcome'[c] = "none" /\ sent[c] = 0
  BY <1>1 DEF Inv, UnsentInv, DoneInOrder, TypeOK
<1>3. TypeOK'
  <2>1. outcome' \in [Chunks -> {"none", "drained", "flushed", "discarded", "stopped", "error"}]
    BY <1>1 DEF Inv, TypeOK
  <2> QED
    BY <1>1, <2>1 DEF Inv, TypeOK, jsStream, native, server
<1>4. WritableInv' /\ ConnectionInv' /\ UnsentInv'
  BY <1>1, <1>2 DEF Inv, WritableInv, ConnectionInv, UnsentInv, Up, jsStream, server
<1>5. OneHolder' /\ NoIdleCredit' /\ CreditRespected'
  BY <1>1 DEF Inv, OneHolder, NoIdleCredit, CreditRespected, Ready, native, server
<1>6. DiscardSparesNewChunks' /\ HonestDone'
  BY <1>1, <1>2 DEF Inv, DiscardSparesNewChunks, HonestDone, Lost, jsStream
<1>7. DoneInOrder'
  BY <1>1, <1>2 DEF DoneInOrder
<1>8. InOrder'
  <2>1. ASSUME NEW c \in Chunks, sent[c] > 0, NEW d \in 1 .. c - 1
        PROVE  outcome'[d] # "none"
    <3>1. d \in Chunks /\ outcome[d] # "none"
      BY <2>1 DEF Inv, InOrder, Chunks
    <3> QED
      BY <3>1, <1>2 DEF Inv, DoneInOrder
  <2> QED
    BY <1>1, <2>1 DEF Inv, InOrder, native
<1> QED
  BY <1>3, <1>4, <1>5, <1>6, <1>7, <1>8 DEF Inv

\* discard() and stop() take the number of the chunks that wait, which is what the counter
\* has to be for the discard to end at the last of them.
LEMMA DiscardKeepsInv ==
  ASSUME Inv, DiscardBuffered, playing' \in BOOLEAN, stopHorizon' \in 0 .. submitted
  PROVE  Inv'
<1> USE NumberFacts
<1>1. /\ discard' = submitted - begun /\ horizon' = submitted
      /\ flushes' \in Nat /\ queued' \in Nat /\ queued' <= queued
      /\ UNCHANGED <<writable, connected, pa_state, native, corked, requested, closing,
                     outcome, sent>>
  BY DEF DiscardBuffered, BufferedRequestCount, NativeFlush, FlushesAfter
<1>2. TypeOK'
  BY <1>1 DEF Inv, TypeOK, writable, native
<1>3. WritableInv' /\ ConnectionInv' /\ UnsentInv'
  BY <1>1 DEF Inv, WritableInv, ConnectionInv, UnsentInv, Up, writable
<1>4. OneHolder' /\ NoIdleCredit' /\ CreditRespected'
  BY <1>1 DEF Inv, OneHolder, NoIdleCredit, CreditRespected, Ready, writable, native
<1>5. DiscardSparesNewChunks'
  BY <1>1 DEF Inv, DoneInOrder, DiscardSparesNewChunks
<1>6. InOrder' /\ HonestDone' /\ DoneInOrder'
  BY <1>1 DEF Inv, InOrder, HonestDone, DoneInOrder, Lost, writable, native
<1> QED
  BY <1>2, <1>3, <1>4, <1>5, <1>6 DEF Inv

\* The steps of the connection, and those that touch no chunk.
LEMMA OtherStepsKeepInv ==
  ASSUME Inv,
         \/ End \/ Finish \/ Play \/ Connect \/ StateReady \/ StateFailed \/ ContextEnd
         \/ DisconnectReply \/ ServerPlay
  PROVE  Inv'
<1> USE NumberFacts
<1>1. /\ UNCHANGED <<submitted, begun, errored, discard, native, outcome, sent, horizon,
                     stopHorizon>>
      /\ ended' \in BOOLEAN /\ finished' \in BOOLEAN /\ playing' \in BOOLEAN
      /\ connected' \in BOOLEAN /\ corked' = corked /\ closing' \in BOOLEAN
      /\ pa_state' \in {"unconnected", "creating", "ready", "failed", "terminated"}
      /\ flushes' \in Nat
      /\ \/ flight' = flight
         \/ flight = "await" /\ flight' = "resumed" /\ pa_state' \in {"ready", "terminated"}
         \/ flight = "await" /\ flight' = "rejected"
  <2> USE DEF Inv, TypeOK, writable, jsStream, native, server, history
  <2>1. CASE End
    BY <2>1 DEF End
  <2>2. CASE Finish
    BY <2>2 DEF Finish, Disconnect
  <2>3. CASE Play
    BY <2>3 DEF Play
  <2>4. CASE Connect
    BY <2>4 DEF Connect, NativeConnect
  <2>5. CASE StateReady
    BY <2>5 DEF StateReady
  <2>6. CASE StateFailed
    BY <2>6 DEF StateFailed
  <2>7. CASE ContextEnd
    BY <2>7 DEF ContextEnd, Terminated
  <2>8. CASE DisconnectReply
    BY <2>8 DEF DisconnectReply, Terminated
  <2>9. CASE ServerPlay
    BY <2>9 DEF ServerPlay
  <2> QED
    BY <2>1, <2>2, <2>3, <2>4, <2>5, <2>6, <2>7, <2>8, <2>9
<1>2. /\ Up => Up' /\ requested' = requested
      /\ connected' => Up'
      /\ requested' \in Nat /\ queued' \in Nat /\ requested' + queued' <= TLength
      /\ ~Up' => requested' = 0 /\ queued' = 0
      /\ Ready' => Ready \/ ~Up
      /\ Lost => Lost'
  BY PlaybackAssumption
     DEF Inv, TypeOK, ConnectionInv, End, Finish, Play, Connect, NativeConnect, StateReady, StateFailed,
         ContextEnd, DisconnectReply, ServerPlay, Terminated, Disconnect, Up, Ready, Lost,
         writable, jsStream, native, server, history
<1>3. TypeOK'
  BY <1>1, <1>2 DEF Inv, TypeOK, native
<1>4. WritableInv' /\ ConnectionInv' /\ UnsentInv'
  BY <1>1, <1>2 DEF Inv, WritableInv, ConnectionInv, UnsentInv, Up
<1>5. OneHolder' /\ NoIdleCredit' /\ CreditRespected' /\ DiscardSparesNewChunks'
  BY <1>1, <1>2 DEF Inv, OneHolder, NoIdleCredit, CreditRespected, DiscardSparesNewChunks,
       ConnectionInv, native
<1>6. InOrder' /\ HonestDone' /\ DoneInOrder'
  BY <1>1, <1>2 DEF Inv, InOrder, HonestDone, DoneInOrder, native
<1> QED
  BY <1>3, <1>4, <1>5, <1>6 DEF Inv


-------------------------------------------------------------------------------

\* The invariant is inductive.
LEMMA NextKeepsInv == Inv /\ [Next]_vars => Inv'
<1> SUFFICES ASSUME Inv, [Next]_vars PROVE Inv'
  OBVIOUS
<1>1. CASE Write
  BY <1>1, WriteKeepsInv
<1>2. CASE Discard
  <2>1. DiscardBuffered /\ playing' \in BOOLEAN /\ stopHorizon' \in 0 .. submitted
    BY <1>2 DEF Discard, Inv, TypeOK
  <2> QED
    BY <2>1, DiscardKeepsInv
<1>3. CASE Stop
  <2>1. submitted \in 0 .. submitted
    BY DEF Inv, TypeOK
  <2>2. DiscardBuffered /\ playing' \in BOOLEAN /\ stopHorizon' \in 0 .. submitted
    BY <1>3, <2>1 DEF Stop
  <2> QED
    BY <2>2, DiscardKeepsInv
<1>4. CASE ResumeWrite
  BY <1>4, ResumeWriteKeepsInv
<1>5. CASE ResumeStopped
  BY <1>5, ResumeStoppedKeepsInv
<1>6. CASE ResumeRejected
  BY <1>6, ResumeRejectedKeepsInv
<1>7. CASE RequestCallback
  BY <1>7, RequestCallbackKeepsInv
<1>8. CASE DrainCallback
  BY <1>8, DrainCallbackKeepsInv
<1>9. CASE \/ End \/ Finish \/ Play \/ Connect \/ StateReady \/ StateFailed \/ ContextEnd
           \/ DisconnectReply \/ ServerPlay
  BY <1>9, OtherStepsKeepInv
<1>10. CASE UNCHANGED vars
  <2> USE DEF vars, writable, jsStream, native, server, history
  <2>1. TypeOK'
    BY <1>10 DEF Inv, TypeOK
  <2>2. WritableInv' /\ ConnectionInv' /\ UnsentInv'
    BY <1>10 DEF Inv, WritableInv, ConnectionInv, UnsentInv, Up
  <2>3. OneHolder' /\ NoIdleCredit' /\ CreditRespected' /\ DiscardSparesNewChunks'
    BY <1>10 DEF Inv, OneHolder, NoIdleCredit, CreditRespected, DiscardSparesNewChunks, Ready
  <2>4. InOrder' /\ HonestDone' /\ DoneInOrder'
    BY <1>10 DEF Inv, InOrder, HonestDone, DoneInOrder, Lost
  <2> QED
    BY <2>1, <2>2, <2>3, <2>4 DEF Inv
<1> QED
  BY <1>1, <1>2, <1>3, <1>4, <1>5, <1>6, <1>7, <1>8, <1>9, <1>10
     DEF Next, Application, Runtime, Continuation, Events

\* The inductive invariant holds in every behaviour of the stream.
THEOREM Invariance == Spec => []Inv
BY InitInv, NextKeepsInv, PTL DEF Spec

\* The counters and fields of pulse.js, stream.cc and libpulse keep their types.
THEOREM TypeCorrect == Spec => []TypeOK
<1>1. Inv => TypeOK
  BY DEF Inv
<1> QED
  BY <1>1, Invariance, PTL

\* The native stream never loses or overwrites a `done`.
THEOREM NoDoneLost == Spec => []OneHolder
<1>1. Inv => OneHolder
  BY DEF Inv
<1> QED
  BY <1>1, Invariance, PTL

\* It never sits on bytes the server asked for while it has some to send.
THEOREM NoCreditIdle == Spec => []NoIdleCredit
<1>1. Inv => NoIdleCredit
  BY DEF Inv
<1> QED
  BY <1>1, Invariance, PTL

\* It never writes more than the server asked for: what is queued and what has been
\* requested fit the server's buffer (request's clamp of write_length).
THEOREM CreditKept == Spec => []CreditRespected
<1>1. Inv => CreditRespected
  BY DEF Inv
<1> QED
  BY <1>1, Invariance, PTL

\* discard() and stop() drop no chunk that is written after them.
THEOREM DiscardExact == Spec => []DiscardSparesNewChunks
<1>1. Inv => DiscardSparesNewChunks
  BY DEF Inv
<1> QED
  BY <1>1, Invariance, PTL

\* Bytes reach the server in the order of write(), none twice and none skipped.
THEOREM BytesInOrder == Spec => []InOrder
<1>1. Inv => InOrder
  BY DEF Inv
<1> QED
  BY <1>1, Invariance, PTL

\* `done` tells the truth: a chunk reported as drained has been sent to its last byte, or
\* the stream was lost; one reported as discarded, stopped or failed was never begun.
THEOREM DoneTruthful == Spec => []HonestDone
<1>1. Inv => HonestDone
  BY DEF Inv
<1> QED
  BY <1>1, Invariance, PTL

\* `done` is called in the order of write().
THEOREM DoneOrdered == Spec => []DoneInOrder
<1>1. Inv => DoneInOrder
  BY DEF Inv
<1> QED
  BY <1>1, Invariance, PTL


-------------------------------------------------------------------------------
(* Steps *)

\* The chunk in flight is the only one whose bytes a call of request() can send.
LEMMA RequestSends ==
  ASSUME Inv, NEW c \in Chunks, NEW offset \in 0 .. Length[c], NEW callback,
         NEW credit \in Nat, NEW backlog, Request(c, offset, callback, credit, backlog)
  PROVE  /\ sent' \in [Chunks -> Nat]
         /\ sent'[c] >= sent[c]
         /\ \A d \in Chunks \ {c} : sent'[d] = sent[d]
<1> USE NumberFacts
<1>1. PICK n \in Nat : sent' = [sent EXCEPT ![c] = @ + n]
  <2>1. PICK length \in Nat : Deliver(c, Chunk(c, offset, length), credit, backlog)
    BY DEF Request, WritableSize
  <2>2. Chunk(c, offset, length) \in Nat
    BY <2>1 DEF Chunk, Smaller
  <2> QED
    BY <2>1, <2>2 DEF Deliver
<1> QED
  BY <1>1

\* A stopped stream sends nothing but of the chunk the native stream holds.
LEMMA StoppedStep ==
  Inv /\ [Next]_vars =>
    (~playing => \A c \in Chunks : sent'[c] # sent[c] => c = write_buffer)
<1> SUFFICES ASSUME Inv, [Next]_vars, ~playing, NEW c \in Chunks, sent'[c] # sent[c]
             PROVE  c = write_buffer
  OBVIOUS
<1>1. ~ResumeWrite
  BY DEF ResumeWrite
<1>2. CASE RequestCallback
  <2>1. PICK k \in 1 .. TLength - requested - queued :
          Request(write_buffer, write_offset, drain_callback, requested + k, queued)
          /\ write_buffer # None
    BY <1>2 DEF RequestCallback
  <2>2. /\ write_buffer \in Chunks /\ write_offset \in 0 .. Length[write_buffer]
        /\ requested + k \in Nat
    <3>1. write_buffer \in Chunks
      BY <2>1, NumberFacts DEF Inv, TypeOK, Chunks, None
    <3> QED
      BY <2>1, <3>1, NumberFacts DEF Inv, InOrder
  <2> QED
    BY <2>1, <2>2, RequestSends
<1>3. CASE UNCHANGED sent
  BY <1>3
<1> QED
  BY <1>1, <1>2, <1>3
     DEF Next, Application, Runtime, Continuation, Events, Write, Discard, Stop,
         DiscardBuffered, End, Finish, Play, Connect, StateReady, StateFailed, ContextEnd,
         DisconnectReply, Terminated, ServerPlay, DrainCallback, ResumeStopped,
         ResumeRejected, history, vars

\* While the stream is stopped, no chunk starts to play.
THEOREM NoStartWhileStopped == Spec => NothingStartsStopped
<1>1. Inv /\ [Next]_vars
      => [~playing => \A c \in Chunks : sent'[c] # sent[c] => c = write_buffer]_vars
  BY StoppedStep
<1> QED
  BY <1>1, Invariance, PTL DEF Spec, NothingStartsStopped

-------------------------------------------------------------------------------
(* PlaybackStream implements ChunkSink *)

\* Both specifications speak of the same chunks.
LEMMA SinkChunks == Sink!Chunks = Chunks
BY DEF Sink!Chunks, Chunks

\* The initial states of PlaybackStream are initial states of the sink.
LEMMA SinkInit == Init => Sink!Init
BY SinkChunks DEF Init, Sink!Init, Settled

\* Counting one of several down.
LEMMA ShiftedInterval ==
  \A a, b, c \in Int : a >= b /\ a <= c => a - 1 \in b - 1 .. c
OBVIOUS

\* A step that sends bytes of the chunk in flight at most, and does not go back, is
\* progress of the sink.
LEMMA ProgressStep ==
  ASSUME Inv, Inv', flight # "none", begun' >= begun,
         UNCHANGED <<submitted, ended, finished>>,
         sent'[begun] >= sent[begun],
         \A d \in Chunks \ {begun} : sent'[d] = sent[d]
  PROVE  Sink!Progress
<1>1. /\ begun \in Nat \ {0} /\ begun \in Chunks /\ submitted \in Nat /\ begun <= submitted
      /\ Settled = begun - 1 /\ Settled + 1 = begun
      /\ sent \in [Chunks -> Nat]
  BY NumberFacts DEF Inv, WritableInv, Settled, Chunks
<1>2. /\ begun' \in Nat /\ begun' <= submitted /\ sent' \in [Chunks -> Nat]
      /\ sent'[begun] <= Length[begun] /\ Length[begun] \in Nat
      /\ flight' # "none" => begun' >= 1
  BY <1>1, PlaybackAssumption DEF Inv, TypeOK, InOrder, WritableInv
<1>3. Settled' \in Settled .. submitted
  <2>1. Settled' = IF flight' = "none" THEN begun' ELSE begun' - 1
    BY DEF Settled
  <2>2. CASE flight' = "none"
    BY <1>1, <1>2, <2>1, <2>2
  <2>3. CASE flight' # "none"
    <3>1. begun \in Int /\ begun' \in Int /\ submitted \in Int /\ begun' <= submitted
      BY <1>1, <1>2
    <3>2. begun' - 1 \in begun - 1 .. submitted
      BY <3>1, ShiftedInterval
    <3>3. Settled' = begun' - 1 /\ Settled = begun - 1
      BY <1>1, <2>1, <2>3
    <3> QED
      BY <3>2, <3>3
  <2> QED
    BY <2>2, <2>3
<1>4. sent'[begun] \in sent[begun] .. Length[begun]
  BY <1>1, <1>2
<1>5. sent' = [sent EXCEPT ![begun] = sent'[begun]]
  BY <1>1, <1>2
<1>6. Sink!Receive
  BY <1>1, <1>4, <1>5 DEF Sink!Receive
<1> QED
  BY <1>1, <1>3, <1>6 DEF Sink!Progress


\* A step of PlaybackStream is a step of the sink, or none.
LEMMA StepRefines == Inv /\ Inv' /\ [Next]_vars => [Sink!Next]_(Sink!vars)
<1> SUFFICES ASSUME Inv, Inv', [Next]_vars PROVE [Sink!Next]_(Sink!vars)
  OBVIOUS
<1> USE NumberFacts
<1>1. ASSUME NEW last \in submitted .. MaxChunks, NEW how, Feed(last, how)
      PROVE  begun' >= begun
  BY <1>1 DEF Feed, Smaller, Inv, TypeOK
<1>2. CASE Write
  <2>1. CASE flight # "none" /\ UNCHANGED fed
    <3>1. Settled' = Settled
      BY <2>1 DEF Settled, fed
    <3>2. Sink!Accept
      BY <1>2, <3>1 DEF Write, Sink!Accept
    <3> QED
      BY <3>2 DEF Sink!Next
  <2>2. CASE flight = "none" /\ Feed(submitted + 1, "none")
    <3>1. begun = submitted /\ discard = 0
      BY <1>2, <2>2 DEF Write, Inv, WritableInv, TypeOK
    <3>2. begun' = submitted + 1 /\ flight' # "none"
      BY <2>2, <3>1 DEF Feed, Smaller, WaitConnection
    <3>3. Settled' = Settled
      BY <2>2, <3>1, <3>2 DEF Settled
    <3>4. Sink!Accept
      BY <1>2, <3>3 DEF Write, Sink!Accept
    <3> QED
      BY <3>4 DEF Sink!Next
  <2> QED
    BY <1>2, <2>1, <2>2 DEF Write
<1>3. CASE End
  BY <1>3 DEF End, Sink!Next, Sink!Close, Settled, history
<1>4. CASE Finish
  <2>1. Settled' = Settled /\ Settled = submitted
    BY <1>4 DEF Finish, FinishDue, Settled
  <2> QED
    BY <1>4, <2>1 DEF Finish, FinishDue, Sink!Next, Sink!Finish, history
<1>5. CASE ResumeWrite
  <2>1. /\ flight # "none" /\ begun \in Chunks
        /\ Request(begun, 0, begun, requested, IF MustFlush THEN 0 ELSE queued)
        /\ UNCHANGED <<submitted, ended, finished>>
    BY <1>5 DEF ResumeWrite, NativeWrite, Inv, WritableInv, Chunks
  <2>2. sent'[begun] >= sent[begun] /\ \A d \in Chunks \ {begun} : sent'[d] = sent[d]
    <3>1. 0 \in 0 .. Length[begun] /\ requested \in Nat
      BY <2>1
    <3> QED
      BY <2>1, <3>1, RequestSends
  <2>3. begun' >= begun
    BY <1>1, <2>1 DEF Request, Drain, fed
  <2> QED
    BY <2>1, <2>2, <2>3, ProgressStep DEF Sink!Next
<1>6. CASE ResumeStopped
  <2>1. /\ flight # "none" /\ Feed(submitted, "stopped")
        /\ UNCHANGED <<submitted, ended, finished, sent>>
    BY <1>6 DEF ResumeStopped
  <2>2. sent'[begun] >= sent[begun] /\ \A d \in Chunks \ {begun} : sent'[d] = sent[d]
    BY <2>1 DEF Inv, WritableInv, Chunks
  <2> QED
    BY <1>1, <2>1, <2>2, ProgressStep DEF Sink!Next
<1>7. CASE ResumeRejected
  <2>1. /\ flight # "none" /\ begun' = submitted
        /\ UNCHANGED <<submitted, ended, finished, sent>>
    BY <1>7 DEF ResumeRejected
  <2>2. sent'[begun] >= sent[begun] /\ \A d \in Chunks \ {begun} : sent'[d] = sent[d]
    BY <2>1 DEF Inv, WritableInv, Chunks
  <2>3. begun' >= begun
    BY <2>1
  <2> QED
    BY <2>1, <2>2, <2>3, ProgressStep DEF Sink!Next
<1>8. CASE RequestCallback
  <2>1. UNCHANGED <<submitted, ended, finished>>
    BY <1>8 DEF RequestCallback
  <2>2. CASE write_buffer = None /\ UNCHANGED <<fed, sent>>
    BY <2>1, <2>2 DEF Sink!vars, Settled, fed
  <2>3. CASE write_buffer # None
    <3>1. /\ flight = "native" /\ write_buffer = begun /\ begun \in Chunks
          /\ write_offset = sent[begun]
      BY <2>3 DEF Inv, OneHolder, WritableInv, InOrder, Chunks
    <3>2. PICK k \in 1 .. TLength - requested - queued :
            Request(begun, write_offset, drain_callback, requested + k, queued)
      BY <1>8, <2>3, <3>1 DEF RequestCallback
    <3>3. requested + k \in Nat /\ write_offset \in 0 .. Length[begun]
      BY <3>1
    <3>4. sent'[begun] >= sent[begun] /\ \A d \in Chunks \ {begun} : sent'[d] = sent[d]
      BY <3>1, <3>2, <3>3, RequestSends
    <3>5. begun' >= begun
      BY <1>1, <3>2 DEF Request, Drain, fed
    <3> QED
      BY <2>1, <3>1, <3>4, <3>5, ProgressStep DEF Sink!Next
  <2> QED
    BY <1>8, <2>2, <2>3 DEF RequestCallback
<1>9. CASE DrainCallback
  <2>1. UNCHANGED <<submitted, ended, finished, sent>> /\ Drain(drain_callback, "flushed")
    BY <1>9 DEF DrainCallback
  <2>2. CASE UNCHANGED fed
    BY <2>1, <2>2 DEF Sink!vars, Settled, fed
  <2>3. CASE drain_callback # None /\ Feed(submitted, "flushed")
    <3>1. flight # "none" /\ begun \in Chunks
      BY <2>3 DEF Inv, OneHolder, WritableInv, Chunks
    <3> QED
      BY <1>1, <2>1, <2>3, <3>1, ProgressStep DEF Sink!Next
  <2> QED
    BY <2>1, <2>2, <2>3 DEF Drain
<1>10. CASE \/ Discard \/ Stop \/ Play \/ Connect \/ StateReady \/ StateFailed \/ ContextEnd
            \/ DisconnectReply \/ ServerPlay \/ UNCHANGED vars
  <2>1. UNCHANGED <<submitted, begun, sent, ended, finished>>
        /\ (flight = "none" <=> flight' = "none")
    BY <1>10 DEF Discard, Stop, DiscardBuffered, Play, Connect, StateReady, StateFailed,
         ContextEnd, DisconnectReply, Terminated, ServerPlay, writable, history, vars
  <2> QED
    BY <2>1 DEF Sink!vars, Settled
<1> QED
  BY <1>2, <1>3, <1>4, <1>5, <1>6, <1>7, <1>8, <1>9, <1>10
     DEF Next, Application, Runtime, Continuation, Events

\* The playback stream implements the chunk sink, whatever the connection does.
THEOREM Refinement == Spec => ImplementsSink
BY SinkInit, StepRefines, Invariance, PTL DEF Spec, ImplementsSink, Sink!Spec

===============================================================================
