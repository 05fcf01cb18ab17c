------------------------------ MODULE ChunkSink ------------------------------
(***************************************************************************)
(* What a PlaybackStream promises the program that writes to it, whatever  *)
(* the connection, the server and the calls of stop() and discard() do:    *)
(* chunks are settled (played, dropped or failed, and reported through the *)
(* callback of write()) one after another in the order they were written;  *)
(* the server receives bytes of the oldest unsettled chunk only, in order  *)
(* and each at most once; and the stream finishes when it has been ended   *)
(* and everything is settled.                                              *)
(***************************************************************************)
EXTENDS Integers

CONSTANTS MaxChunks, Length

Chunks == 1 .. MaxChunks

VARIABLES
  accepted,   \* how many chunks have been written
  settled,    \* how many of them have been reported as done or failed
  received,   \* how many bytes of each chunk the server has received
  closed,     \* end() has been called
  finished    \* 'finish' has been emitted

vars == <<accepted, settled, received, closed, finished>>

Init ==
  /\ accepted = 0 /\ settled = 0
  /\ received = [c \in Chunks |-> 0]
  /\ closed = FALSE /\ finished = FALSE

Accept ==
  /\ ~closed /\ accepted < MaxChunks
  /\ accepted' = accepted + 1
  /\ UNCHANGED <<settled, received, closed, finished>>

\* The server receives the next bytes of the oldest unsettled chunk.
Receive ==
  /\ settled < accepted
  /\ \E n \in received[settled + 1] .. Length[settled + 1] :
       received' = [received EXCEPT ![settled + 1] = n]

\* Any number of chunks are settled, the oldest first, perhaps after its last bytes.
Progress ==
  /\ settled < accepted
  /\ settled' \in settled .. accepted
  /\ Receive
  /\ UNCHANGED <<accepted, closed, finished>>

Close ==
  /\ ~closed
  /\ closed' = TRUE
  /\ UNCHANGED <<accepted, settled, received, finished>>

Finish ==
  /\ closed /\ ~finished /\ settled = accepted
  /\ finished' = TRUE
  /\ UNCHANGED <<accepted, settled, received, closed>>

Next == Accept \/ Progress \/ Close \/ Finish

Spec == Init /\ [][Next]_vars

==============================================================================
