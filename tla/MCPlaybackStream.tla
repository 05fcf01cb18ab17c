--------------------------- MODULE MCPlaybackStream ---------------------------
(* Values of the constants of PlaybackStream for TLC. *)
EXTENDS PlaybackStream

\* A chunk longer than the server's buffer, an empty one and one that fills it.
MixedLengths == <<3, 0, 2>>

\* Two chunks that do not fit the server's buffer.
LongLengths == <<3, 3>>

===============================================================================
