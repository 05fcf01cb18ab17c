----------------------------- MODULE MCUvMainloop -----------------------------
(* Values of the constants of UvMainloop for TLC. *)
EXTENDS UvMainloop

\* One event of each kind.
OneIo == {"io"}
OneTimer == {"timer"}
OneDefer == {"defer"}
NoEvent == {}

===============================================================================
