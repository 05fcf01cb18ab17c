-------------------------------- MODULE MCClient --------------------------------
(* Client for TLC, which needs nothing but a value for MaxCalls. *)
EXTENDS Client

===============================================================================
