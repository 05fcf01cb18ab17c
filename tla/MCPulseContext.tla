---------------------------- MODULE MCPulseContext ----------------------------
(* PulseContext for TLC, which needs nothing but a value for MaxCalls. *)
EXTENDS PulseContext

===============================================================================
