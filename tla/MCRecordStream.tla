---------------------------- MODULE MCRecordStream ----------------------------
(* RecordStream for TLC, which needs nothing but a value for MaxFragments. *)
EXTENDS RecordStream

===============================================================================
