------------------------------ MODULE MainloopApi ------------------------------
(***************************************************************************)
(* What libpulse may rely on when it is given a pa_mainloop_api: an event  *)
(* calls back only while it exists and only for what has been asked of it  *)
(* last; callbacks do not nest; the destroy callback of an event is called *)
(* once, when it is freed, if there is one by then.                        *)
(***************************************************************************)

CONSTANTS
  Events,   \* the events libpulse may make
  Flags,    \* what an event may be asked for and may be called for
  Timers,   \* those that are to be called once each time they are asked
  Idle      \* what `running` is when no callback runs

VARIABLES
  state,     \* of each event: "none", "live", "freed"
  wants,     \* what is asked of each event
  watched,   \* the events with a destroy callback
  destroyed, \* those whose destroy callback has been called
  running,   \* the event whose callback runs
  given      \* what that callback was told

vars == <<state, wants, watched, destroyed, running, given>>

Live(e) == state[e] = "live"

Init ==
  /\ state = [e \in Events |-> "none"]
  /\ wants = [e \in Events |-> {}]
  /\ watched = {} /\ destroyed = {}
  /\ running = Idle /\ given = {}

\* What is asked of the other events stays.
AskedOf(e) ==
  /\ wants' \in [Events -> SUBSET Flags]
  /\ \A d \in Events \ {e} : wants'[d] = wants[d]

Make(e) ==
  /\ state[e] = "none"
  /\ state' = [state EXCEPT ![e] = "live"]
  /\ AskedOf(e)
  /\ UNCHANGED <<watched, destroyed, running, given>>

Ask(e) ==
  /\ Live(e)
  /\ AskedOf(e)
  /\ UNCHANGED <<state, watched, destroyed, running, given>>

Watch(e) ==
  /\ Live(e)
  /\ watched' = watched \cup {e}
  /\ UNCHANGED <<state, wants, destroyed, running, given>>

Free(e) ==
  /\ Live(e)
  /\ state' = [state EXCEPT ![e] = "freed"]
  /\ wants' = [wants EXCEPT ![e] = {}]
  /\ destroyed' = destroyed \cup ({e} \cap watched)
  /\ UNCHANGED <<watched, running, given>>

Call(e) ==
  /\ running = Idle /\ running' = e
  /\ Live(e)
  /\ given' \in (SUBSET wants[e]) \ {{}}
  /\ wants' = IF e \in Timers THEN [wants EXCEPT ![e] = {}] ELSE wants
  /\ UNCHANGED <<state, watched, destroyed>>

Return ==
  /\ running # Idle
  /\ running' = Idle /\ given' = {}
  /\ UNCHANGED <<state, wants, watched, destroyed>>

Next == Return \/ \E e \in Events : Make(e) \/ Ask(e) \/ Watch(e) \/ Free(e) \/ Call(e)

Spec == Init /\ [][Next]_vars

===============================================================================
