------------------------------- MODULE UvMainloop -------------------------------
(***************************************************************************)
(* The pa_mainloop_api of src/uv-mainloop.cc: libpulse's io, time and      *)
(* defer events over libuv's poll, timer and idle handles.  libpulse makes, *)
(* changes and frees events whenever it runs, which is inside their        *)
(* callbacks and inside calls of the application; libuv calls one handle   *)
(* at a time.                                                              *)
(*                                                                         *)
(* An event keeps flags (ev, en) that shadow what its handle does (poll,   *)
(* idle).  Time passes in ticks; libuv counts milliseconds and looks at    *)
(* the clock once a turn (loopTime).                                       *)
(***************************************************************************)
EXTENDS Integers

CONSTANTS
  Io, Timers, Defers,   \* the events libpulse may make, by kind
  Watchable,            \* those it may set a destroy callback for
  TicksPerMs,
  MaxNow,               \* bound: how many ticks pass
  Width                 \* bits of libuv's times

Events == Io \cup Timers \cup Defers
Idle   == "idle"
Off    == -1
Missed == -2
Ahead  == 0 .. MaxNow   \* deadlines libpulse asks for

ASSUME MainloopAssumption ==
  /\ Io \cap Timers = {} /\ Io \cap Defers = {} /\ Timers \cap Defers = {}
  /\ Watchable \subseteq Events /\ Idle \notin Events
  /\ TicksPerMs \in Nat \ {0} /\ MaxNow \in Nat /\ Width \in Nat \ {0}
  /\ 2 * MaxNow < 2 ^ Width

VARIABLES
  \* the events
  state,     \* "none", "live", "freed"
  watched,   \* those with a destroy callback
  destroyed, \* those whose destroy callback has been called
  ev,        \* of an io event: what libpulse asks for
  en,        \* the defer events that are enabled
  \* libuv's handles
  poll,      \* what each io event is polled for
  due,       \* when each timer is due in milliseconds, or Off
  idle,      \* the active idle handles
  loopTime,  \* the loop's time in milliseconds
  \* the system
  now,       \* the time in ticks
  readable,  \* the sockets with something to read; one can always write
  reset,     \* the sockets whose peer has reset the connection
  \* the callback that runs and what it was told
  running, given,
  \* history: the deadline each timer waits for, if it was ahead, and the tick at which
  \* it comes when the loop's time is taken for the time
  deadline, earliest

events  == <<state, watched, destroyed>>
flags   == <<ev, en>>
system  == <<now, readable, reset>>
call    == <<running, given>>
timing  == <<due, deadline, earliest>>
vars == <<events, flags, poll, idle, loopTime, system, call, timing>>

Live(e) == state[e] = "live"

Init ==
  /\ state = [e \in Events |-> "none"] /\ watched = {} /\ destroyed = {}
  /\ ev = [e \in Io |-> {}] /\ en = {}
  /\ poll = [e \in Io |-> {}] /\ idle = {} /\ loopTime = 0
  /\ now = 0 /\ readable = {} /\ reset = {}
  /\ running = Idle /\ given = {}
  /\ due = [e \in Timers |-> Off] /\ deadline = [e \in Timers |-> Off]
  /\ earliest = [e \in Timers |-> Off]

\* *_new: the event has no destroy callback yet.
Made(e) ==
  /\ state[e] = "none"
  /\ state' = [state EXCEPT ![e] = "live"]
  /\ UNCHANGED <<watched, destroyed>>

\* *_free: after stopping the handle, the destroy callback is called.  Neither the event
\* nor the handle is given back.
Freed(e) ==
  /\ Live(e)
  /\ state' = [state EXCEPT ![e] = "freed"]
  /\ destroyed' = destroyed \cup ({e} \cap watched)
  /\ UNCHANGED watched

\* io_set_destroy, time_set_destroy and defer_set_destroy.
SetDestroy(e) ==
  /\ Live(e) /\ e \in Watchable
  /\ watched' = watched \cup {e}
  /\ UNCHANGED <<state, destroyed, flags, poll, idle, loopTime, system, call, timing>>

-------------------------------------------------------------------------------
(* io *)

\* What libpulse's iochannel asks for: never for hangups or errors.
Asked == SUBSET {"input", "output"}

\* io_events.
Polled(wanted) ==
  {f \in {"readable", "writable"} : \/ f = "readable" /\ "input" \in wanted
                                    \/ f = "writable" /\ "output" \in wanted}

IoNew(e, wanted) ==
  /\ Made(e)
  /\ ev' = [ev EXCEPT ![e] = wanted]
  /\ poll' = [poll EXCEPT ![e] = Polled(wanted)]
  /\ UNCHANGED <<en, idle, loopTime, system, call, timing>>

\* Mutant: the handle is stopped and not started again.
RestartPollNever(e, wanted) == poll' = [poll EXCEPT ![e] = {}]

\* uv_poll_stop and uv_poll_start.
RestartPoll(e, wanted) == poll' = [poll EXCEPT ![e] = Polled(wanted)]

\* io_enable: nothing is done if the flags are what they were.
IoEnable(e, wanted) ==
  /\ Live(e) /\ ev[e] # wanted
  /\ RestartPoll(e, wanted)
  /\ ev' = [ev EXCEPT ![e] = wanted]
  /\ UNCHANGED <<events, en, idle, loopTime, system, call, timing>>

\* libpulse closes the socket when it has freed the event.
IoFree(e) ==
  /\ Freed(e)
  /\ poll' = [poll EXCEPT ![e] = {}]
  /\ readable' = readable \ {e} /\ reset' = reset \ {e}
  /\ UNCHANGED <<flags, idle, loopTime, now, call, timing>>

\* Mutant: libuv's events are passed on as they are.
PassedRaw(e, status, got) == got

\* What io_cb passes on, given libuv's status and events.
Passed(e, status, got) ==
  {f \in ev[e] : \/ status = "ok" /\ f = "input" /\ "readable" \in got
                 \/ status = "ok" /\ f = "output" /\ "writable" \in got
                 \/ status \in {"EOF", "EPIPE", "ESPIPE", "SHUTDOWN", "ETIMEDOUT"} /\ f = "hangup"
                 \/ status # "ok" /\ f = "error"}

\* libpulse is called if there is something to tell; it reads all there is.
IoCb(e, status, got) ==
  LET told == Passed(e, status, got)
  IN  /\ running' = IF told = {} THEN running ELSE e
      /\ given' = told
      /\ readable' = IF "input" \in told THEN readable \ {e} ELSE readable
      /\ UNCHANGED <<events, flags, idle, loopTime, now, reset, timing>>

ReadyFor(e) == {"writable"} \cup {f \in {"readable"} : e \in readable}

\* libuv finds a socket ready, ...
PollReady(e) ==
  /\ running = Idle /\ e \notin reset /\ poll[e] \cap ReadyFor(e) # {}
  /\ IoCb(e, "ok", poll[e] \cap ReadyFor(e))
  /\ UNCHANGED poll

\* ... or in error, of which it stops the handle and tells the callback.
PollError(e) ==
  /\ running = Idle /\ e \in reset /\ poll[e] # {}
  /\ poll' = [poll EXCEPT ![e] = {}]
  /\ IoCb(e, "EBADF", {})

-------------------------------------------------------------------------------
(* time *)

\* timeval_to_millisec: the difference to the clock, rounded down, in unsigned arithmetic:
\* a deadline that has passed gives a time of centuries.
Timeout(tv) == ((tv - now) \div TicksPerMs) % 2 ^ Width

\* uv_timer_start.
Clamped(time) == IF time >= 2 ^ Width THEN 2 ^ Width - 1 ELSE time

\* For the properties.
Expect(e, tv) ==
  /\ deadline' = [deadline EXCEPT ![e] = IF tv < now THEN Missed ELSE tv]
  /\ earliest' = [earliest EXCEPT ![e] = tv - now + loopTime * TicksPerMs]

\* time_new and time_restart; the latter leaves the time that the callback is given as it
\* was, at which libpulse does not look.
Started(e, tv) ==
  /\ due' = [due EXCEPT ![e] = Clamped(loopTime + Timeout(tv))]
  /\ Expect(e, tv)

Stopped(e) ==
  /\ due' = [due EXCEPT ![e] = Off]
  /\ deadline' = [deadline EXCEPT ![e] = Off]
  /\ earliest' = [earliest EXCEPT ![e] = Off]

TimeNew(e, tv) ==
  /\ Made(e)
  /\ Started(e, tv)
  /\ UNCHANGED <<flags, poll, idle, loopTime, system, call>>

\* Mutants: a timer that runs is left alone; one that has fired is not started again.
TimeRestartKeeps(e, tv) ==
  /\ Live(e)
  /\ \/ due[e] = Off /\ Started(e, tv)
     \/ due[e] # Off /\ Expect(e, tv) /\ UNCHANGED due
  /\ UNCHANGED <<events, flags, poll, idle, loopTime, system, call>>

TimeRestartActive(e, tv) ==
  /\ Live(e)
  /\ \/ due[e] # Off /\ Started(e, tv)
     \/ due[e] = Off /\ Expect(e, tv) /\ UNCHANGED due
  /\ UNCHANGED <<events, flags, poll, idle, loopTime, system, call>>

TimeRestart(e, tv) ==
  /\ Live(e)
  /\ Started(e, tv)
  /\ UNCHANGED <<events, flags, poll, idle, loopTime, system, call>>

TimeFree(e) ==
  /\ Freed(e)
  /\ Stopped(e)
  /\ UNCHANGED <<flags, poll, idle, loopTime, system, call>>

\* libuv's timer is due: it fires once.
TimerCb(e) ==
  /\ running = Idle /\ due[e] # Off /\ due[e] <= loopTime
  /\ Stopped(e)
  /\ running' = e /\ given' = {"time"}
  /\ UNCHANGED <<events, flags, poll, idle, loopTime, system>>

-------------------------------------------------------------------------------
(* defer *)

DeferNew(e) ==
  /\ Made(e)
  /\ en' = en \cup {e} /\ idle' = idle \cup {e}
  /\ UNCHANGED <<ev, poll, loopTime, system, call, timing>>

\* Mutant: the flag is forgotten.
DeferEnableUnset(e, on) ==
  /\ Live(e)
  /\ idle' = IF on /\ e \notin en THEN idle \cup {e}
             ELSE IF ~on /\ e \in en THEN idle \ {e} ELSE idle
  /\ UNCHANGED <<events, flags, poll, loopTime, system, call, timing>>

\* defer_enable: the handle is started and stopped when the flag changes.
DeferEnable(e, on) ==
  /\ Live(e)
  /\ idle' = IF on /\ e \notin en THEN idle \cup {e}
             ELSE IF ~on /\ e \in en THEN idle \ {e} ELSE idle
  /\ en' = IF on THEN en \cup {e} ELSE en \ {e}
  /\ UNCHANGED <<events, ev, poll, loopTime, system, call, timing>>

\* Mutant: the handle is left running.
DeferFreeRunning(e) ==
  /\ Freed(e)
  /\ UNCHANGED <<flags, idle, poll, loopTime, system, call, timing>>

DeferFree(e) ==
  /\ Freed(e)
  /\ idle' = IF e \in en THEN idle \ {e} ELSE idle
  /\ UNCHANGED <<flags, poll, loopTime, system, call, timing>>

\* libuv calls an idle handle in every turn.
DeferCb(e) ==
  /\ running = Idle /\ e \in idle
  /\ running' = e /\ given' = {"defer"}
  /\ UNCHANGED <<events, flags, poll, idle, loopTime, system, timing>>

-------------------------------------------------------------------------------
(* The loop and the system *)

Return ==
  /\ running # Idle
  /\ running' = Idle /\ given' = {}
  /\ UNCHANGED <<events, flags, poll, idle, loopTime, system, timing>>

\* In each turn, and when Node asks for the time.
UpdateTime ==
  /\ loopTime # now \div TicksPerMs
  /\ loopTime' = now \div TicksPerMs
  /\ UNCHANGED <<events, flags, poll, idle, system, call, timing>>

Tick ==
  /\ now < MaxNow
  /\ now' = now + 1
  /\ UNCHANGED <<events, flags, poll, idle, loopTime, readable, reset, call, timing>>

\* Something arrives, or the peer resets the connection.
Socket(e) ==
  /\ Live(e) /\ e \notin reset
  /\ \/ readable' = readable \cup {e} /\ UNCHANGED reset
     \/ reset' = reset \cup {e} /\ readable' = readable \ {e}
  /\ UNCHANGED <<events, flags, poll, idle, loopTime, now, call, timing>>

\* libpulse takes deadlines from a clock it has read a moment ago.
Libpulse ==
  \/ \E e \in Events : SetDestroy(e)
  \/ \E e \in Io : IoFree(e) \/ \E wanted \in Asked : IoNew(e, wanted) \/ IoEnable(e, wanted)
  \/ \E e \in Timers :
       \/ TimeFree(e)
       \/ \E tv \in Ahead : tv >= now - 1 /\ (TimeNew(e, tv) \/ TimeRestart(e, tv))
  \/ \E e \in Defers :
       DeferNew(e) \/ DeferFree(e) \/ \E on \in BOOLEAN : DeferEnable(e, on)

Callbacks == \/ \E e \in Io : PollReady(e) \/ PollError(e)
             \/ \E e \in Timers : TimerCb(e)
             \/ \E e \in Defers : DeferCb(e)

Next == \/ Libpulse \/ Callbacks \/ Return \/ UpdateTime \/ Tick
        \/ \E e \in Io : Socket(e)

Spec == Init /\ [][Next]_vars

\* Time passes, callbacks return, and the loop, in each turn, looks at the clock and calls
\* every handle that is due, idle or ready.
Fairness ==
  /\ WF_vars(Tick) /\ WF_vars(Return) /\ WF_vars(UpdateTime)
  /\ \A e \in Io : SF_vars(PollReady(e) \/ PollError(e))
  /\ \A e \in Timers : SF_vars(TimerCb(e))
  /\ \A e \in Defers : SF_vars(DeferCb(e))

FairSpec == Spec /\ Fairness

-------------------------------------------------------------------------------
(* Properties *)

\* Every variable has its type.
TypeOK ==
  /\ state \in [Events -> {"none", "live", "freed"}]
  /\ watched \subseteq Events /\ destroyed \subseteq watched
  /\ ev \in [Io -> Asked] /\ en \subseteq Defers
  /\ poll \in [Io -> SUBSET {"readable", "writable"}] /\ idle \subseteq Defers
  /\ due \in [Timers -> {Off} \cup 0 .. 2 ^ Width - 1]
  /\ now \in 0 .. MaxNow /\ loopTime \in 0 .. now
  /\ readable \subseteq Io /\ reset \subseteq Io
  /\ running \in Events \cup {Idle}
  /\ given \subseteq {"input", "output", "time", "defer"}
  /\ deadline \in [Timers -> {Off, Missed} \cup Ahead] /\ earliest \in [Timers -> Int]

\* The flags that shadow the handles tell the truth: an idle handle is active exactly while
\* its event is enabled, and a socket is polled for what is asked, unless the connection
\* has been reset; a freed event has no active handle, wherever it was freed.
HandlesMatch ==
  /\ idle = {e \in en : Live(e)}
  /\ \A e \in Io : \/ poll[e] = IF Live(e) THEN Polled(ev[e]) ELSE {}
                   \/ e \in reset /\ poll[e] = {}
  /\ \A e \in Timers : due[e] # Off => Live(e)

\* A timer is called no earlier than its deadline, but for the part of a millisecond that
\* is rounded away and for the time the loop's clock was late when it was asked for.
TimerNotEarly ==
  [][\A e \in Timers : running # e /\ running' = e
       => now + TicksPerMs > earliest[e]]_vars

\* Nor much later: a deadline that was ahead is met, unless libpulse changes its mind; the
\* arithmetic in unsigned integers gives it no time of centuries.
TimersFire ==
  \A e \in Timers : \A tv \in Ahead :
    deadline[e] = tv ~> deadline[e] # tv

\* What is asked is served: an enabled defer event is called, and a socket that is ready
\* for what libpulse waits for is reported, whatever callbacks enable, disable or free.
Served ==
  /\ \A e \in Defers : Live(e) /\ e \in en ~> running = e \/ e \notin en \/ ~Live(e)
  /\ \A e \in Io : Live(e) /\ "input" \in ev[e] /\ e \in readable
       ~> running = e \/ "input" \notin ev[e] \/ ~Live(e) \/ e \in reset

\* The adapter keeps the promises of the interface.
Wants == [e \in Events |->
  IF ~Live(e) THEN {}
  ELSE IF e \in Io THEN ev[e]
  ELSE IF e \in Timers THEN (IF deadline[e] = Off THEN {} ELSE {"time"})
  ELSE (IF e \in en THEN {"defer"} ELSE {})]

Api == INSTANCE MainloopApi WITH Flags <- {"input", "output", "time", "defer"}, wants <- Wants

\* An event that was freed or disabled is not called, in the same turn or later; callbacks
\* do not nest and are told of nothing but what was asked; freeing an event calls its
\* destroy callback.
ImplementsApi == Api!Spec

\* README.md:49-53 "And exceptions errors." with context.on('error', ...): when the
\* connection is reset, libpulse, which waits for its socket, hears of it.
ResetReported ==
  \A e \in Io : Live(e) /\ ev[e] # {} /\ e \in reset ~> running = e \/ ev[e] = {} \/ ~Live(e)

===============================================================================
