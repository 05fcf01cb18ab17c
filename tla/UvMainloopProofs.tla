--------------------------- MODULE UvMainloopProofs ---------------------------
(* Proofs about UvMainloop, for all events, any clock rate and any width of libuv's times. *)
EXTENDS UvMainloop, FiniteSetTheorems, TLAPS

\* A callback that does not run has been told nothing.
CallInv == running = Idle => given = {}

\* The loop's clock is behind; a timer is due while a deadline is expected, and by the
\* millisecond after it the deadline has come.
TimerInv ==
  /\ loopTime * TicksPerMs <= now
  /\ \A e \in Timers : /\ due[e] # Off <=> deadline[e] # Off
                       /\ due[e] # Off => (due[e] + 1) * TicksPerMs > earliest[e]

\* The inductive invariant.
Inv == TypeOK /\ HandlesMatch /\ CallInv /\ TimerInv

-------------------------------------------------------------------------------
(* Arithmetic *)

\* libuv's times: a power of two.
LEMMA PowerIsNat == 2 ^ Width \in Nat /\ MaxNow \in Nat /\ 2 * MaxNow < 2 ^ Width
<1>1. Width \in Nat /\ MaxNow \in Nat
  BY MainloopAssumption
<1>2. IsFiniteSet(1 .. Width) /\ Cardinality(1 .. Width) = Width
  <2>1. 1 \in Int /\ Width \in Int
    BY <1>1
  <2> QED
    BY <1>1, <2>1, FS_Interval
<1>3. IsFiniteSet(SUBSET (1 .. Width)) /\ Cardinality(SUBSET (1 .. Width)) = 2 ^ Width
  BY <1>2, FS_SUBSET
<1> QED
  BY <1>1, <1>3, FS_CardinalityType, MainloopAssumption

\* Division rounds down, for a negative dividend too.
LEMMA DivideRoundsDown ==
  ASSUME NEW a \in Int, NEW k \in Nat \ {0}
  PROVE  /\ a \div k \in Int
         /\ (a \div k) * k <= a /\ a < (a \div k + 1) * k
         /\ a >= 0 => a \div k \in 0 .. a
         /\ a = -1 => a \div k = -1
<1>1. a \div k \in Int /\ k * (a \div k) <= a /\ a < k * (a \div k) + k
  BY SMTT(30)
<1>2. a >= 0 => a \div k \in 0 .. a
  BY SMTT(30)
<1>3. a = -1 => a \div k = -1
  BY SMTT(30)
<1>4. \A q \in Int : k * q = q * k /\ k * q + k = (q + 1) * k
  BY SMTT(30)
<1> QED
  BY <1>1, <1>2, <1>3, <1>4

\* Unsigned integers keep what fits, and -1 wraps to the largest of them.
LEMMA Wraps ==
  ASSUME NEW w \in Nat \ {0}
  PROVE  /\ \A a \in 0 .. w - 1 : a % w = a
         /\ (-1) % w = w - 1
BY SMTT(30)

-------------------------------------------------------------------------------
(* What the parts of an operation do *)

\* time_new and time_restart: whether the deadline is ahead or was missed a tick ago, by
\* the time the timer is due, rounded up, the deadline has come.
LEMMA StartedEffect ==
  ASSUME TypeOK, TimerInv, NEW e \in Timers, NEW tv \in Ahead, tv >= now - 1, Started(e, tv)
  PROVE  /\ due' \in [Timers -> {Off} \cup 0 .. 2 ^ Width - 1]
         /\ deadline' \in [Timers -> {Off, Missed} \cup Ahead] /\ earliest' \in [Timers -> Int]
         /\ due'[e] # Off /\ deadline'[e] # Off
         /\ (due'[e] + 1) * TicksPerMs > earliest'[e]
         /\ \A d \in Timers \ {e} : /\ due'[d] = due[d] /\ deadline'[d] = deadline[d]
                                    /\ earliest'[d] = earliest[d]
<1> DEFINE w == 2 ^ Width
           q == (tv - now) \div TicksPerMs
           t == loopTime + Timeout(tv)
<1>1. /\ w \in Nat \ {0} /\ MaxNow \in Nat /\ 2 * MaxNow < w
      /\ TicksPerMs \in Nat \ {0}
  BY PowerIsNat, MainloopAssumption
<1>2. /\ now \in 0 .. MaxNow /\ loopTime \in 0 .. now /\ loopTime * TicksPerMs \in Int
      /\ tv \in 0 .. MaxNow /\ loopTime * TicksPerMs <= now
  BY <1>1 DEF TypeOK, TimerInv, Ahead
<1>3. /\ q \in Int /\ q * TicksPerMs <= tv - now /\ tv - now < (q + 1) * TicksPerMs
      /\ tv >= now => q \in 0 .. MaxNow
      /\ tv = now - 1 => q = -1
  <2>1. tv - now \in Int
    BY <1>2
  <2>2. /\ q \in Int /\ q * TicksPerMs <= tv - now /\ tv - now < (q + 1) * TicksPerMs
        /\ tv - now >= 0 => q \in 0 .. tv - now
        /\ tv - now = -1 => q = -1
    BY <1>1, <2>1, DivideRoundsDown
  <2> HIDE DEF q
  <2> QED
    BY <1>1, <1>2, <2>2
<1> HIDE DEF q, w
<1>4. /\ Clamped(t) \in 0 .. w - 1
      /\ (Clamped(t) + 1) * TicksPerMs > tv - now + loopTime * TicksPerMs
  <2>1. CASE tv >= now
    <3>1. q \in 0 .. w - 1 /\ loopTime + q < w
      BY <1>1, <1>2, <1>3, <2>1
    <3>2. Timeout(tv) = q
      BY <1>1, <3>1, Wraps DEF Timeout, q, w
    <3>3. Clamped(t) = loopTime + q
      BY <1>1, <1>2, <1>3, <3>1, <3>2 DEF Clamped, w
    <3>4. (loopTime + q + 1) * TicksPerMs = (q + 1) * TicksPerMs + loopTime * TicksPerMs
      BY <1>1, <1>2, <1>3
    <3> QED
      BY <1>1, <1>2, <1>3, <3>1, <3>3, <3>4
  <2>2. CASE tv < now
    <3>1. tv = now - 1 /\ q = -1
      BY <1>2, <1>3, <2>2
    <3>2. Timeout(tv) = w - 1
      BY <1>1, <3>1, Wraps DEF Timeout, q, w
    <3>3. Clamped(t) = w - 1
      BY <1>1, <1>2, <3>2 DEF Clamped, w
    <3>4. w * TicksPerMs >= w
      BY <1>1
    <3>5. tv - now + loopTime * TicksPerMs < w
      BY <1>1, <1>2, <3>1
    <3> QED
      BY <1>1, <1>2, <3>3, <3>4, <3>5
  <2> QED
    BY <1>2, <2>1, <2>2
<1> HIDE DEF t
<1>5. /\ due' = [due EXCEPT ![e] = Clamped(t)]
      /\ deadline' = [deadline EXCEPT ![e] = IF tv < now THEN Missed ELSE tv]
      /\ earliest' = [earliest EXCEPT ![e] = tv - now + loopTime * TicksPerMs]
  BY DEF Started, Expect, t
<1>6. /\ due \in [Timers -> {Off} \cup 0 .. w - 1]
      /\ deadline \in [Timers -> {Off, Missed} \cup Ahead] /\ earliest \in [Timers -> Int]
  BY DEF TypeOK, w
<1>7. /\ due' \in [Timers -> {Off} \cup 0 .. w - 1] /\ due'[e] = Clamped(t)
      /\ \A d \in Timers \ {e} : due'[d] = due[d]
  BY <1>4, <1>5, <1>6
<1>8. /\ deadline' \in [Timers -> {Off, Missed} \cup Ahead]
      /\ deadline'[e] = IF tv < now THEN Missed ELSE tv
      /\ \A d \in Timers \ {e} : deadline'[d] = deadline[d]
  BY <1>5, <1>6
<1>9. /\ earliest' \in [Timers -> Int]
      /\ earliest'[e] = tv - now + loopTime * TicksPerMs
      /\ \A d \in Timers \ {e} : earliest'[d] = earliest[d]
  BY <1>2, <1>5, <1>6
<1>10. due'[e] # Off /\ deadline'[e] # Off
  BY <1>1, <1>2, <1>4, <1>7, <1>8 DEF Off, Missed
<1> QED
  BY <1>4, <1>7, <1>8, <1>9, <1>10 DEF w

\* A timer that is stopped is not due, and nothing is expected of it.
LEMMA StoppedEffect ==
  ASSUME TypeOK, NEW e \in Timers, Stopped(e)
  PROVE  /\ due' \in [Timers -> {Off} \cup 0 .. 2 ^ Width - 1]
         /\ deadline' \in [Timers -> {Off, Missed} \cup Ahead] /\ earliest' \in [Timers -> Int]
         /\ due'[e] = Off /\ deadline'[e] = Off
         /\ \A d \in Timers \ {e} : /\ due'[d] = due[d] /\ deadline'[d] = deadline[d]
                                    /\ earliest'[d] = earliest[d]
<1>1. Off \in Int
  BY DEF Off
<1>2. /\ due \in [Timers -> {Off} \cup 0 .. 2 ^ Width - 1]
      /\ deadline \in [Timers -> {Off, Missed} \cup Ahead] /\ earliest \in [Timers -> Int]
  BY DEF TypeOK
<1>3. /\ due' = [due EXCEPT ![e] = Off] /\ deadline' = [deadline EXCEPT ![e] = Off]
      /\ earliest' = [earliest EXCEPT ![e] = Off]
  BY DEF Stopped
<1> QED
  BY <1>1, <1>2, <1>3

\* *_new makes one event and changes no other.
LEMMA MadeEffect ==
  ASSUME TypeOK, NEW e \in Events, Made(e)
  PROVE  /\ state' \in [Events -> {"none", "live", "freed"}]
         /\ Live(e)' /\ ~Live(e)
         /\ \A d \in Events \ {e} : Live(d)' = Live(d)
         /\ UNCHANGED <<watched, destroyed>>
BY DEF TypeOK, Made, Live

\* *_free ends one event and changes no other.
LEMMA FreedEffect ==
  ASSUME TypeOK, NEW e \in Events, Freed(e)
  PROVE  /\ state' \in [Events -> {"none", "live", "freed"}]
         /\ ~Live(e)' /\ Live(e)
         /\ \A d \in Events \ {e} : Live(d)' = Live(d)
         /\ watched' = watched /\ destroyed' \subseteq watched'
BY DEF TypeOK, Freed, Live

-------------------------------------------------------------------------------
(* The invariant *)

\* No event is of two kinds, and none is Idle.
LEMMA Disjoint ==
  /\ \A e \in Io : e \in Events /\ e \notin Timers /\ e \notin Defers
  /\ \A e \in Timers : e \in Events /\ e \notin Io /\ e \notin Defers
  /\ \A e \in Defers : e \in Events /\ e \notin Io /\ e \notin Timers
  /\ Idle \notin Events
BY MainloopAssumption DEF Events

\* What is polled for a set of flags are flags of libuv's.
LEMMA PolledType == \A wanted \in Asked : Polled(wanted) \in SUBSET {"readable", "writable"}
BY DEF Polled

\* The invariant holds at first, when there are no events.
LEMMA InitInv == Init => Inv
<1> SUFFICES ASSUME Init PROVE Inv
  OBVIOUS
<1>1. /\ 2 ^ Width \in Nat /\ MaxNow \in Nat /\ TicksPerMs \in Nat
      /\ Off \in Int
  BY PowerIsNat, MainloopAssumption DEF Off
<1>2. /\ state \in [Events -> {"none", "live", "freed"}] /\ watched = {} /\ destroyed = {}
      /\ ev \in [Io -> Asked] /\ en = {} /\ idle = {}
      /\ poll \in [Io -> SUBSET {"readable", "writable"}]
      /\ readable = {} /\ reset = {} /\ running = Idle /\ given = {}
  BY DEF Init, Asked
<1>3. /\ due \in [Timers -> {Off} \cup 0 .. 2 ^ Width - 1]
      /\ deadline \in [Timers -> {Off, Missed} \cup Ahead] /\ earliest \in [Timers -> Int]
  BY <1>1 DEF Init
<1>4. now \in 0 .. MaxNow /\ loopTime \in 0 .. now /\ loopTime * TicksPerMs <= now
  BY <1>1 DEF Init
<1>5. TypeOK
  BY <1>2, <1>3, <1>4 DEF TypeOK
<1>6. HandlesMatch
  BY <1>2, Disjoint DEF Init, HandlesMatch, Live
<1>7. TimerInv
  BY <1>4 DEF Init, TimerInv
<1> QED
  BY <1>2, <1>5, <1>6, <1>7 DEF Inv, CallInv

\* Steps that leave the timers and the clocks alone.
LEMMA TimersStay ==
  ASSUME Inv, UNCHANGED <<timing, loopTime, now>>
  PROVE  /\ due' \in [Timers -> {Off} \cup 0 .. 2 ^ Width - 1]
         /\ deadline' \in [Timers -> {Off, Missed} \cup Ahead] /\ earliest' \in [Timers -> Int]
         /\ now' \in 0 .. MaxNow /\ loopTime' \in 0 .. now'
         /\ TimerInv'
BY DEF Inv, TypeOK, TimerInv, timing

\* The operations on io events.
LEMMA IoStep ==
  ASSUME Inv, NEW e \in Io, IoFree(e) \/ \E wanted \in Asked : IoNew(e, wanted) \/ IoEnable(e, wanted)
  PROVE  Inv'
<1>1. e \in Events /\ \A d \in Timers \cup Defers : d \in Events \ {e}
  BY Disjoint
<1>2. UNCHANGED <<timing, loopTime, now, en, idle, running, given>>
  BY DEF IoFree, IoNew, IoEnable, flags, system, call
<1>3. /\ due' \in [Timers -> {Off} \cup 0 .. 2 ^ Width - 1]
      /\ deadline' \in [Timers -> {Off, Missed} \cup Ahead] /\ earliest' \in [Timers -> Int]
      /\ now' \in 0 .. MaxNow /\ loopTime' \in 0 .. now'
      /\ TimerInv'
  BY <1>2, TimersStay
<1>4. /\ state' \in [Events -> {"none", "live", "freed"}]
      /\ watched' \subseteq Events /\ destroyed' \subseteq watched'
      /\ \A d \in Events \ {e} : Live(d)' = Live(d)
  BY <1>1, MadeEffect, FreedEffect DEF IoFree, IoNew, IoEnable, Inv, TypeOK, events, Live
<1>5. /\ ev' \in [Io -> Asked] /\ poll' \in [Io -> SUBSET {"readable", "writable"}]
      /\ \A d \in Io \ {e} : ev'[d] = ev[d] /\ poll'[d] = poll[d]
      /\ poll'[e] = IF Live(e)' THEN Polled(ev'[e]) ELSE {}
  <2>1. ev \in [Io -> Asked] /\ poll \in [Io -> SUBSET {"readable", "writable"}]
    BY DEF Inv, TypeOK
  <2>2. CASE IoFree(e)
    <3>1. ev' = ev /\ poll' = [poll EXCEPT ![e] = {}] /\ ~Live(e)'
      BY <1>1, <2>2, FreedEffect DEF IoFree, flags, Inv
    <3> QED
      BY <2>1, <3>1
  <2>3. CASE \E wanted \in Asked : IoNew(e, wanted) \/ IoEnable(e, wanted)
    <3>0. PICK wanted \in Asked : IoNew(e, wanted) \/ IoEnable(e, wanted)
      BY <2>3
    <3>1. /\ ev' = [ev EXCEPT ![e] = wanted] /\ poll' = [poll EXCEPT ![e] = Polled(wanted)]
          /\ Live(e)'
      BY <1>1, <3>0, MadeEffect DEF IoNew, IoEnable, RestartPoll, events, Live, Inv
    <3> QED
      BY <2>1, <3>1, PolledType
  <2> QED
    BY <2>2, <2>3
<1>6. /\ readable' \subseteq Io /\ reset' \subseteq Io /\ reset \ {e} \subseteq reset'
  BY DEF IoFree, IoNew, IoEnable, system, Inv, TypeOK
<1>7. TypeOK'
  BY <1>2, <1>3, <1>4, <1>5, <1>6 DEF Inv, TypeOK
<1>8. HandlesMatch'
  <2>1. idle' = {d \in en' : Live(d)'}
    BY <1>1, <1>2, <1>4 DEF Inv, TypeOK, HandlesMatch
  <2>2. \A d \in Io : \/ poll'[d] = IF Live(d)' THEN Polled(ev'[d]) ELSE {}
                      \/ d \in reset' /\ poll'[d] = {}
    BY <1>4, <1>5, <1>6, Disjoint DEF Inv, HandlesMatch
  <2>3. \A d \in Timers : due'[d] # Off => Live(d)'
    BY <1>1, <1>2, <1>4 DEF Inv, HandlesMatch, timing
  <2> QED
    BY <2>1, <2>2, <2>3 DEF HandlesMatch
<1>9. CallInv'
  BY <1>2 DEF Inv, CallInv
<1> QED
  BY <1>3, <1>7, <1>8, <1>9 DEF Inv

\* The operations on timers.
LEMMA TimeStep ==
  ASSUME Inv, NEW e \in Timers,
         TimeFree(e) \/ \E tv \in Ahead : tv >= now - 1 /\ (TimeNew(e, tv) \/ TimeRestart(e, tv))
  PROVE  Inv'
<1>1. e \in Events /\ \A d \in Io \cup Defers : d \in Events \ {e}
  BY Disjoint
<1>2. UNCHANGED <<flags, poll, idle, loopTime, system, call>>
  BY DEF TimeFree, TimeNew, TimeRestart
<1>3. /\ state' \in [Events -> {"none", "live", "freed"}]
      /\ watched' \subseteq Events /\ destroyed' \subseteq watched'
      /\ \A d \in Events \ {e} : Live(d)' = Live(d)
  BY <1>1, MadeEffect, FreedEffect DEF TimeFree, TimeNew, TimeRestart, Inv, TypeOK, events, Live
<1>4. /\ due' \in [Timers -> {Off} \cup 0 .. 2 ^ Width - 1]
      /\ deadline' \in [Timers -> {Off, Missed} \cup Ahead] /\ earliest' \in [Timers -> Int]
      /\ due'[e] # Off <=> deadline'[e] # Off
      /\ due'[e] # Off => (due'[e] + 1) * TicksPerMs > earliest'[e] /\ Live(e)'
      /\ \A d \in Timers \ {e} : /\ due'[d] = due[d] /\ deadline'[d] = deadline[d]
                                 /\ earliest'[d] = earliest[d]
  <2>1. CASE TimeFree(e)
    <3>1. Stopped(e)
      BY <2>1 DEF TimeFree
    <3> QED
      BY <3>1, StoppedEffect DEF Inv
  <2>2. CASE \E tv \in Ahead : tv >= now - 1 /\ (TimeNew(e, tv) \/ TimeRestart(e, tv))
    <3>1. PICK tv \in Ahead : tv >= now - 1 /\ (TimeNew(e, tv) \/ TimeRestart(e, tv))
      BY <2>2
    <3>2. Started(e, tv) /\ Live(e)'
      BY <1>1, <3>1, MadeEffect DEF TimeNew, TimeRestart, events, Live, Inv
    <3> QED
      BY <3>1, <3>2, StartedEffect DEF Inv
  <2> QED
    BY <2>1, <2>2
<1>5. TypeOK'
  BY <1>2, <1>3, <1>4 DEF Inv, TypeOK, flags, system, call
<1>6. HandlesMatch'
  <2>1. idle' = {d \in en' : Live(d)'}
    BY <1>1, <1>2, <1>3 DEF Inv, TypeOK, HandlesMatch, flags
  <2>2. \A d \in Io : \/ poll'[d] = IF Live(d)' THEN Polled(ev'[d]) ELSE {}
                      \/ d \in reset' /\ poll'[d] = {}
    BY <1>1, <1>2, <1>3 DEF Inv, HandlesMatch, flags, system
  <2>3. \A d \in Timers : due'[d] # Off => Live(d)'
    BY <1>3, <1>4, Disjoint DEF Inv, HandlesMatch
  <2> QED
    BY <2>1, <2>2, <2>3 DEF HandlesMatch
<1>7. TimerInv'
  BY <1>2, <1>4 DEF Inv, TimerInv, system
<1>8. CallInv'
  BY <1>2 DEF Inv, CallInv, call
<1> QED
  BY <1>5, <1>6, <1>7, <1>8 DEF Inv

\* The operations on defer events.
LEMMA DeferStep ==
  ASSUME Inv, NEW e \in Defers,
         DeferNew(e) \/ DeferFree(e) \/ \E on \in BOOLEAN : DeferEnable(e, on)
  PROVE  Inv'
<1>1. e \in Events /\ \A d \in Io \cup Timers : d \in Events \ {e}
  BY Disjoint
<1>2. UNCHANGED <<ev, poll, loopTime, system, call, timing>>
  BY DEF DeferNew, DeferFree, DeferEnable, flags
<1>3. /\ state' \in [Events -> {"none", "live", "freed"}]
      /\ watched' \subseteq Events /\ destroyed' \subseteq watched'
      /\ \A d \in Events \ {e} : Live(d)' = Live(d)
  BY <1>1, MadeEffect, FreedEffect DEF DeferNew, DeferFree, DeferEnable, Inv, TypeOK, events, Live
<1>4. /\ en' \subseteq Defers /\ idle' = {d \in en' : Live(d)'}
  <2>1. en \subseteq Defers /\ idle = {d \in en : Live(d)}
    BY DEF Inv, TypeOK, HandlesMatch
  <2>2. \A d \in Defers \ {e} : d \in Events \ {e}
    BY Disjoint
  <2>3. CASE DeferNew(e)
    <3>1. en' = en \cup {e} /\ idle' = idle \cup {e} /\ Live(e)'
      BY <1>1, <2>3, MadeEffect DEF DeferNew, Inv
    <3> QED
      BY <1>3, <2>1, <2>2, <3>1
  <2>4. CASE DeferFree(e)
    <3>1. /\ en' = en /\ idle' = (IF e \in en THEN idle \ {e} ELSE idle)
          /\ ~Live(e)'
      BY <1>1, <2>4, FreedEffect DEF DeferFree, Inv, flags
    <3> QED
      BY <1>3, <2>1, <2>2, <3>1
  <2>5. CASE \E on \in BOOLEAN : DeferEnable(e, on)
    <3>1. PICK on \in BOOLEAN : DeferEnable(e, on)
      BY <2>5
    <3>2. /\ en' = IF on THEN en \cup {e} ELSE en \ {e}
          /\ idle' = IF on /\ e \notin en THEN idle \cup {e}
                     ELSE IF ~on /\ e \in en THEN idle \ {e} ELSE idle
          /\ Live(e) /\ Live(e)'
      BY <3>1 DEF DeferEnable, events, Live
    <3> QED
      BY <1>3, <2>1, <2>2, <3>2
  <2> QED
    BY <2>3, <2>4, <2>5
<1>5. /\ due' \in [Timers -> {Off} \cup 0 .. 2 ^ Width - 1]
      /\ deadline' \in [Timers -> {Off, Missed} \cup Ahead] /\ earliest' \in [Timers -> Int]
      /\ now' \in 0 .. MaxNow /\ loopTime' \in 0 .. now'
      /\ TimerInv'
  BY <1>2, TimersStay DEF system
<1>6. idle' \subseteq Defers
  BY <1>4
<1>7. TypeOK'
  BY <1>2, <1>3, <1>4, <1>5, <1>6 DEF Inv, TypeOK, system, call
<1>8. HandlesMatch'
  BY <1>1, <1>2, <1>3, <1>4 DEF Inv, HandlesMatch, system, timing
<1>9. CallInv'
  BY <1>2 DEF Inv, CallInv, call
<1> QED
  BY <1>5, <1>7, <1>8, <1>9 DEF Inv

\* What io_cb tells libpulse is what it has asked for, and it asks for nothing but input
\* and output.
LEMMA PassedType ==
  ASSUME TypeOK, NEW e \in Io, NEW status, NEW got
  PROVE  Passed(e, status, got) \subseteq ev[e] /\ ev[e] \subseteq {"input", "output"}
BY DEF TypeOK, Passed, Asked

\* libuv calls back: nothing is told but what was asked, and the handles and flags stay
\* as they are but for the handle that libuv stops itself.
LEMMA CallbackStep ==
  ASSUME Inv, Callbacks
  PROVE  Inv'
<1>1. CASE \E e \in Io : PollReady(e) \/ PollError(e)
  <2>1. PICK e \in Io : PollReady(e) \/ PollError(e)
    BY <1>1
  <2>2. /\ UNCHANGED <<events, flags, idle, loopTime, now, reset, timing>>
        /\ readable' \subseteq readable
        /\ \/ poll' = poll
           \/ e \in reset /\ poll' = [poll EXCEPT ![e] = {}]
    BY <2>1 DEF PollReady, PollError, IoCb
  <2>3. PICK status, got : /\ given' = Passed(e, status, got)
                           /\ running' = IF given' = {} THEN running ELSE e
                           /\ running = Idle
    <3>1. CASE PollReady(e)
      BY <3>1 DEF PollReady, IoCb
    <3>2. CASE PollError(e)
      BY <3>2 DEF PollError, IoCb
    <3> QED
      BY <2>1, <3>1, <3>2
  <2>4. /\ running' \in Events \cup {Idle}
        /\ given' \subseteq {"input", "output", "time", "defer"}
        /\ running' = Idle => given' = {}
    BY <2>3, PassedType, Disjoint DEF Inv
  <2>5. poll' \in [Io -> SUBSET {"readable", "writable"}]
    BY <2>2 DEF Inv, TypeOK
  <2>6. TypeOK'
    <3>1. state' \in [Events -> {"none", "live", "freed"}] /\ ev' \in [Io -> Asked]
      BY <2>2 DEF Inv, TypeOK, events, flags
    <3>2. /\ due' \in [Timers -> {Off} \cup 0 .. 2 ^ Width - 1]
          /\ deadline' \in [Timers -> {Off, Missed} \cup Ahead] /\ earliest' \in [Timers -> Int]
          /\ now' \in 0 .. MaxNow /\ loopTime' \in 0 .. now'
      BY <2>2, TimersStay
    <3> QED
      BY <2>2, <2>4, <2>5, <3>1, <3>2 DEF Inv, TypeOK, events, flags
  <2>7. HandlesMatch'
    <3>1. \A d \in Io : poll'[d] = poll[d] \/ (d \in reset' /\ poll'[d] = {})
      BY <2>2 DEF Inv, TypeOK
    <3> QED
      BY <2>2, <3>1 DEF Inv, HandlesMatch, Live, events, flags, timing
  <2> QED
    BY <2>2, <2>4, <2>6, <2>7, TimersStay DEF Inv, CallInv
<1>2. CASE \E e \in Timers : TimerCb(e)
  <2>1. PICK e \in Timers : TimerCb(e)
    BY <1>2
  <2>2. /\ Stopped(e) /\ running' = e /\ given' = {"time"}
        /\ UNCHANGED <<events, flags, poll, idle, loopTime, system>>
    BY <2>1 DEF TimerCb
  <2>3. /\ due' \in [Timers -> {Off} \cup 0 .. 2 ^ Width - 1]
        /\ deadline' \in [Timers -> {Off, Missed} \cup Ahead] /\ earliest' \in [Timers -> Int]
        /\ due'[e] = Off /\ deadline'[e] = Off
        /\ \A d \in Timers \ {e} : /\ due'[d] = due[d] /\ deadline'[d] = deadline[d]
                                   /\ earliest'[d] = earliest[d]
    BY <2>2, StoppedEffect DEF Inv
  <2>4. TypeOK'
    BY <2>2, <2>3, Disjoint DEF Inv, TypeOK, events, flags, system
  <2>5. HandlesMatch' /\ TimerInv'
    BY <2>2, <2>3 DEF Inv, HandlesMatch, TimerInv, Live, events, flags, system
  <2>6. CallInv'
    BY <2>2, Disjoint DEF CallInv
  <2> QED
    BY <2>4, <2>5, <2>6 DEF Inv
<1>3. CASE \E e \in Defers : DeferCb(e)
  <2>1. PICK e \in Defers : DeferCb(e)
    BY <1>3
  <2>2. /\ running' = e /\ given' = {"defer"} /\ e \in Events
        /\ UNCHANGED <<events, flags, poll, idle, loopTime, system, timing>>
    BY <2>1, Disjoint DEF DeferCb
  <2>3. TypeOK'
    BY <2>2 DEF Inv, TypeOK, events, flags, system, timing
  <2>4. HandlesMatch' /\ TimerInv'
    BY <2>2 DEF Inv, HandlesMatch, TimerInv, Live, events, flags, system, timing
  <2>5. CallInv'
    BY <2>2, Disjoint DEF CallInv
  <2> QED
    BY <2>3, <2>4, <2>5 DEF Inv
<1> QED
  BY <1>1, <1>2, <1>3 DEF Callbacks

\* Every step keeps the invariant.
LEMMA StepInv == Inv /\ [Next]_vars => Inv'
<1> SUFFICES ASSUME Inv, [Next]_vars PROVE Inv'
  OBVIOUS
<1>1. CASE \E e \in Events : SetDestroy(e)
  <2>1. PICK e \in Events : SetDestroy(e)
    BY <1>1
  <2>2. /\ watched' = watched \cup {e}
        /\ UNCHANGED <<state, destroyed, flags, poll, idle, loopTime, system, call, timing>>
    BY <2>1 DEF SetDestroy
  <2>3. TypeOK'
    BY <2>2 DEF Inv, TypeOK, flags, system, call, timing
  <2>4. HandlesMatch' /\ TimerInv' /\ CallInv'
    BY <2>2 DEF Inv, HandlesMatch, TimerInv, CallInv, Live, flags, system, call, timing
  <2> QED
    BY <2>3, <2>4 DEF Inv
<1>2. CASE Libpulse
  BY <1>1, <1>2, IoStep, TimeStep, DeferStep DEF Libpulse
<1>3. CASE Callbacks
  BY <1>3, CallbackStep
<1>4. CASE Return \/ UNCHANGED vars
  <2>1. /\ UNCHANGED <<events, flags, poll, idle, loopTime, system, timing>>
        /\ \/ running' = Idle /\ given' = {}
           \/ UNCHANGED call
    BY <1>4 DEF Return, vars, call
  <2>2. TypeOK'
    BY <2>1 DEF Inv, TypeOK, events, flags, system, call, timing
  <2>3. HandlesMatch' /\ TimerInv'
    BY <2>1 DEF Inv, HandlesMatch, TimerInv, Live, events, flags, system, timing
  <2>4. CallInv'
    BY <2>1 DEF Inv, CallInv, call
  <2> QED
    BY <2>2, <2>3, <2>4 DEF Inv
<1>5. CASE UpdateTime \/ Tick
  <2>1. /\ UNCHANGED <<events, flags, poll, idle, readable, reset, call, timing>>
        /\ \/ loopTime' = now \div TicksPerMs /\ now' = now
           \/ loopTime' = loopTime /\ now' = now + 1 /\ now < MaxNow
    BY <1>5 DEF UpdateTime, Tick, system
  <2>2. now \in 0 .. MaxNow /\ loopTime \in 0 .. now /\ loopTime * TicksPerMs <= now
    BY DEF Inv, TypeOK, TimerInv
  <2>3. MaxNow \in Nat /\ TicksPerMs \in Nat \ {0}
    BY MainloopAssumption
  <2>4. now' \in 0 .. MaxNow /\ loopTime' \in 0 .. now' /\ loopTime' * TicksPerMs <= now'
    <3>1. CASE loopTime' = now \div TicksPerMs /\ now' = now
      <4>1. /\ now \in Int /\ now >= 0
        BY <2>2, <2>3
      <4>2. now \div TicksPerMs \in 0 .. now /\ (now \div TicksPerMs) * TicksPerMs <= now
        BY <2>3, <4>1, DivideRoundsDown
      <4> QED
        BY <2>2, <3>1, <4>2
    <3>2. CASE loopTime' = loopTime /\ now' = now + 1 /\ now < MaxNow
      <4>1. loopTime * TicksPerMs \in Int
        BY <2>2, <2>3
      <4> QED
        BY <2>2, <2>3, <3>2, <4>1
    <3> QED
      BY <2>1, <3>1, <3>2
  <2>5. TypeOK'
    BY <2>1, <2>4 DEF Inv, TypeOK, events, flags, call, timing
  <2>6. TimerInv'
    BY <2>1, <2>4 DEF Inv, TimerInv, timing
  <2>7. HandlesMatch' /\ CallInv'
    BY <2>1 DEF Inv, HandlesMatch, CallInv, Live, events, flags, call, timing
  <2> QED
    BY <2>5, <2>6, <2>7 DEF Inv
<1>6. CASE \E e \in Io : Socket(e)
  <2>1. PICK e \in Io : Socket(e)
    BY <1>6
  <2>2. /\ UNCHANGED <<events, flags, poll, idle, loopTime, now, call, timing>>
        /\ readable' \subseteq readable \cup {e} /\ reset' \subseteq reset \cup {e}
        /\ reset \subseteq reset'
    BY <2>1 DEF Socket
  <2>3. TypeOK'
    BY <2>2 DEF Inv, TypeOK, events, flags, call, timing
  <2>4. HandlesMatch' /\ TimerInv' /\ CallInv'
    BY <2>2 DEF Inv, HandlesMatch, TimerInv, CallInv, Live, events, flags, call, timing
  <2> QED
    BY <2>3, <2>4 DEF Inv
<1> QED
  BY <1>2, <1>3, <1>4, <1>5, <1>6 DEF Next

\* The invariant holds in every reachable state of the adapter.
THEOREM Invariance == Spec => []Inv
BY InitInv, StepInv, PTL DEF Spec

-------------------------------------------------------------------------------
\* The events, the handles and the times keep their types: what libuv is told to do stays
\* within the unsigned integers of its interface.
THEOREM TypeCorrect == Spec => []TypeOK
<1>1. Inv => TypeOK
  BY DEF Inv
<1> QED
  BY <1>1, Invariance, PTL

\* The flags that shadow the handles tell the truth, and a freed event has none active.
THEOREM HandlesTrue == Spec => []HandlesMatch
<1>1. Inv => HandlesMatch
  BY DEF Inv
<1> QED
  BY <1>1, Invariance, PTL

\* No timer is called before its deadline, but for the part of a millisecond that is
\* rounded away and the time the loop's clock was late.
THEOREM NeverEarly == Spec => TimerNotEarly
<1>1. ASSUME Inv, Next, NEW e \in Timers, running # e, running' = e
      PROVE  now + TicksPerMs > earliest[e]
  <2>1. TimerCb(e)
    <3>1. ~(\E d \in Io : PollReady(d) \/ PollError(d))
      BY <1>1, Disjoint DEF PollReady, PollError, IoCb
    <3>2. ~(\E d \in Defers : DeferCb(d))
      BY <1>1, Disjoint DEF DeferCb
    <3>3. \A d \in Timers : TimerCb(d) => d = e
      BY <1>1 DEF TimerCb
    <3>4. ~Return
      BY <1>1, Disjoint DEF Return
    <3>5. ~Libpulse
      BY <1>1 DEF Libpulse, SetDestroy, IoFree, IoNew, IoEnable, TimeFree, TimeNew, TimeRestart,
           DeferNew, DeferFree, DeferEnable, call
    <3>6. ~UpdateTime /\ ~Tick /\ ~\E d \in Io : Socket(d)
      BY <1>1 DEF UpdateTime, Tick, Socket, call
    <3> QED
      BY <1>1, <3>1, <3>2, <3>3, <3>4, <3>5, <3>6 DEF Next, Callbacks
  <2>2. /\ due[e] # Off /\ due[e] <= loopTime
        /\ (due[e] + 1) * TicksPerMs > earliest[e] /\ loopTime * TicksPerMs <= now
    BY <1>1, <2>1 DEF TimerCb, Inv, TimerInv
  <2>3. /\ due[e] \in Int /\ loopTime \in Int /\ now \in Int /\ earliest[e] \in Int
        /\ TicksPerMs \in Nat
    BY <1>1, PowerIsNat, MainloopAssumption DEF Inv, TypeOK, Off
  <2>4. (due[e] + 1) * TicksPerMs <= (loopTime + 1) * TicksPerMs
    BY <2>2, <2>3
  <2>5. (loopTime + 1) * TicksPerMs = loopTime * TicksPerMs + TicksPerMs
    BY <2>3
  <2> QED
    BY <2>2, <2>3, <2>4, <2>5
<1>2. Inv /\ [Next]_vars
      => [\A e \in Timers : running # e /\ running' = e => now + TicksPerMs > earliest[e]]_vars
  BY <1>1
<1> QED
  BY <1>2, Invariance, PTL DEF Spec, TimerNotEarly

-------------------------------------------------------------------------------
(* UvMainloop implements MainloopApi *)

ApiFlags == {"input", "output", "time", "defer"}

\* What is asked of each kind of event.
LEMMA WantsOf ==
  /\ DOMAIN Wants = Events
  /\ \A e \in Events : ~Live(e) => Wants[e] = {}
  /\ \A e \in Io : Live(e) => Wants[e] = ev[e]
  /\ \A e \in Timers : Live(e) => Wants[e] = IF deadline[e] = Off THEN {} ELSE {"time"}
  /\ \A e \in Defers : Live(e) => Wants[e] = IF e \in en THEN {"defer"} ELSE {}
BY Disjoint DEF Wants

\* A step after which the other events are as they were leaves what is asked of them.
LEMMA OthersStay ==
  ASSUME TypeOK', NEW e \in Events,
         \A d \in Events \ {e} : Live(d)' = Live(d),
         \A d \in Io \ {e} : ev'[d] = ev[d],
         \A d \in Timers \ {e} : deadline'[d] = deadline[d],
         \A d \in Defers \ {e} : d \in en' <=> d \in en
  PROVE  /\ Api!AskedOf(e)
         /\ ~Live(e)' => Wants' = [Wants EXCEPT ![e] = {}]
<1>1. Wants' \in [Events -> SUBSET ApiFlags]
  <2>1. \A d \in Io : ev'[d] \in SUBSET ApiFlags
    BY DEF TypeOK, Asked, ApiFlags
  <2>2. ASSUME NEW d \in Events PROVE Wants'[d] \in SUBSET ApiFlags
    BY <2>1 DEF Wants, ApiFlags
  <2> QED
    BY <2>2 DEF Wants
<1>2. ASSUME NEW d \in Events \ {e} PROVE Wants'[d] = Wants[d]
  BY Disjoint DEF Wants, Events
<1>3. ~Live(e)' => Wants'[e] = {}
  BY DEF Wants
<1>4. Wants = [d \in Events |-> Wants[d]] /\ Wants' = [d \in Events |-> Wants'[d]]
  BY DEF Wants
<1>5. ~Live(e)' => Wants' = [Wants EXCEPT ![e] = {}]
  BY <1>2, <1>3, <1>4
<1> QED
  BY <1>1, <1>2, <1>5 DEF Api!AskedOf, ApiFlags

\* The initial states of the adapter are initial states of the interface.
LEMMA ApiInit == Init => Api!Init
BY DEF Init, Api!Init, Wants, Live

\* Steps that do not touch the events.
LEMMA WantsStay ==
  ASSUME UNCHANGED <<events, flags, deadline>>
  PROVE  /\ Wants' = Wants
         /\ \A e \in Events : Live(e)' = Live(e)
BY DEF Wants, Live, events, flags

\* Operations of libpulse's.
LEMMA LibpulseRefines ==
  ASSUME Inv, Inv', Libpulse
  PROVE  Api!Next
<1>1. CASE \E e \in Events : SetDestroy(e)
  <2>1. PICK e \in Events : SetDestroy(e)
    BY <1>1
  <2>2. Wants' = Wants
    BY <2>1 DEF SetDestroy, Wants, Live, flags, timing
  <2>3. Api!Watch(e)
    BY <2>1, <2>2 DEF SetDestroy, Api!Watch, Api!Live, Live, call
  <2> QED
    BY <2>3 DEF Api!Next
<1>2. ASSUME NEW e \in Io,
             IoFree(e) \/ \E wanted \in Asked : IoNew(e, wanted) \/ IoEnable(e, wanted)
      PROVE  Api!Next
  <2>1. e \in Events
    BY Disjoint
  <2>2. UNCHANGED <<running, given, en, deadline>>
    BY <1>2 DEF IoFree, IoNew, IoEnable, flags, call, timing
  <2>3. \A d \in Io \ {e} : ev'[d] = ev[d]
    BY <1>2 DEF IoFree, IoNew, IoEnable, flags, Inv, TypeOK
  <2>4. \A d \in Events \ {e} : Live(d)' = Live(d)
    BY <1>2, <2>1, MadeEffect, FreedEffect DEF IoFree, IoNew, IoEnable, events, Live, Inv
  <2>5. Api!AskedOf(e) /\ (~Live(e)' => Wants' = [Wants EXCEPT ![e] = {}])
    BY <2>1, <2>2, <2>3, <2>4, OthersStay DEF Inv
  <2>6. Made(e) \/ (Live(e) /\ UNCHANGED events) \/ (Freed(e) /\ ~Live(e)')
    BY <1>2, <2>1, FreedEffect DEF IoFree, IoNew, IoEnable, Inv
  <2> QED
    BY <2>1, <2>2, <2>5, <2>6 DEF Made, Freed, Live, events, Api!Next, Api!Make, Api!Ask, Api!Free,
       Api!Live
<1>3. ASSUME NEW e \in Timers,
             TimeFree(e) \/ \E tv \in Ahead : tv >= now - 1 /\ (TimeNew(e, tv) \/ TimeRestart(e, tv))
      PROVE  Api!Next
  <2>1. e \in Events
    BY Disjoint
  <2>2. UNCHANGED <<running, given, ev, en>>
    BY <1>3 DEF TimeFree, TimeNew, TimeRestart, flags, call
  <2>3. \A d \in Timers \ {e} : deadline'[d] = deadline[d]
    BY <1>3 DEF TimeFree, TimeNew, TimeRestart, Started, Expect, Stopped, Inv, TypeOK
  <2>4. \A d \in Events \ {e} : Live(d)' = Live(d)
    BY <1>3, <2>1, MadeEffect, FreedEffect DEF TimeFree, TimeNew, TimeRestart, events, Live, Inv
  <2>5. Api!AskedOf(e) /\ (~Live(e)' => Wants' = [Wants EXCEPT ![e] = {}])
    BY <2>1, <2>2, <2>3, <2>4, OthersStay DEF Inv
  <2>6. Made(e) \/ (Live(e) /\ UNCHANGED events) \/ (Freed(e) /\ ~Live(e)')
    BY <1>3, <2>1, FreedEffect DEF TimeFree, TimeNew, TimeRestart, Inv
  <2> QED
    BY <2>1, <2>2, <2>5, <2>6 DEF Made, Freed, Live, events, Api!Next, Api!Make, Api!Ask, Api!Free,
       Api!Live
<1>4. ASSUME NEW e \in Defers,
             DeferNew(e) \/ DeferFree(e) \/ \E on \in BOOLEAN : DeferEnable(e, on)
      PROVE  Api!Next
  <2>1. e \in Events
    BY Disjoint
  <2>2. UNCHANGED <<running, given, ev, deadline>>
    BY <1>4 DEF DeferNew, DeferFree, DeferEnable, flags, call, timing
  <2>3. \A d \in Defers \ {e} : d \in en' <=> d \in en
    BY <1>4 DEF DeferNew, DeferFree, DeferEnable, flags
  <2>4. \A d \in Events \ {e} : Live(d)' = Live(d)
    BY <1>4, <2>1, MadeEffect, FreedEffect DEF DeferNew, DeferFree, DeferEnable, events, Live, Inv
  <2>5. Api!AskedOf(e) /\ (~Live(e)' => Wants' = [Wants EXCEPT ![e] = {}])
    BY <2>1, <2>2, <2>3, <2>4, OthersStay DEF Inv
  <2>6. Made(e) \/ (Live(e) /\ UNCHANGED events) \/ (Freed(e) /\ ~Live(e)')
    BY <1>4, <2>1, FreedEffect DEF DeferNew, DeferFree, DeferEnable, Inv
  <2> QED
    BY <2>1, <2>2, <2>5, <2>6 DEF Made, Freed, Live, events, Api!Next, Api!Make, Api!Ask, Api!Free,
       Api!Live
<1> QED
  BY <1>1, <1>2, <1>3, <1>4 DEF Libpulse

\* libuv's callbacks, with something to tell or nothing.
LEMMA CallbackRefines ==
  ASSUME Inv, Callbacks
  PROVE  Api!Next \/ UNCHANGED Api!vars
<1>1. CASE \E e \in Io : PollReady(e) \/ PollError(e)
  <2>1. PICK e \in Io : PollReady(e) \/ PollError(e)
    BY <1>1
  <2>2. UNCHANGED <<events, flags, deadline>> /\ running = Idle /\ poll[e] # {}
    BY <2>1 DEF PollReady, PollError, IoCb, timing
  <2>3. PICK status, got : /\ given' = Passed(e, status, got)
                           /\ running' = IF given' = {} THEN running ELSE e
    <3>1. CASE PollReady(e)
      BY <3>1 DEF PollReady, IoCb
    <3>2. CASE PollError(e)
      BY <3>2 DEF PollError, IoCb
    <3> QED
      BY <2>1, <3>1, <3>2
  <2>4. Wants' = Wants
    BY <2>2, WantsStay
  <2>5. CASE given' = {}
    BY <2>2, <2>3, <2>4, <2>5 DEF Inv, CallInv, Api!vars, events
  <2>6. CASE given' # {}
    <3>1. Live(e) /\ e \in Events /\ e \notin Timers
      BY <2>2, Disjoint DEF Inv, HandlesMatch
    <3>2. given' \in (SUBSET Wants[e]) \ {{}}
      BY <2>3, <2>6, <3>1, PassedType, WantsOf DEF Inv
    <3>3. Api!Call(e)
      BY <2>2, <2>3, <2>4, <2>6, <3>1, <3>2 DEF Api!Call, Api!Live, Live, events
    <3> QED
      BY <3>1, <3>3 DEF Api!Next
  <2> QED
    BY <2>5, <2>6
<1>2. CASE \E e \in Timers : TimerCb(e)
  <2>1. PICK e \in Timers : TimerCb(e)
    BY <1>2
  <2>2. /\ running = Idle /\ running' = e /\ given' = {"time"} /\ due[e] # Off /\ Stopped(e)
        /\ UNCHANGED <<events, flags>>
    BY <2>1 DEF TimerCb
  <2>3. Live(e) /\ deadline[e] # Off /\ e \in Events
    BY <2>2, Disjoint DEF Inv, HandlesMatch, TimerInv
  <2>4. Wants[e] = {"time"}
    BY <2>3, WantsOf
  <2>5. Wants' = [Wants EXCEPT ![e] = {}]
    <3>1. \A d \in Events : Live(d)' = Live(d)
      BY <2>2 DEF Live, events
    <3>2. ev' = ev /\ en' = en
      BY <2>2 DEF flags
    <3>3. deadline'[e] = Off /\ \A d \in Timers \ {e} : deadline'[d] = deadline[d]
      BY <2>2, StoppedEffect DEF Inv
    <3>4. Wants'[e] = {} /\ \A d \in Events \ {e} : Wants'[d] = Wants[d]
      BY <2>3, <3>1, <3>2, <3>3, Disjoint DEF Wants
    <3>5. Wants = [d \in Events |-> Wants[d]] /\ Wants' = [d \in Events |-> Wants'[d]]
      BY DEF Wants
    <3> QED
      BY <2>3, <3>4, <3>5
  <2>6. Api!Call(e)
    BY <2>2, <2>3, <2>4, <2>5 DEF Api!Call, Api!Live, Live, events
  <2> QED
    BY <2>3, <2>6 DEF Api!Next
<1>3. CASE \E e \in Defers : DeferCb(e)
  <2>1. PICK e \in Defers : DeferCb(e)
    BY <1>3
  <2>2. /\ running = Idle /\ running' = e /\ given' = {"defer"} /\ e \in idle
        /\ UNCHANGED <<events, flags, deadline>>
    BY <2>1 DEF DeferCb, timing
  <2>3. Live(e) /\ e \in en /\ e \in Events /\ e \notin Timers
    BY <2>2, Disjoint DEF Inv, HandlesMatch
  <2>4. Wants[e] = {"defer"} /\ Wants' = Wants
    BY <2>2, <2>3, WantsOf, WantsStay
  <2>5. Api!Call(e)
    BY <2>2, <2>3, <2>4 DEF Api!Call, Api!Live, Live, events
  <2> QED
    BY <2>3, <2>5 DEF Api!Next
<1> QED
  BY <1>1, <1>2, <1>3 DEF Callbacks

\* A step of the adapter is a step of the interface, or none.
LEMMA StepRefines == Inv /\ Inv' /\ [Next]_vars => [Api!Next]_(Api!vars)
<1> SUFFICES ASSUME Inv, Inv', [Next]_vars PROVE Api!Next \/ UNCHANGED Api!vars
  OBVIOUS
<1>1. CASE Libpulse
  BY <1>1, LibpulseRefines
<1>2. CASE Callbacks
  BY <1>2, CallbackRefines
<1>3. CASE Return
  <2>1. UNCHANGED <<events, flags, deadline>>
    BY <1>3 DEF Return, timing
  <2>2. Wants' = Wants
    BY <2>1, WantsStay
  <2> QED
    BY <1>3, <2>2 DEF Return, Api!Next, Api!Return, events
<1>4. CASE UpdateTime \/ Tick \/ (\E e \in Io : Socket(e)) \/ UNCHANGED vars
  <2>1. UNCHANGED <<events, flags, deadline>> /\ UNCHANGED call
    BY <1>4 DEF UpdateTime, Tick, Socket, vars, timing
  <2>2. Wants' = Wants
    BY <2>1, WantsStay
  <2> QED
    BY <2>1, <2>2 DEF Api!vars, events, call
<1> QED
  BY <1>1, <1>2, <1>3, <1>4 DEF Next

\* The adapter keeps the promises of the interface: no event is called that was freed or
\* not asked for, callbacks do not nest, and a destroy callback is called once.
THEOREM Refinement == Spec => ImplementsApi
BY ApiInit, StepRefines, Invariance, PTL DEF Spec, ImplementsApi, Api!Spec

===============================================================================
