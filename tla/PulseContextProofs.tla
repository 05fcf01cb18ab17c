-------------------------- MODULE PulseContextProofs --------------------------
(* Proofs about PulseContext, for every number of calls. *)
EXTENDS PulseContext, TLAPS

-------------------------------------------------------------------------------
(* Queues *)

\* In the sequence s, c comes before d.
InLine(s, c, d) == \E i, j \in DOMAIN s : i < j /\ s[i] = c /\ s[j] = d

\* Nothing is twice in the sequence s.
Once(s) == \A c \in ToSet(s) : ~InLine(s, c, c)

\* Once is IsInjective, for sequences.
LEMMA OnceIsInjective ==
  ASSUME NEW S, NEW s \in Seq(S)
  PROVE  IsInjective(s) <=> Once(s)
<1>1. DOMAIN s = 1 .. Len(s) /\ Len(s) \in Nat
  OBVIOUS
<1>2. ASSUME IsInjective(s) PROVE Once(s)
  BY <1>1, <1>2 DEF IsInjective, Once, InLine
<1>3. ASSUME Once(s) PROVE IsInjective(s)
  <2> SUFFICES ASSUME NEW i \in DOMAIN s, NEW j \in DOMAIN s, s[i] = s[j], i # j PROVE FALSE
    BY DEF IsInjective
  <2>1. i < j \/ j < i
    BY <1>1
  <2>2. InLine(s, s[i], s[i]) /\ s[i] \in ToSet(s)
    BY <2>1 DEF InLine, ToSet
  <2> QED
    BY <1>3, <2>2 DEF Once
<1> QED
  BY <1>2, <1>3

\* Append adds one element, behind all others.
LEMMA AppendEffect ==
  ASSUME NEW S, NEW s \in Seq(S), NEW e \in S
  PROVE  /\ Append(s, e) \in Seq(S)
         /\ ToSet(Append(s, e)) = ToSet(s) \cup {e}
         /\ \A c, d : InLine(Append(s, e), c, d) <=> InLine(s, c, d) \/ (c \in ToSet(s) /\ d = e)
<1> DEFINE t == Append(s, e)
<1>1. /\ DOMAIN s = 1 .. Len(s) /\ Len(s) \in Nat
      /\ t \in Seq(S) /\ DOMAIN t = 1 .. Len(s) + 1
      /\ \A i \in 1 .. Len(s) : t[i] = s[i]
      /\ t[Len(s) + 1] = e
  OBVIOUS
<1> HIDE DEF t
<1>2. ToSet(t) = ToSet(s) \cup {e}
  BY <1>1 DEF ToSet
<1>3. ASSUME NEW c, NEW d
      PROVE  InLine(t, c, d) <=> InLine(s, c, d) \/ (c \in ToSet(s) /\ d = e)
  <2>1. ASSUME InLine(t, c, d) PROVE InLine(s, c, d) \/ (c \in ToSet(s) /\ d = e)
    <3>1. PICK i \in DOMAIN t, j \in DOMAIN t : i < j /\ t[i] = c /\ t[j] = d
      BY <2>1 DEF InLine
    <3>2. i \in DOMAIN s /\ s[i] = c
      BY <1>1, <3>1
    <3>3. CASE j = Len(s) + 1
      BY <1>1, <3>1, <3>2, <3>3 DEF ToSet
    <3>4. CASE j # Len(s) + 1
      <4>1. j \in DOMAIN s /\ s[j] = d
        BY <1>1, <3>1, <3>4
      <4> QED
        BY <3>1, <3>2, <4>1 DEF InLine
    <3> QED
      BY <3>3, <3>4
  <2>2. ASSUME InLine(s, c, d) PROVE InLine(t, c, d)
    <3>1. PICK i \in DOMAIN s, j \in DOMAIN s : i < j /\ s[i] = c /\ s[j] = d
      BY <2>2 DEF InLine
    <3>2. i \in DOMAIN t /\ j \in DOMAIN t /\ t[i] = c /\ t[j] = d
      BY <1>1, <3>1
    <3> QED
      BY <3>1, <3>2 DEF InLine
  <2>3. ASSUME c \in ToSet(s), d = e PROVE InLine(t, c, d)
    <3>1. PICK i \in DOMAIN s : s[i] = c
      BY <2>3 DEF ToSet
    <3>2. /\ i \in DOMAIN t /\ Len(s) + 1 \in DOMAIN t /\ i < Len(s) + 1
          /\ t[i] = c /\ t[Len(s) + 1] = d
      BY <1>1, <2>3, <3>1
    <3> QED
      BY <3>2 DEF InLine
  <2> QED
    BY <2>1, <2>2, <2>3
<1> QED
  BY <1>1, <1>2, <1>3 DEF t

\* Head and Tail take the first element from the others.
LEMMA TailEffect ==
  ASSUME NEW S, NEW s \in Seq(S), s # <<>>
  PROVE  /\ Head(s) \in S /\ Tail(s) \in Seq(S)
         /\ ToSet(s) = {Head(s)} \cup ToSet(Tail(s))
         /\ \A c, d : InLine(Tail(s), c, d) => InLine(s, c, d)
         /\ \A d \in ToSet(Tail(s)) : InLine(s, Head(s), d)
<1> DEFINE t == Tail(s)
<1>1. /\ DOMAIN s = 1 .. Len(s) /\ Len(s) \in Nat \ {0}
      /\ t \in Seq(S) /\ DOMAIN t = 1 .. Len(s) - 1
      /\ \A i \in 1 .. Len(s) - 1 : t[i] = s[i + 1]
      /\ Head(s) = s[1] /\ s[1] \in S
  OBVIOUS
<1> HIDE DEF t
<1>2. ToSet(s) = {Head(s)} \cup ToSet(t)
  <2>1. ASSUME NEW i \in DOMAIN s, i # 1 PROVE s[i] \in ToSet(t)
    <3>1. i - 1 \in DOMAIN t /\ t[i - 1] = s[i]
      BY <1>1, <2>1
    <3> QED
      BY <3>1 DEF ToSet
  <2>2. \A i \in DOMAIN t : i + 1 \in DOMAIN s /\ t[i] = s[i + 1]
    BY <1>1
  <2>3. 1 \in DOMAIN s
    BY <1>1
  <2> QED
    BY <1>1, <2>1, <2>2, <2>3 DEF ToSet
<1>3. ASSUME NEW c, NEW d, InLine(t, c, d) PROVE InLine(s, c, d)
  <2>1. PICK i \in DOMAIN t, j \in DOMAIN t : i < j /\ t[i] = c /\ t[j] = d
    BY <1>3 DEF InLine
  <2>2. /\ i + 1 \in DOMAIN s /\ j + 1 \in DOMAIN s /\ i + 1 < j + 1
        /\ s[i + 1] = c /\ s[j + 1] = d
    BY <1>1, <2>1
  <2> QED
    BY <2>2 DEF InLine
<1>4. ASSUME NEW d \in ToSet(t) PROVE InLine(s, Head(s), d)
  <2>1. PICK i \in DOMAIN t : t[i] = d
    BY DEF ToSet
  <2>2. 1 \in DOMAIN s /\ i + 1 \in DOMAIN s /\ 1 < i + 1 /\ s[1] = Head(s) /\ s[i + 1] = d
    BY <1>1, <2>1
  <2> QED
    BY <2>2 DEF InLine
<1> QED
  BY <1>1, <1>2, <1>3, <1>4 DEF t

\* One sequence after another has the elements of both, and nothing twice if they have
\* nothing in common.
LEMMA ConcatEffect ==
  ASSUME NEW S, NEW s \in Seq(S), NEW t \in Seq(S)
  PROVE  /\ s \o t \in Seq(S)
         /\ ToSet(s \o t) = ToSet(s) \cup ToSet(t)
         /\ IsInjective(s \o t)
              <=> IsInjective(s) /\ IsInjective(t) /\ ToSet(s) \cap ToSet(t) = {}
<1> DEFINE u == s \o t
<1>1. /\ DOMAIN s = 1 .. Len(s) /\ Len(s) \in Nat
      /\ DOMAIN t = 1 .. Len(t) /\ Len(t) \in Nat
      /\ u \in Seq(S) /\ DOMAIN u = 1 .. Len(s) + Len(t)
      /\ \A i \in 1 .. Len(s) : u[i] = s[i]
      /\ \A i \in 1 .. Len(t) : u[Len(s) + i] = t[i]
  OBVIOUS
<1> HIDE DEF u
<1>2. /\ \A i \in DOMAIN s : i \in DOMAIN u /\ u[i] = s[i]
      /\ \A i \in DOMAIN t : Len(s) + i \in DOMAIN u /\ u[Len(s) + i] = t[i]
      /\ \A i \in DOMAIN u : i \in DOMAIN s \/ i - Len(s) \in DOMAIN t
  BY <1>1
<1>3. \A i \in DOMAIN u : \/ i \in DOMAIN s /\ u[i] = s[i]
                          \/ i - Len(s) \in DOMAIN t /\ u[i] = t[i - Len(s)]
  <2> SUFFICES ASSUME NEW i \in DOMAIN u, i \notin DOMAIN s
               PROVE  i - Len(s) \in DOMAIN t /\ u[i] = t[i - Len(s)]
    BY <1>2
  <2>1. i - Len(s) \in DOMAIN t /\ Len(s) + (i - Len(s)) = i
    BY <1>1, <1>2
  <2> QED
    BY <1>2, <2>1
<1>4. ToSet(u) = ToSet(s) \cup ToSet(t)
  BY <1>2, <1>3 DEF ToSet
<1>5. ASSUME IsInjective(u)
      PROVE  IsInjective(s) /\ IsInjective(t) /\ ToSet(s) \cap ToSet(t) = {}
  <2>1. IsInjective(s)
    BY <1>2, <1>5 DEF IsInjective
  <2>2. ASSUME NEW i \in DOMAIN t, NEW j \in DOMAIN t, t[i] = t[j] PROVE i = j
    <3>1. Len(s) + i = Len(s) + j
      BY <1>2, <1>5, <2>2 DEF IsInjective
    <3> QED
      BY <1>1, <3>1
  <2>3. ASSUME NEW i \in DOMAIN s, NEW j \in DOMAIN t, s[i] = t[j] PROVE FALSE
    <3>1. i = Len(s) + j
      BY <1>2, <1>5, <2>3 DEF IsInjective
    <3> QED
      BY <1>1, <3>1
  <2> QED
    BY <2>1, <2>2, <2>3 DEF IsInjective, ToSet
<1>6. ASSUME IsInjective(s), IsInjective(t), ToSet(s) \cap ToSet(t) = {}
      PROVE  IsInjective(u)
  <2> SUFFICES ASSUME NEW i \in DOMAIN u, NEW j \in DOMAIN u, u[i] = u[j] PROVE i = j
    BY DEF IsInjective
  <2>1. \A a \in DOMAIN s, b \in DOMAIN t : s[a] # t[b]
    BY <1>6 DEF ToSet
  <2>2. CASE i \in DOMAIN s /\ u[i] = s[i]
    BY <1>3, <1>6, <2>1, <2>2 DEF IsInjective
  <2>3. CASE i - Len(s) \in DOMAIN t /\ u[i] = t[i - Len(s)]
    <3>1. j - Len(s) \in DOMAIN t /\ u[j] = t[j - Len(s)]
      BY <1>3, <2>1, <2>3
    <3>2. i - Len(s) = j - Len(s)
      BY <1>6, <2>3, <3>1 DEF IsInjective
    <3> QED
      BY <1>1, <3>2
  <2> QED
    BY <1>3, <2>2, <2>3
<1> QED
  BY <1>1, <1>4, <1>5, <1>6 DEF u

\* A sequence of calls stays one when more are made.
LEMMA SeqMonotone ==
  ASSUME NEW m \in Nat, NEW n \in Nat, m <= n, NEW s \in Seq(1 .. m)
  PROVE  s \in Seq(1 .. n)
<1>1. 1 .. m \subseteq 1 .. n
  OBVIOUS
<1>2. s \in [1 .. Len(s) -> 1 .. n] /\ Len(s) \in Nat
  BY <1>1
<1> QED
  BY <1>2

-------------------------------------------------------------------------------
(* Types *)

Operations == {"none", "running", "done", "cancelled", "refused"}
Promises   == {"none", "pending", "resolved", "rejected"}
Answers    == {"none", "ok", "error"}

\* A new call has a number of its own, and the queues may take it.
LEMMA NewCallFacts ==
  ASSUME TypeOK, called < MaxCalls
  PROVE  /\ MaxCalls \in Nat /\ called \in Nat /\ called + 1 \in Calls
         /\ called + 1 \in 0 .. MaxCalls
         /\ 1 .. called \subseteq 1 .. called + 1 /\ called + 1 \in 1 .. called + 1
         /\ {waiting, emitting, microtasks, issued} \subseteq Seq(1 .. called + 1)
<1>1. MaxCalls \in Nat /\ called \in Nat /\ called + 1 \in 0 .. MaxCalls /\ called + 1 \in Calls
  BY ContextAssumption DEF TypeOK, Calls
<1>2. 1 .. called \subseteq 1 .. called + 1 /\ called + 1 \in 1 .. called + 1
  BY <1>1
<1>3. \A s \in Seq(1 .. called) : s \in Seq(1 .. called + 1)
  BY <1>1, SeqMonotone
<1> QED
  BY <1>1, <1>2, <1>3 DEF TypeOK

\* A queue gives its first call, which is one that has been made.
LEMMA HeadFacts ==
  ASSUME TypeOK, NEW s \in {waiting, emitting, microtasks, issued}, s # <<>>
  PROVE  Head(s) \in 1 .. called /\ Head(s) \in Calls /\ Tail(s) \in Seq(1 .. called)
<1>1. MaxCalls \in Nat /\ called \in 0 .. MaxCalls
  BY ContextAssumption DEF TypeOK
<1>2. s \in Seq(1 .. called)
  BY DEF TypeOK
<1> QED
  BY <1>1, <1>2, TailEffect DEF Calls

\* Issue appends a call to those issued and decides about its operation.
LEMMA IssueType ==
  ASSUME TypeOK, NEW n \in Nat, NEW c \in 1 .. n, c \in Calls, issued \in Seq(1 .. n), Issue(c)
  PROVE  issued' \in Seq(1 .. n) /\ operation' \in [Calls -> Operations]
<1>1. issued' \in Seq(1 .. n)
  BY AppendEffect DEF Issue
<1>2. operation \in [Calls -> Operations]
  BY DEF TypeOK, Operations
<1>3. operation' \in [Calls -> Operations]
  BY <1>2 DEF Issue, Operations
<1> QED
  BY <1>1, <1>3

\* waitConnection queues the call that has just been made.
LEMMA DeferType ==
  ASSUME TypeOK, called < MaxCalls, NEW s \in {waiting, microtasks}
  PROVE  Append(s, called + 1) \in Seq(1 .. called + 1)
<1>1. s \in Seq(1 .. called + 1) /\ called + 1 \in 1 .. called + 1
  BY NewCallFacts
<1> QED
  BY <1>1, AppendEffect

\* The types hold at first.
LEMMA TypeInit == Init => TypeOK
<1> SUFFICES ASSUME Init PROVE TypeOK
  OBVIOUS
<1>1. 0 \in 0 .. MaxCalls /\ <<>> \in Seq(1 .. 0)
  BY ContextAssumption
<1>2. /\ operation \in [Calls -> Operations] /\ promise \in [Calls -> Promises]
      /\ kind \in [Calls -> Kinds \cup {"none"}] /\ answer \in [Calls -> Answers]
  BY DEF Init, Operations, Promises, Answers
<1>3. called \in 0 .. MaxCalls /\ {waiting, emitting, microtasks, issued} \subseteq Seq(1 .. called)
  BY <1>1 DEF Init
<1>4. before \in 0 .. called
  BY DEF Init
<1> QED
  BY <1>2, <1>3, <1>4 DEF Init, TypeOK, Operations, Promises, Answers

\* Steps that change neither the calls nor the queues nor the answers.
LEMMA TypeStays ==
  ASSUME TypeOK, UNCHANGED <<option, queues, calls, issued, answer>>,
         server' \in {"none", "default", "named", "flags"},
         pa_state' \in {"unconnected", "connecting", "authorizing", "setting_name", "ready",
                        "failed", "terminated"},
         connected' \in BOOLEAN, announcing' \subseteq {"ready", "failed", "terminated"},
         before' \in {before, called},
         throwing' \in BOOLEAN, crashed' \in BOOLEAN,
         operation' \in [Calls -> Operations], promise' \in [Calls -> Promises]
  PROVE  TypeOK'
<1>1. called' = called /\ before' \in 0 .. called
  <2>1. called \in Nat /\ before \in 0 .. called
    BY ContextAssumption DEF TypeOK
  <2> QED
    BY <2>1 DEF calls
<1> QED
  BY <1>1 DEF TypeOK, queues, calls, Operations, Promises

\* Cancelling keeps the type of the operations.
LEMMA CancelledType == TypeOK => Cancelled \in [Calls -> Operations]
BY DEF TypeOK, Cancelled, Operations

\* Rejecting keeps the type of the promises.
LEMMA RejectedType == TypeOK /\ EmitError => promise' \in [Calls -> Promises]
BY DEF TypeOK, EmitError, Promises

\* Every step keeps the types.
LEMMA TypeStep == TypeOK /\ [Next]_vars => TypeOK'
<1> SUFFICES ASSUME TypeOK, [Next]_vars PROVE TypeOK'
  OBVIOUS
<1>1. MaxCalls \in Nat /\ called \in Nat
  BY ContextAssumption DEF TypeOK
<1>2. /\ operation \in [Calls -> Operations] /\ promise \in [Calls -> Promises]
      /\ kind \in [Calls -> Kinds \cup {"none"}] /\ answer \in [Calls -> Answers]
  BY DEF TypeOK, Operations, Promises, Answers
<1>3. ASSUME NEW k \in Kinds, CallMethod(k) PROVE TypeOK'
  <2>1. called < MaxCalls /\ called' = called + 1
    BY <1>3 DEF CallMethod
  <2>2. kind' \in [Calls -> Kinds \cup {"none"}] /\ promise' \in [Calls -> Promises]
    BY <1>2, <1>3, <2>1, NewCallFacts DEF CallMethod, Promises
  <2>3. waiting' \in Seq(1 .. called') /\ microtasks' \in Seq(1 .. called')
    <3>1. /\ waiting' \in {waiting, Append(waiting, called + 1)}
          /\ microtasks' \in {microtasks, Append(microtasks, called + 1)}
      BY <1>3 DEF CallMethod, Defer
    <3> QED
      BY <2>1, <3>1, NewCallFacts, DeferType
  <2>4. deferred' \subseteq 1 .. called'
    BY <1>3, <2>1, NewCallFacts DEF CallMethod, Defer, TypeOK
  <2>5. emitting' \in Seq(1 .. called') /\ issued' \in Seq(1 .. called')
    BY <1>3, <2>1, NewCallFacts DEF CallMethod
  <2>6. UNCHANGED <<connection, operation, crashed, answer>> /\ called' \in 0 .. MaxCalls
    BY <1>3, <2>1, NewCallFacts DEF CallMethod
  <2>7. before' \in 0 .. called'
    BY <1>1, <2>1, <2>6 DEF TypeOK, connection
  <2> QED
    BY <2>2, <2>3, <2>4, <2>5, <2>6, <2>7 DEF TypeOK, connection, Promises
<1>4. CASE CreateStream
  <2>1. called < MaxCalls /\ called' = called + 1
    BY <1>4 DEF CreateStream
  <2>2. kind' \in [Calls -> Kinds \cup {"none"}]
    BY <1>2, <1>4, <2>1, NewCallFacts DEF CreateStream, Kinds
  <2>3. issued' \in Seq(1 .. called') /\ operation' \in [Calls -> Operations]
    <3>1. CASE Issue(called + 1)
      <4>1. called + 1 \in Nat
        BY <1>1
      <4> QED
        BY <2>1, <3>1, <4>1, NewCallFacts, IssueType
    <3>2. CASE UNCHANGED <<operation, issued>>
      BY <1>2, <2>1, <3>2, NewCallFacts
    <3> QED
      BY <1>4, <3>1, <3>2 DEF CreateStream
  <2>4. waiting' \in Seq(1 .. called') /\ microtasks' \in Seq(1 .. called')
    <3>1. /\ waiting' \in {waiting, Append(waiting, called + 1)}
          /\ microtasks' \in {microtasks, Append(microtasks, called + 1)}
      BY <1>4 DEF CreateStream, Defer
    <3> QED
      BY <2>1, <3>1, NewCallFacts, DeferType
  <2>5. deferred' \subseteq 1 .. called'
    BY <1>4, <2>1, NewCallFacts DEF CreateStream, Defer, TypeOK
  <2>6. /\ UNCHANGED <<connection, promise, crashed, answer>> /\ called' \in 0 .. MaxCalls
        /\ emitting' \in Seq(1 .. called')
    BY <1>4, <2>1, NewCallFacts DEF CreateStream
  <2>7. before' \in 0 .. called'
    BY <1>1, <2>1, <2>6 DEF TypeOK, connection
  <2> QED
    BY <2>2, <2>3, <2>4, <2>5, <2>6, <2>7 DEF TypeOK, connection, Operations
<1>5. CASE EmitConnection
  <2> DEFINE c == Head(emitting)
  <2>1. c \in 1 .. called /\ c \in Calls /\ emitting' \in Seq(1 .. called)
    BY <1>5, HeadFacts DEF EmitConnection
  <2>2. UNCHANGED <<connection, waiting, promise, calls, answer>>
    BY <1>5 DEF EmitConnection
  <2>3. crashed' \in BOOLEAN
    BY <1>5 DEF EmitConnection, TypeOK
  <2>4. CASE microtasks' = Append(microtasks, c) /\ UNCHANGED <<operation, issued>>
    <3>1. microtasks' \in Seq(1 .. called)
      BY <2>1, <2>4, AppendEffect DEF TypeOK
    <3> QED
      BY <2>1, <2>2, <2>3, <2>4, <3>1 DEF TypeOK, connection, calls
  <2>5. CASE Issue(c) /\ UNCHANGED microtasks
    <3>1. issued' \in Seq(1 .. called) /\ operation' \in [Calls -> Operations]
      BY <1>1, <2>1, <2>5, IssueType DEF TypeOK
    <3> QED
      BY <2>1, <2>2, <2>3, <2>5, <3>1 DEF TypeOK, connection, calls, Operations
  <2> QED
    BY <1>5, <2>4, <2>5 DEF EmitConnection
<1>6. CASE Continue
  <2>1. /\ Head(microtasks) \in 1 .. called /\ Head(microtasks) \in Calls
        /\ microtasks' \in Seq(1 .. called)
    BY <1>6, HeadFacts DEF Continue
  <2>2. issued' \in Seq(1 .. called) /\ operation' \in [Calls -> Operations]
    BY <1>1, <1>6, <2>1, IssueType DEF Continue, TypeOK
  <2> QED
    BY <1>6, <2>1, <2>2 DEF Continue, TypeOK, connection, calls, Operations
<1>7. CASE Connection
  <2>1. {waiting', emitting', microtasks', issued'} \subseteq Seq(1 .. called)
    BY <1>7 DEF Connection, Release, TypeOK
  <2> QED
    BY <1>7, <2>1 DEF Connection, TypeOK, calls
<1>8. CASE End
  BY <1>2, <1>8, TypeStays, CancelledType DEF End, TypeOK
<1>9. CASE Connect
  BY <1>2, <1>9, TypeStays DEF Connect, ServerName, TypeOK
<1>10. CASE ConnectFails
  BY <1>2, <1>10, TypeStays DEF ConnectFails, Fail, ServerName, TypeOK
<1>11. CASE ConnectThrows
  BY <1>2, <1>11, TypeStays, RejectedType DEF ConnectThrows, TypeOK
<1>12. CASE Advance \/ StateReady
  BY <1>2, <1>12, TypeStays DEF Advance, StateReady, TypeOK
<1>13. CASE StateFailed
  BY <1>2, <1>13, TypeStays, CancelledType DEF StateFailed, Fail, TypeOK
<1>16. CASE Failure
  BY <1>2, <1>16, TypeStays, RejectedType DEF Failure, TypeOK
<1>17. CASE Closed
  BY <1>2, <1>17, TypeStays DEF Closed, TypeOK
<1>14. CASE Replies
  <2>1. PICK c \in Calls, verdict \in {"ok", "error"} : Reply(c, verdict)
    BY <1>14 DEF Replies
  <2>2. operation' \in [Calls -> Operations] /\ answer' \in [Calls -> Answers]
    BY <1>2, <2>1 DEF Reply, Operations, Answers
  <2>3. promise' \in [Calls -> Promises] /\ crashed' \in BOOLEAN
    BY <1>2, <2>1 DEF Reply, Resolve, Promises, TypeOK
  <2> QED
    BY <2>1, <2>2, <2>3 DEF Reply, TypeOK, connection, queues, calls, Operations, Promises, Answers
<1>15. CASE UNCHANGED vars
  BY <1>15 DEF vars, TypeOK, connection, queues, calls
<1> QED
  BY <1>3, <1>4, <1>5, <1>6, <1>7, <1>8, <1>9, <1>10, <1>11, <1>12, <1>13, <1>14, <1>15,
     <1>16, <1>17 DEF Next, Application, Startup, Kinds

-------------------------------------------------------------------------------
(* The invariant *)

\* Of a call that has not been made there is nothing; one that has been made has a kind.
MadeInv ==
  \A c \in Calls :
    /\ c > called => operation[c] = "none" /\ promise[c] = "none" /\ kind[c] = "none"
    /\ c <= called => kind[c] # "none"

Early == pa_state \in {"unconnected", "connecting", "authorizing", "setting_name"}

\* Until 'connection' is emitted nothing has left `waiting`; it is emitted by a context
\* that is up or has been ended meanwhile.  While a failure is announced, only calls made
\* since are in the microtasks.  connect() throws when the connection is lost.
PhaseInv ==
  /\ Early \/ "ready" \in announcing => /\ ~connected /\ emitting = <<>> /\ microtasks = <<>>
                                       /\ issued = <<>>
  /\ "ready" \in announcing \/ emitting # <<>> => pa_state \in {"ready", "terminated"}
  /\ "failed" \in announcing => /\ pa_state = "failed" /\ emitting = <<>>
                               /\ \A c \in ToSet(microtasks) : c > before
  /\ throwing => Lost

\* InOnePlace, queue by queue.
PlaceInv ==
  /\ Once(waiting) /\ Once(emitting) /\ Once(microtasks)
  /\ ToSet(waiting) \cap ToSet(emitting) = {} /\ ToSet(waiting) \cap ToSet(microtasks) = {}
  /\ ToSet(emitting) \cap ToSet(microtasks) = {}
  /\ \A c \in 1 .. called :
       c \in ToSet(waiting) \cup ToSet(emitting) \cup ToSet(microtasks) <=> operation[c] = "none"

\* The calls of the sequence s come in an order in which they may reach libpulse.
Orderly(s) == \A c, d \in Calls : InLine(s, c, d) => MayPrecede(c, d)

\* So do the calls of s and then those of t.
InTurn(s, t) == \A c \in ToSet(s), d \in ToSet(t) : MayPrecede(c, d)

\* What IssueOrder needs of the queues: those that wait are deferred and in the order they
\* were made, and no call is behind one that it must not follow.
OrderInv ==
  /\ ToSet(waiting) \cup ToSet(emitting) \subseteq deferred
  /\ \A c, d \in Calls : InLine(waiting, c, d) \/ InLine(emitting, c, d) => c < d
  /\ \A c \in ToSet(microtasks) : kind[c] # "stream"
  /\ Orderly(issued) /\ Orderly(microtasks)
  /\ InTurn(issued, microtasks) /\ InTurn(issued, emitting) /\ InTurn(microtasks, emitting)

\* PendingIsOwed, also of a connection that is not up yet.
PendingInv ==
  ~Lost /\ ~crashed =>
    \A c \in 1 .. called :
      kind[c] # "stream" => (promise[c] = "pending" <=> operation[c] \in {"none", "running"})

\* The inductive invariant.
Inv ==
  /\ TypeOK /\ MadeInv /\ PhaseInv /\ PlaceInv /\ OrderInv /\ PendingInv
  /\ RefusedOnlyWhenLost /\ SurvivesLoss

\* Nothing is in an empty queue.
LEMMA EmptyQueue == ToSet(<<>>) = {} /\ \A c, d : ~InLine(<<>>, c, d)
BY DEF ToSet, InLine

\* The invariant holds at first, when no call has been made.
LEMMA InitInv == Init => Inv
<1> SUFFICES ASSUME Init PROVE Inv
  OBVIOUS
<1>1. TypeOK
  BY TypeInit
<1>2. \A c \in Calls : c \in Nat \ {0}
  BY DEF Calls
<1>3. MadeInv
  BY <1>2 DEF Init, MadeInv
<1>4. PhaseInv
  BY DEF Init, PhaseInv
<1>5. PlaceInv
  BY EmptyQueue DEF Init, PlaceInv, Once
<1>6. OrderInv
  BY EmptyQueue DEF Init, OrderInv, Orderly, InTurn
<1>7. PendingInv
  BY DEF Init, PendingInv
<1>8. RefusedOnlyWhenLost /\ SurvivesLoss
  BY DEF Init, RefusedOnlyWhenLost, SurvivesLoss
<1> QED
  BY <1>1, <1>3, <1>4, <1>5, <1>6, <1>7, <1>8 DEF Inv

\* Whether two calls may follow one another is settled when they are made.
LEMMA PrecedenceStays ==
  ASSUME TypeOK, NEW c \in 1 .. called, NEW d \in 1 .. called,
         kind'[c] = kind[c], kind'[d] = kind[d],
         c \in deferred' <=> c \in deferred, d \in deferred' <=> d \in deferred
  PROVE  MayPrecede(c, d)' <=> MayPrecede(c, d)
BY DEF MayPrecede

\* What a sequence holds and compares are its elements.
LEMMA MembersOf ==
  ASSUME NEW S, NEW s \in Seq(S)
  PROVE  ToSet(s) \subseteq S /\ \A c, d : InLine(s, c, d) => c \in ToSet(s) /\ d \in ToSet(s)
<1>1. \A i \in DOMAIN s : s[i] \in S
  OBVIOUS
<1> QED
  BY <1>1 DEF ToSet, InLine

\* What the queues hold are calls that have been made.
LEMMA MembersMade ==
  ASSUME TypeOK, NEW s \in {waiting, emitting, microtasks, issued}
  PROVE  /\ s \in Seq(1 .. called) /\ ToSet(s) \subseteq 1 .. called /\ ToSet(s) \subseteq Calls
         /\ \A c, d : InLine(s, c, d) => c \in ToSet(s) /\ d \in ToSet(s)
<1>1. s \in Seq(1 .. called)
  BY DEF TypeOK
<1>2. 1 .. called \subseteq Calls
  BY ContextAssumption DEF TypeOK, Calls
<1> QED
  BY <1>1, <1>2, MembersOf

\* Steps that leave the calls and the queues as they are, but for what becomes of calls
\* that libpulse has.
LEMMA QueuesStay ==
  ASSUME Inv, UNCHANGED <<queues, calls, issued>>,
         \A c \in Calls : operation'[c] = "none" <=> operation[c] = "none",
         \A c \in Calls : promise'[c] = "none" <=> promise[c] = "none"
  PROVE  MadeInv' /\ PlaceInv' /\ OrderInv'
<1>1. MadeInv'
  BY DEF Inv, MadeInv, calls
<1>2. PlaceInv'
  <2>1. \A c \in 1 .. called : c \in Calls
    BY ContextAssumption DEF Inv, TypeOK, Calls
  <2> QED
    BY <2>1 DEF Inv, PlaceInv, Once, queues, calls
<1>3. OrderInv'
  BY DEF Inv, OrderInv, Orderly, InTurn, MayPrecede, queues, calls
<1> QED
  BY <1>1, <1>2, <1>3

\* Appending something new keeps a queue without repetitions.
LEMMA AppendOnce ==
  ASSUME NEW S, NEW s \in Seq(S), NEW e \in S, Once(s), e \notin ToSet(s)
  PROVE  Once(Append(s, e))
BY AppendEffect, MembersOf DEF Once

\* Taking the first takes it for good.
LEMMA TailOnce ==
  ASSUME NEW S, NEW s \in Seq(S), s # <<>>, Once(s)
  PROVE  Once(Tail(s)) /\ Head(s) \notin ToSet(Tail(s)) /\ ToSet(Tail(s)) = ToSet(s) \ {Head(s)}
BY TailEffect DEF Once

\* What a call that is being made finds: it is in no queue, after all others, and does
\* not disturb their order.
LEMMA NewCallOrder ==
  ASSUME Inv, called < MaxCalls, called' = called + 1, NEW e, e = called + 1,
         NEW k \in Kinds, kind' = [kind EXCEPT ![called + 1] = k],
         deferred' \in {deferred, deferred \cup {called + 1}},
         \A c \in Calls \ {called + 1} : promise'[c] = promise[c] /\ operation'[c] = operation[c]
  PROVE  /\ e \in Calls /\ operation[e] = "none"
         /\ e \notin ToSet(waiting) \cup ToSet(emitting) \cup ToSet(microtasks)
                               \cup ToSet(issued) \cup deferred
         /\ kind'[e] = k
         /\ \A c \in 1 .. called : c \in Calls /\ c < e /\ kind'[c] = kind[c]
         /\ \A c, d \in 1 .. called : MayPrecede(c, d)' <=> MayPrecede(c, d)
         /\ \A c \in 1 .. called : MayPrecede(c, e)'
         /\ MadeInv'
<1>1. TypeOK /\ MaxCalls \in Nat /\ called \in Nat /\ e \in Calls /\ e = called + 1
  BY NewCallFacts DEF Inv
<1>2. \A c \in 1 .. called : c \in Calls /\ c < called + 1
  BY <1>1 DEF Calls
<1>3. kind \in [Calls -> Kinds \cup {"none"}] /\ deferred \subseteq 1 .. called
  BY <1>1 DEF TypeOK
<1>4. kind'[called + 1] = k /\ \A c \in Calls \ {called + 1} : kind'[c] = kind[c]
  BY <1>1, <1>3
<1>5. called + 1 \notin 1 .. called /\ \A c \in 1 .. called : c # called + 1
  BY <1>1
<1>6. /\ called + 1 \notin ToSet(waiting) /\ called + 1 \notin ToSet(emitting)
      /\ called + 1 \notin ToSet(microtasks) /\ called + 1 \notin ToSet(issued)
      /\ called + 1 \notin deferred
  BY <1>1, <1>3, <1>5, MembersMade
<1>7. \A c \in 1 .. called : kind'[c] = kind[c] /\ (c \in deferred' <=> c \in deferred)
  BY <1>2, <1>4, <1>5
<1>8. operation[called + 1] = "none" /\ MadeInv'
  <2>1. \A c \in Calls : c \in Nat
    BY DEF Calls
  <2>2. operation[called + 1] = "none"
    BY <1>1 DEF Inv, MadeInv
  <2>3. \A c \in Calls : c > called + 1 => c > called /\ c # called + 1
    BY <1>1, <2>1
  <2>4. \A c \in Calls : c <= called + 1 => c <= called \/ c = called + 1
    BY <1>1, <2>1
  <2>5. k # "none"
    BY DEF Kinds
  <2> QED
    BY <1>4, <2>2, <2>3, <2>4, <2>5 DEF Inv, MadeInv
<1>9. \A c \in 1 .. called : MayPrecede(c, e)'
  BY <1>2 DEF MayPrecede
<1> QED
  BY <1>1, <1>2, <1>4, <1>6, <1>7, <1>8, <1>9, PrecedenceStays

\* waitConnection, or _connection, of a context that is not connected.
LEMMA DeferStep ==
  ASSUME Inv, called < MaxCalls, called' = called + 1,
         NEW k \in Kinds, kind' = [kind EXCEPT ![called + 1] = k], Defer(called + 1),
         UNCHANGED <<emitting, issued, operation>>,
         \A c \in Calls \ {called + 1} : promise'[c] = promise[c]
  PROVE  MadeInv' /\ PlaceInv' /\ OrderInv'
<1> PICK e : e = called + 1
  OBVIOUS
<1>1. /\ e \in Calls /\ operation[e] = "none"
      /\ e \notin ToSet(waiting) \cup ToSet(emitting) \cup ToSet(microtasks) \cup ToSet(issued)
                   \cup deferred
      /\ \A c \in 1 .. called : c \in Calls /\ c < e /\ kind'[c] = kind[c]
      /\ \A c, d \in 1 .. called : MayPrecede(c, d)' <=> MayPrecede(c, d)
      /\ MadeInv'
  BY NewCallOrder DEF Defer
<1>2. /\ \A s \in {waiting, emitting, microtasks, issued} :
           /\ ToSet(s) \subseteq 1 .. called
           /\ \A c, d : InLine(s, c, d) => c \in ToSet(s) /\ d \in ToSet(s)
      /\ waiting \in Seq(1 .. called + 1) /\ called + 1 \in 1 .. called + 1
      /\ \A c \in 1 .. called' : c \in 1 .. called \/ c = e
  <2>1. TypeOK /\ called \in Nat
    BY NewCallFacts DEF Inv
  <2>2. waiting \in Seq(1 .. called + 1)
    BY <2>1, NewCallFacts
  <2>3. \A s \in {waiting, emitting, microtasks, issued} :
          /\ ToSet(s) \subseteq 1 .. called
          /\ \A c, d : InLine(s, c, d) => c \in ToSet(s) /\ d \in ToSet(s)
    BY <2>1, MembersMade
  <2>4. called + 1 \in 1 .. called + 1 /\ \A c \in 1 .. called' : c \in 1 .. called \/ c = e
    BY <2>1
  <2> QED
    BY <2>2, <2>3, <2>4
<1>3. /\ ToSet(waiting') = ToSet(waiting) \cup {e}
      /\ \A c, d : InLine(waiting', c, d) <=> InLine(waiting, c, d) \/ (c \in ToSet(waiting) /\ d = e)
  BY <1>2, AppendEffect DEF Defer
<1>4. deferred' = deferred \cup {e} /\ microtasks' = microtasks
  BY DEF Defer
<1>5. PlaceInv'
  <2>1. Once(waiting')
    <3>1. Once(waiting) /\ waiting' = Append(waiting, e) /\ e \in 1 .. called + 1
      BY <1>2 DEF Inv, PlaceInv, Defer
    <3> QED
      BY <1>1, <1>2, <3>1, AppendOnce
  <2>2. /\ ToSet(waiting') \cap ToSet(emitting') = {} /\ ToSet(waiting') \cap ToSet(microtasks') = {}
        /\ ToSet(emitting') \cap ToSet(microtasks') = {}
        /\ Once(emitting') /\ Once(microtasks')
    BY <1>1, <1>3, <1>4 DEF Inv, PlaceInv, Once
  <2>3. \A c \in 1 .. called' :
          c \in ToSet(waiting') \cup ToSet(emitting') \cup ToSet(microtasks')
            <=> operation'[c] = "none"
    BY <1>1, <1>2, <1>3, <1>4 DEF Inv, PlaceInv
  <2> QED
    BY <2>1, <2>2, <2>3 DEF PlaceInv
<1>6. OrderInv'
  <2>1. ToSet(waiting') \cup ToSet(emitting') \subseteq deferred'
    BY <1>3, <1>4 DEF Inv, OrderInv
  <2>2. \A c, d \in Calls : InLine(waiting', c, d) \/ InLine(emitting', c, d) => c < d
    BY <1>1, <1>2, <1>3 DEF Inv, OrderInv
  <2>3. \A c \in ToSet(microtasks') : kind'[c] # "stream"
    BY <1>1, <1>2, <1>4 DEF Inv, OrderInv
  <2>4. Orderly(issued)' /\ Orderly(microtasks)'
    BY <1>1, <1>2, <1>4 DEF Inv, OrderInv, Orderly
  <2>5. InTurn(issued, microtasks)' /\ InTurn(issued, emitting)' /\ InTurn(microtasks, emitting)'
    BY <1>1, <1>2, <1>4 DEF Inv, OrderInv, InTurn
  <2> QED
    BY <2>1, <2>2, <2>3, <2>4, <2>5 DEF OrderInv
<1> QED
  BY <1>1, <1>5, <1>6

\* A method of a connected context: its call goes on in a microtask.
LEMMA QueueStep ==
  ASSUME Inv, called < MaxCalls, called' = called + 1,
         NEW k \in Kinds \ {"stream"}, kind' = [kind EXCEPT ![called + 1] = k],
         microtasks' = Append(microtasks, called + 1),
         UNCHANGED <<waiting, emitting, deferred, issued, operation>>,
         \A c \in Calls \ {called + 1} : promise'[c] = promise[c]
  PROVE  MadeInv' /\ PlaceInv' /\ OrderInv'
<1> PICK e : e = called + 1
  OBVIOUS
<1>1. /\ e \in Calls /\ operation[e] = "none"
      /\ e \notin ToSet(waiting) \cup ToSet(emitting) \cup ToSet(microtasks) \cup ToSet(issued)
                   \cup deferred
      /\ kind'[e] = k
      /\ \A c \in 1 .. called : c \in Calls /\ c < e /\ kind'[c] = kind[c]
      /\ \A c, d \in 1 .. called : MayPrecede(c, d)' <=> MayPrecede(c, d)
      /\ \A c \in 1 .. called : MayPrecede(c, e)'
      /\ MadeInv'
  BY NewCallOrder
<1>2. /\ \A s \in {waiting, emitting, microtasks, issued} :
           /\ ToSet(s) \subseteq 1 .. called
           /\ \A c, d : InLine(s, c, d) => c \in ToSet(s) /\ d \in ToSet(s)
      /\ microtasks \in Seq(1 .. called + 1) /\ called + 1 \in 1 .. called + 1
      /\ \A c \in 1 .. called' : c \in 1 .. called \/ c = e
  <2>1. TypeOK /\ called \in Nat
    BY NewCallFacts DEF Inv
  <2>2. microtasks \in Seq(1 .. called + 1)
    BY <2>1, NewCallFacts
  <2>3. \A s \in {waiting, emitting, microtasks, issued} :
          /\ ToSet(s) \subseteq 1 .. called
          /\ \A c, d : InLine(s, c, d) => c \in ToSet(s) /\ d \in ToSet(s)
    BY <2>1, MembersMade
  <2>4. called + 1 \in 1 .. called + 1 /\ \A c \in 1 .. called' : c \in 1 .. called \/ c = e
    BY <2>1
  <2> QED
    BY <2>2, <2>3, <2>4
<1>3. /\ ToSet(microtasks') = ToSet(microtasks) \cup {e}
      /\ \A c, d : InLine(microtasks', c, d)
                     <=> InLine(microtasks, c, d) \/ (c \in ToSet(microtasks) /\ d = e)
  <2>1. microtasks' = Append(microtasks, e) /\ e \in 1 .. called + 1
    BY <1>2
  <2> QED
    BY <1>2, <2>1, AppendEffect
<1>4. deferred' = deferred /\ waiting' = waiting /\ emitting' = emitting /\ issued' = issued
      /\ operation' = operation /\ ToSet(emitting) \subseteq deferred
  BY DEF Inv, OrderInv
<1>5. \A d \in ToSet(emitting) : MayPrecede(e, d)'
  BY <1>1, <1>4 DEF MayPrecede
<1>6. PlaceInv'
  <2>1. Once(microtasks')
    <3>1. Once(microtasks) /\ microtasks' = Append(microtasks, e) /\ e \in 1 .. called + 1
      BY <1>2 DEF Inv, PlaceInv
    <3> QED
      BY <1>1, <1>2, <3>1, AppendOnce
  <2>2. /\ ToSet(waiting') \cap ToSet(emitting') = {} /\ ToSet(waiting') \cap ToSet(microtasks') = {}
        /\ ToSet(emitting') \cap ToSet(microtasks') = {}
        /\ Once(waiting') /\ Once(emitting')
    BY <1>1, <1>3, <1>4 DEF Inv, PlaceInv
  <2>3. \A c \in 1 .. called' :
          c \in ToSet(waiting') \cup ToSet(emitting') \cup ToSet(microtasks')
            <=> operation'[c] = "none"
    BY <1>1, <1>2, <1>3, <1>4 DEF Inv, PlaceInv
  <2> QED
    BY <2>1, <2>2, <2>3 DEF PlaceInv
<1>7. OrderInv'
  <2>1. ToSet(waiting') \cup ToSet(emitting') \subseteq deferred'
    BY <1>4 DEF Inv, OrderInv
  <2>2. \A c, d \in Calls : InLine(waiting', c, d) \/ InLine(emitting', c, d) => c < d
    BY <1>4 DEF Inv, OrderInv
  <2>3. \A c \in ToSet(microtasks') : kind'[c] # "stream"
    BY <1>1, <1>2, <1>3 DEF Inv, OrderInv
  <2>4. Orderly(issued)' /\ Orderly(microtasks)'
    BY <1>1, <1>2, <1>3, <1>4 DEF Inv, OrderInv, Orderly
  <2>5. InTurn(issued, microtasks)'
    BY <1>1, <1>2, <1>3, <1>4, <1>5 DEF Inv, OrderInv, InTurn
  <2>6. InTurn(issued, emitting)'
    BY <1>1, <1>2, <1>3, <1>4, <1>5 DEF Inv, OrderInv, InTurn
  <2>7. InTurn(microtasks, emitting)'
    BY <1>1, <1>2, <1>3, <1>4, <1>5 DEF Inv, OrderInv, InTurn
  <2> QED
    BY <2>1, <2>2, <2>3, <2>4, <2>5, <2>6, <2>7 DEF OrderInv
<1> QED
  BY <1>1, <1>6, <1>7

\* What Issue changes, whichever way libpulse decides.
LEMMA IssueEffect ==
  ASSUME NEW n, issued \in Seq(n), NEW c \in n, c \in Calls, Issue(c),
         operation \in [Calls -> Operations]
  PROVE  /\ operation'[c] # "none" /\ \A d \in Calls \ {c} : operation'[d] = operation[d]
         /\ ToSet(issued') = ToSet(issued) \cup {c}
         /\ \A a, b : InLine(issued', a, b) <=> InLine(issued, a, b) \/ (a \in ToSet(issued) /\ b = c)
<1>1. operation'[c] # "none" /\ \A d \in Calls \ {c} : operation'[d] = operation[d]
  BY DEF Issue
<1>2. issued' = Append(issued, c)
  BY DEF Issue
<1> QED
  BY <1>1, <1>2, AppendEffect

\* A stream of a connected context asks libpulse at once.
LEMMA NewStreamStep ==
  ASSUME Inv, called < MaxCalls, called' = called + 1,
         kind' = [kind EXCEPT ![called + 1] = "stream"], Issue(called + 1),
         UNCHANGED <<queues, deferred, promise>>
  PROVE  PlaceInv' /\ OrderInv'
<1> PICK e : e = called + 1
  OBVIOUS
<1>0. operation \in [Calls -> Operations]
  BY DEF Inv, TypeOK, Operations
<1>1. /\ \A s \in {waiting, emitting, microtasks, issued} :
           /\ ToSet(s) \subseteq 1 .. called
           /\ \A c, d : InLine(s, c, d) => c \in ToSet(s) /\ d \in ToSet(s)
      /\ issued \in Seq(1 .. called + 1) /\ called + 1 \in 1 .. called + 1
      /\ called + 1 \in Calls
      /\ \A c \in 1 .. called' : c \in 1 .. called \/ c = e
  <2>1. TypeOK /\ called \in Nat
    BY NewCallFacts DEF Inv
  <2>2. issued \in Seq(1 .. called + 1) /\ called + 1 \in Calls
    BY <2>1, NewCallFacts
  <2>3. \A s \in {waiting, emitting, microtasks, issued} :
          /\ ToSet(s) \subseteq 1 .. called
          /\ \A c, d : InLine(s, c, d) => c \in ToSet(s) /\ d \in ToSet(s)
    BY <2>1, MembersMade
  <2>4. called + 1 \in 1 .. called + 1 /\ \A c \in 1 .. called' : c \in 1 .. called \/ c = e
    BY <2>1
  <2> QED
    BY <2>2, <2>3, <2>4
<1>2. /\ operation'[e] # "none" /\ \A d \in Calls \ {e} : operation'[d] = operation[d]
      /\ ToSet(issued') = ToSet(issued) \cup {e}
      /\ \A a, b : InLine(issued', a, b) <=> InLine(issued, a, b) \/ (a \in ToSet(issued) /\ b = e)
  BY <1>0, <1>1, IssueEffect
<1>3. /\ e \in Calls
      /\ e \notin ToSet(waiting) \cup ToSet(emitting) \cup ToSet(microtasks) \cup ToSet(issued)
                   \cup deferred
      /\ kind'[e] = "stream"
      /\ \A c \in 1 .. called : c \in Calls /\ c < e /\ kind'[c] = kind[c]
      /\ \A c, d \in 1 .. called : MayPrecede(c, d)' <=> MayPrecede(c, d)
      /\ \A c \in 1 .. called : MayPrecede(c, e)'
  BY <1>2, NewCallOrder DEF Kinds
<1>4. /\ waiting' = waiting /\ emitting' = emitting /\ microtasks' = microtasks
      /\ deferred' = deferred
      /\ ToSet(waiting) \cup ToSet(emitting) \subseteq deferred
      /\ \A c \in ToSet(microtasks) : kind[c] # "stream"
  BY DEF Inv, OrderInv, queues
<1>5. \A d \in ToSet(emitting) \cup ToSet(microtasks) : MayPrecede(e, d)'
  BY <1>1, <1>3, <1>4 DEF MayPrecede
<1>6. PlaceInv'
  <2>1. /\ ToSet(waiting') \cap ToSet(emitting') = {} /\ ToSet(waiting') \cap ToSet(microtasks') = {}
        /\ ToSet(emitting') \cap ToSet(microtasks') = {}
        /\ Once(waiting') /\ Once(emitting') /\ Once(microtasks')
    BY <1>4 DEF Inv, PlaceInv
  <2>2. ASSUME NEW c \in 1 .. called'
        PROVE  c \in ToSet(waiting') \cup ToSet(emitting') \cup ToSet(microtasks')
                 <=> operation'[c] = "none"
    <3>1. CASE c = e
      BY <1>2, <1>3, <1>4, <3>1
    <3>2. CASE c \in 1 .. called /\ c # e
      BY <1>2, <1>3, <1>4, <3>2 DEF Inv, PlaceInv
    <3> QED
      BY <1>1, <3>1, <3>2
  <2> QED
    BY <2>1, <2>2 DEF PlaceInv
<1>7. OrderInv'
  <2>1. ToSet(waiting') \cup ToSet(emitting') \subseteq deferred'
    BY <1>4
  <2>2. \A c, d \in Calls : InLine(waiting', c, d) \/ InLine(emitting', c, d) => c < d
    BY <1>4 DEF Inv, OrderInv
  <2>3. \A c \in ToSet(microtasks') : kind'[c] # "stream"
    BY <1>1, <1>3, <1>4
  <2>4. Orderly(microtasks)'
    BY <1>1, <1>3, <1>4 DEF Inv, OrderInv, Orderly
  <2>8. Orderly(issued)'
    <3> SUFFICES ASSUME NEW c, NEW d, InLine(issued', c, d) PROVE MayPrecede(c, d)'
      BY DEF Orderly
    <3>1. CASE InLine(issued, c, d)
      BY <1>1, <1>3, <3>1 DEF Inv, OrderInv, Orderly
    <3>2. CASE c \in ToSet(issued) /\ d = e
      BY <1>1, <1>3, <3>2
    <3> QED
      BY <1>2, <3>1, <3>2
  <2>5. InTurn(issued, microtasks)'
    <3> SUFFICES ASSUME NEW c \in ToSet(issued'), NEW d \in ToSet(microtasks) PROVE MayPrecede(c, d)'
      BY <1>4 DEF InTurn
    <3>1. MayPrecede(c, d) \/ c = e
      BY <1>2, <1>4 DEF Inv, OrderInv, InTurn
    <3>2. d \in 1 .. called /\ (c \in 1 .. called \/ c = e)
      BY <1>1, <1>2, <1>4
    <3> QED
      BY <1>3, <1>5, <3>1, <3>2
  <2>6. InTurn(issued, emitting)'
    <3> SUFFICES ASSUME NEW c \in ToSet(issued'), NEW d \in ToSet(emitting) PROVE MayPrecede(c, d)'
      BY <1>4 DEF InTurn
    <3>1. MayPrecede(c, d) \/ c = e
      BY <1>2, <1>4 DEF Inv, OrderInv, InTurn
    <3>2. d \in 1 .. called /\ (c \in 1 .. called \/ c = e)
      BY <1>1, <1>2, <1>4
    <3> QED
      BY <1>3, <1>5, <3>1, <3>2
  <2>7. InTurn(microtasks, emitting)'
    <3> SUFFICES ASSUME NEW c \in ToSet(microtasks'), NEW d \in ToSet(emitting) PROVE MayPrecede(c, d)'
      BY <1>4 DEF InTurn
    <3>1. MayPrecede(c, d) \/ c = e
      BY <1>2, <1>4 DEF Inv, OrderInv, InTurn
    <3>2. d \in 1 .. called /\ (c \in 1 .. called \/ c = e)
      BY <1>1, <1>2, <1>4
    <3> QED
      BY <1>3, <1>5, <3>1, <3>2
  <2> QED
    BY <2>1, <2>2, <2>3, <2>4, <2>5, <2>6, <2>7, <2>8 DEF OrderInv
<1> QED
  BY <1>6, <1>7

\* The next listener of 'connection' is that of a method: its call goes on in a microtask.
LEMMA EmitMethodStep ==
  ASSUME Inv, emitting # <<>>, NEW c, c = Head(emitting), kind[c] # "stream",
         emitting' = Tail(emitting), microtasks' = Append(microtasks, c),
         UNCHANGED <<waiting, calls, operation, promise, issued>>
  PROVE  MadeInv' /\ PlaceInv' /\ OrderInv'
<1>1. TypeOK /\ c \in 1 .. called /\ c \in Calls
  BY HeadFacts DEF Inv
<1>2. \A s \in {waiting, emitting, microtasks, issued} :
        /\ s \in Seq(1 .. called) /\ ToSet(s) \subseteq Calls
        /\ \A a, b : InLine(s, a, b) => a \in ToSet(s) /\ b \in ToSet(s)
  BY <1>1, MembersMade
<1>3. /\ ToSet(emitting) = {c} \cup ToSet(emitting')
      /\ \A a, b : InLine(emitting', a, b) => InLine(emitting, a, b)
      /\ \A b \in ToSet(emitting') : InLine(emitting, c, b)
  BY <1>2, TailEffect
<1>4. Once(emitting') /\ c \notin ToSet(emitting')
  BY <1>2, TailOnce DEF Inv, PlaceInv
<1>5. /\ ToSet(microtasks') = ToSet(microtasks) \cup {c}
      /\ \A a, b : InLine(microtasks', a, b)
                     <=> InLine(microtasks, a, b) \/ (a \in ToSet(microtasks) /\ b = c)
  BY <1>1, <1>2, AppendEffect
<1>6. kind' = kind /\ deferred' = deferred /\ called' = called
  BY DEF calls
<1>7. \A a, b : MayPrecede(a, b)' <=> MayPrecede(a, b)
  BY <1>6 DEF MayPrecede
<1>8. MadeInv'
  BY <1>6 DEF Inv, MadeInv
<1>9. PlaceInv'
  <2>1. Once(microtasks')
    <3>1. Once(microtasks) /\ c \notin ToSet(microtasks)
      BY <1>3 DEF Inv, PlaceInv
    <3> QED
      BY <1>1, <1>2, <3>1, AppendOnce
  <2>2. /\ ToSet(waiting') \cap ToSet(emitting') = {} /\ ToSet(waiting') \cap ToSet(microtasks') = {}
        /\ ToSet(emitting') \cap ToSet(microtasks') = {}
        /\ Once(waiting')
    BY <1>3, <1>4, <1>5 DEF Inv, PlaceInv
  <2>3. ToSet(waiting') \cup ToSet(emitting') \cup ToSet(microtasks')
          = ToSet(waiting) \cup ToSet(emitting) \cup ToSet(microtasks)
    BY <1>3, <1>5
  <2> QED
    BY <1>4, <1>6, <2>1, <2>2, <2>3 DEF Inv, PlaceInv
<1>10. OrderInv'
  <2>1. ToSet(waiting') \cup ToSet(emitting') \subseteq deferred'
    BY <1>3, <1>6 DEF Inv, OrderInv
  <2>2. \A a, b \in Calls : InLine(waiting', a, b) \/ InLine(emitting', a, b) => a < b
    BY <1>3 DEF Inv, OrderInv
  <2>3. \A a \in ToSet(microtasks') : kind'[a] # "stream"
    BY <1>5, <1>6 DEF Inv, OrderInv
  <2>4. Orderly(issued)'
    BY <1>7 DEF Inv, OrderInv, Orderly
  <2>5. Orderly(microtasks)'
    BY <1>3, <1>5, <1>7 DEF Inv, OrderInv, Orderly, InTurn
  <2>6. InTurn(issued, microtasks)' /\ InTurn(issued, emitting)'
    BY <1>3, <1>5, <1>7 DEF Inv, OrderInv, InTurn
  <2>7. InTurn(microtasks, emitting)'
    <3>1. \A b \in ToSet(emitting') : c < b
      BY <1>1, <1>2, <1>3 DEF Inv, OrderInv
    <3>2. \A b \in ToSet(emitting') : MayPrecede(c, b)
      BY <3>1 DEF MayPrecede
    <3> QED
      BY <1>3, <1>5, <1>7, <3>2 DEF Inv, OrderInv, InTurn
  <2> QED
    BY <2>1, <2>2, <2>3, <2>4, <2>5, <2>6, <2>7 DEF OrderInv
<1> QED
  BY <1>8, <1>9, <1>10

\* It is that of a stream, which asks libpulse at once.
LEMMA EmitStreamStep ==
  ASSUME Inv, emitting # <<>>, NEW c, c = Head(emitting), kind[c] = "stream",
         emitting' = Tail(emitting), Issue(c),
         UNCHANGED <<waiting, microtasks, calls, promise>>
  PROVE  MadeInv' /\ PlaceInv' /\ OrderInv'
<1>1. TypeOK /\ c \in 1 .. called /\ c \in Calls
  BY HeadFacts DEF Inv
<1>2. \A s \in {waiting, emitting, microtasks, issued} :
        /\ s \in Seq(1 .. called) /\ ToSet(s) \subseteq Calls
        /\ \A a, b : InLine(s, a, b) => a \in ToSet(s) /\ b \in ToSet(s)
  BY <1>1, MembersMade
<1>3. /\ ToSet(emitting) = {c} \cup ToSet(emitting')
      /\ \A a, b : InLine(emitting', a, b) => InLine(emitting, a, b)
      /\ \A b \in ToSet(emitting') : InLine(emitting, c, b)
  BY <1>2, TailEffect
<1>4. Once(emitting') /\ c \notin ToSet(emitting')
  BY <1>2, TailOnce DEF Inv, PlaceInv
<1>5. /\ operation'[c] # "none" /\ \A d \in Calls \ {c} : operation'[d] = operation[d]
      /\ ToSet(issued') = ToSet(issued) \cup {c}
      /\ \A a, b : InLine(issued', a, b) <=> InLine(issued, a, b) \/ (a \in ToSet(issued) /\ b = c)
  <2>1. operation \in [Calls -> Operations]
    BY <1>1 DEF TypeOK, Operations
  <2> QED
    BY <1>1, <1>2, <2>1, IssueEffect
<1>6. kind' = kind /\ deferred' = deferred /\ called' = called
  BY DEF calls
<1>7. \A a, b : MayPrecede(a, b)' <=> MayPrecede(a, b)
  BY <1>6 DEF MayPrecede
<1>8. MadeInv'
  <2>1. ~(c > called)
    BY <1>1, ContextAssumption DEF TypeOK
  <2> QED
    BY <1>5, <1>6, <2>1 DEF Inv, MadeInv
<1>9. PlaceInv'
  <2>1. /\ ToSet(waiting') \cap ToSet(emitting') = {} /\ ToSet(waiting') \cap ToSet(microtasks') = {}
        /\ ToSet(emitting') \cap ToSet(microtasks') = {}
        /\ Once(waiting') /\ Once(microtasks')
    BY <1>3 DEF Inv, PlaceInv
  <2>2. c \notin ToSet(waiting') \cup ToSet(emitting') \cup ToSet(microtasks')
    BY <1>3, <1>4 DEF Inv, PlaceInv
  <2>3. \A a \in 1 .. called : a \in Calls
    BY ContextAssumption, <1>1 DEF TypeOK, Calls
  <2>4. ASSUME NEW a \in 1 .. called'
        PROVE  a \in ToSet(waiting') \cup ToSet(emitting') \cup ToSet(microtasks')
                 <=> operation'[a] = "none"
    <3>1. CASE a = c
      BY <1>5, <2>2, <3>1
    <3>2. CASE a # c
      BY <1>3, <1>5, <1>6, <2>3, <3>2 DEF Inv, PlaceInv
    <3> QED
      BY <3>1, <3>2
  <2> QED
    BY <1>4, <2>1, <2>4 DEF PlaceInv
<1>10. OrderInv'
  <2>1. ToSet(waiting') \cup ToSet(emitting') \subseteq deferred'
    BY <1>3, <1>6 DEF Inv, OrderInv
  <2>2. \A a, b \in Calls : InLine(waiting', a, b) \/ InLine(emitting', a, b) => a < b
    BY <1>3 DEF Inv, OrderInv
  <2>3. \A a \in ToSet(microtasks') : kind'[a] # "stream"
    BY <1>6 DEF Inv, OrderInv
  <2>4. Orderly(issued)'
    BY <1>3, <1>5, <1>7 DEF Inv, OrderInv, Orderly, InTurn
  <2>5. Orderly(microtasks)'
    BY <1>7 DEF Inv, OrderInv, Orderly
  <2>6. InTurn(issued, microtasks)'
    <3>1. \A b \in ToSet(microtasks) : MayPrecede(c, b)
      BY DEF Inv, OrderInv, MayPrecede
    <3> QED
      BY <1>5, <1>7, <3>1 DEF Inv, OrderInv, InTurn
  <2>7. InTurn(issued, emitting)'
    <3>1. \A b \in ToSet(emitting') : c < b
      BY <1>1, <1>2, <1>3 DEF Inv, OrderInv
    <3>2. \A b \in ToSet(emitting') : MayPrecede(c, b)
      BY <3>1 DEF MayPrecede
    <3> QED
      BY <1>3, <1>5, <1>7, <3>2 DEF Inv, OrderInv, InTurn
  <2>8. InTurn(microtasks, emitting)'
    BY <1>3, <1>7 DEF Inv, OrderInv, InTurn
  <2> QED
    BY <2>1, <2>2, <2>3, <2>4, <2>5, <2>6, <2>7, <2>8 DEF OrderInv
<1> QED
  BY <1>8, <1>9, <1>10

\* A microtask asks libpulse, after the event.
LEMMA ContinueStep ==
  ASSUME Inv, emitting = <<>>, microtasks # <<>>, NEW c, c = Head(microtasks),
         microtasks' = Tail(microtasks), Issue(c),
         UNCHANGED <<waiting, emitting, calls, promise>>
  PROVE  MadeInv' /\ PlaceInv' /\ OrderInv'
<1>1. TypeOK /\ c \in 1 .. called /\ c \in Calls
  BY HeadFacts DEF Inv
<1>2. \A s \in {waiting, emitting, microtasks, issued} :
        /\ s \in Seq(1 .. called) /\ ToSet(s) \subseteq Calls
        /\ \A a, b : InLine(s, a, b) => a \in ToSet(s) /\ b \in ToSet(s)
  BY <1>1, MembersMade
<1>3. /\ ToSet(microtasks) = {c} \cup ToSet(microtasks')
      /\ \A a, b : InLine(microtasks', a, b) => InLine(microtasks, a, b)
      /\ \A b \in ToSet(microtasks') : InLine(microtasks, c, b)
  BY <1>2, TailEffect
<1>4. Once(microtasks') /\ c \notin ToSet(microtasks')
  BY <1>2, TailOnce DEF Inv, PlaceInv
<1>5. /\ operation'[c] # "none" /\ \A d \in Calls \ {c} : operation'[d] = operation[d]
      /\ ToSet(issued') = ToSet(issued) \cup {c}
      /\ \A a, b : InLine(issued', a, b) <=> InLine(issued, a, b) \/ (a \in ToSet(issued) /\ b = c)
  <2>1. operation \in [Calls -> Operations]
    BY <1>1 DEF TypeOK, Operations
  <2> QED
    BY <1>1, <1>2, <2>1, IssueEffect
<1>6. kind' = kind /\ deferred' = deferred /\ called' = called
  BY DEF calls
<1>7. \A a, b : MayPrecede(a, b)' <=> MayPrecede(a, b)
  BY <1>6 DEF MayPrecede
<1>8. ToSet(emitting) = {} /\ ToSet(emitting') = {}
  BY EmptyQueue
<1>9. MadeInv'
  <2>1. ~(c > called)
    BY <1>1, ContextAssumption DEF TypeOK
  <2> QED
    BY <1>5, <1>6, <2>1 DEF Inv, MadeInv
<1>10. PlaceInv'
  <2>1. /\ ToSet(waiting') \cap ToSet(emitting') = {} /\ ToSet(waiting') \cap ToSet(microtasks') = {}
        /\ ToSet(emitting') \cap ToSet(microtasks') = {}
        /\ Once(waiting') /\ Once(emitting')
    BY <1>3, <1>8 DEF Inv, PlaceInv
  <2>2. c \notin ToSet(waiting') \cup ToSet(emitting') \cup ToSet(microtasks')
    BY <1>3, <1>4, <1>8 DEF Inv, PlaceInv
  <2>3. \A a \in 1 .. called : a \in Calls
    BY ContextAssumption, <1>1 DEF TypeOK, Calls
  <2>4. ASSUME NEW a \in 1 .. called'
        PROVE  a \in ToSet(waiting') \cup ToSet(emitting') \cup ToSet(microtasks')
                 <=> operation'[a] = "none"
    <3>1. CASE a = c
      BY <1>5, <2>2, <3>1
    <3>2. CASE a # c
      BY <1>3, <1>5, <1>6, <2>3, <3>2 DEF Inv, PlaceInv
    <3> QED
      BY <3>1, <3>2
  <2> QED
    BY <1>4, <2>1, <2>4 DEF PlaceInv
<1>11. OrderInv'
  <2>1. ToSet(waiting') \cup ToSet(emitting') \subseteq deferred'
    BY <1>6 DEF Inv, OrderInv
  <2>2. \A a, b \in Calls : InLine(waiting', a, b) \/ InLine(emitting', a, b) => a < b
    BY DEF Inv, OrderInv
  <2>3. \A a \in ToSet(microtasks') : kind'[a] # "stream"
    BY <1>3, <1>6 DEF Inv, OrderInv
  <2>4. Orderly(issued)'
    BY <1>3, <1>5, <1>7 DEF Inv, OrderInv, Orderly, InTurn
  <2>5. Orderly(microtasks)'
    BY <1>3, <1>7 DEF Inv, OrderInv, Orderly
  <2>6. InTurn(issued, microtasks)'
    <3>1. \A b \in ToSet(microtasks') : MayPrecede(c, b)
      BY <1>1, <1>2, <1>3 DEF Inv, OrderInv, Orderly
    <3> QED
      BY <1>3, <1>5, <1>7, <3>1 DEF Inv, OrderInv, InTurn
  <2>7. InTurn(issued, emitting)' /\ InTurn(microtasks, emitting)'
    BY <1>8 DEF InTurn
  <2> QED
    BY <2>1, <2>2, <2>3, <2>4, <2>5, <2>6, <2>7 DEF OrderInv
<1> QED
  BY <1>9, <1>10, <1>11

\* 'connection' is emitted to all that wait, when nothing else is on its way.
LEMMA ConnectionStep ==
  ASSUME Inv, "ready" \in announcing, Release, UNCHANGED <<microtasks, calls, operation, promise, issued>>
  PROVE  MadeInv' /\ PlaceInv' /\ OrderInv'
<1>1. emitting = <<>> /\ microtasks = <<>> /\ issued = <<>>
  BY DEF Inv, PhaseInv
<1>2. /\ emitting' = waiting /\ waiting' = <<>> /\ microtasks' = <<>> /\ issued' = <<>>
      /\ kind' = kind /\ deferred' = deferred /\ called' = called
  BY <1>1 DEF Release, calls
<1>3. MadeInv'
  BY <1>2 DEF Inv, MadeInv
<1>4. PlaceInv'
  BY <1>1, <1>2, EmptyQueue DEF Inv, PlaceInv, Once
<1>5. OrderInv'
  <2>1. ToSet(waiting') \cup ToSet(emitting') \subseteq deferred'
    BY <1>2, EmptyQueue DEF Inv, OrderInv
  <2>2. \A a, b \in Calls : InLine(waiting', a, b) \/ InLine(emitting', a, b) => a < b
    BY <1>2, EmptyQueue DEF Inv, OrderInv
  <2>3. \A a \in ToSet(microtasks') : kind'[a] # "stream"
    BY <1>2, EmptyQueue
  <2>4. Orderly(issued)' /\ Orderly(microtasks)'
    BY <1>2, EmptyQueue DEF Orderly
  <2>5. InTurn(issued, microtasks)' /\ InTurn(issued, emitting)' /\ InTurn(microtasks, emitting)'
    BY <1>2, EmptyQueue DEF InTurn
  <2> QED
    BY <2>1, <2>2, <2>3, <2>4, <2>5 DEF OrderInv
<1> QED
  BY <1>3, <1>4, <1>5

\* A context is on its way up, up or lost.
LEMMA StatesOf == TypeOK => Early \/ Ready \/ Lost
BY DEF TypeOK, Early, Ready, Lost

\* No step brings a lost connection back.
LEMMA LossIsFinal == TypeOK /\ Lost /\ [Next]_vars => Lost'
<1> SUFFICES ASSUME TypeOK, Lost, [Next]_vars PROVE Lost'
  OBVIOUS
<1> USE DEF Lost
<1>1. CASE Application
  BY <1>1 DEF Application, CallMethod, CreateStream, End, connection
<1>2. CASE Startup \/ ConnectThrows
  BY <1>2 DEF Startup, Connect, ConnectFails, Fail, ConnectThrows
<1>3. CASE EmitConnection \/ Continue
  BY <1>3 DEF EmitConnection, Continue, connection
<1>4. CASE Advance \/ StateReady \/ Connection \/ StateFailed \/ Failure \/ Closed
  BY <1>4 DEF Advance, StateReady, Connection, StateFailed, Fail, Failure, Closed
<1>5. CASE Replies
  BY <1>5 DEF Replies, Reply, connection
<1>6. CASE UNCHANGED vars
  BY <1>6 DEF vars, connection
<1> QED
  BY <1>1, <1>2, <1>3, <1>4, <1>5, <1>6 DEF Next

\* PhaseInv is kept.
LEMMA PhaseStep == Inv /\ [Next]_vars => PhaseInv'
<1> SUFFICES ASSUME Inv, [Next]_vars PROVE PhaseInv'
  OBVIOUS
<1> USE DEF PhaseInv, Early, Lost
<1>1. TypeOK /\ PhaseInv
  BY DEF Inv
<1>2. ASSUME NEW k \in Kinds, CallMethod(k) PROVE PhaseInv'
  <2>1. CASE ~connected
    BY <1>1, <1>2, <2>1 DEF CallMethod, Defer, connection
  <2>2. CASE connected
    <3>1. /\ microtasks \in Seq(1 .. called + 1) /\ called + 1 \in 1 .. called + 1
          /\ called + 1 > before
      BY <1>1, <1>2, NewCallFacts DEF CallMethod, TypeOK
    <3>2. /\ UNCHANGED <<connection, emitting, issued>>
          /\ microtasks' = Append(microtasks, called + 1)
      BY <1>2, <2>2 DEF CallMethod
    <3>3. ToSet(microtasks') = ToSet(microtasks) \cup {called + 1}
      BY <3>1, <3>2, AppendEffect
    <3>4. "failed" \in announcing => \A c \in ToSet(microtasks') : c > before
      BY <1>1, <3>1, <3>3
    <3>5. UNCHANGED <<pa_state, connected, announcing, throwing, before, emitting, issued>>
      BY <3>2 DEF connection
    <3>6. ~Early /\ "ready" \notin announcing
      BY <1>1, <2>2
    <3>7. "failed" \in announcing' => /\ (pa_state = "failed" /\ emitting = <<>>)'
                                      /\ \A c \in ToSet(microtasks') : c > before'
      BY <1>1, <3>4, <3>5
    <3> QED
      BY <1>1, <3>5, <3>6, <3>7
  <2> QED
    BY <2>1, <2>2
<1>3. CASE CreateStream
  BY <1>1, <1>3 DEF CreateStream, Defer, connection
<1>4. CASE End
  <2>1. /\ pa_state' = "terminated" /\ announcing' = announcing \cup {"terminated"}
        /\ UNCHANGED <<connected, throwing, before, emitting, microtasks, issued>>
    BY <1>4 DEF End, queues
  <2>2. "failed" \notin announcing'
    BY <1>1, <1>4, <2>1 DEF End, Good
  <2>3. "ready" \in announcing' <=> "ready" \in announcing
    BY <2>1
  <2> QED
    BY <1>1, <2>1, <2>2, <2>3
<1>5. CASE Connect \/ ConnectThrows
  BY <1>1, <1>5 DEF Connect, ConnectThrows, queues
<1>14. CASE ConnectFails
  <2>1. microtasks = <<>> /\ ToSet(microtasks) = {}
    BY <1>1, <1>14, EmptyQueue DEF ConnectFails
  <2> QED
    BY <1>1, <1>14, <2>1 DEF ConnectFails, Fail, queues
<1>6. CASE EmitConnection
  BY <1>1, <1>6 DEF EmitConnection, connection
<1>7. CASE Continue
  BY <1>1, <1>7 DEF Continue, Idle, connection
<1>8. CASE Advance \/ StateReady
  BY <1>1, <1>8 DEF Advance, StateReady, AtLoop, Idle, queues
<1>9. CASE Connection
  BY <1>1, <1>9 DEF Connection
<1>10. CASE StateFailed
  <2>1. microtasks = <<>> /\ ToSet(microtasks) = {}
    BY <1>10, EmptyQueue DEF StateFailed, AtLoop
  <2> QED
    BY <1>1, <1>10, <2>1 DEF StateFailed, Fail, AtLoop, Idle, queues
<1>13. CASE Failure \/ Closed
  BY <1>1, <1>13 DEF Failure, Closed, queues
<1>11. CASE Replies
  BY <1>1, <1>11 DEF Replies, Reply, connection, queues
<1>12. CASE UNCHANGED vars
  BY <1>1, <1>12 DEF vars, connection, queues
<1> QED
  BY <1>2, <1>3, <1>4, <1>5, <1>6, <1>7, <1>8, <1>9, <1>10, <1>11, <1>12, <1>13,
     <1>14 DEF Next, Application, Startup, Kinds

\* The step of each action on the calls and their queues.
LEMMA QueueInv == Inv /\ [Next]_vars => MadeInv' /\ PlaceInv' /\ OrderInv'
<1> SUFFICES ASSUME Inv, [Next]_vars PROVE MadeInv' /\ PlaceInv' /\ OrderInv'
  OBVIOUS
<1>1. /\ TypeOK /\ PhaseInv /\ MadeInv
      /\ operation \in [Calls -> Operations] /\ promise \in [Calls -> Promises]
  BY DEF Inv, TypeOK, Operations, Promises
<1>2. ASSUME NEW k \in Kinds \ {"stream"}, CallMethod(k)
      PROVE  MadeInv' /\ PlaceInv' /\ OrderInv'
  <2>1. /\ called < MaxCalls /\ called' = called + 1 /\ kind' = [kind EXCEPT ![called + 1] = k]
        /\ UNCHANGED <<emitting, issued, operation>>
    BY <1>2 DEF CallMethod
  <2>2. \A c \in Calls \ {called + 1} : promise'[c] = promise[c]
    BY <1>1, <1>2 DEF CallMethod
  <2>3. CASE microtasks' = Append(microtasks, called + 1) /\ UNCHANGED <<waiting, deferred>>
    BY <2>1, <2>2, <2>3, QueueStep
  <2>4. CASE Defer(called + 1)
    BY <2>1, <2>2, <2>4, DeferStep
  <2> QED
    BY <1>2, <2>3, <2>4 DEF CallMethod
<1>3. CASE CreateStream
  <2>1. /\ called < MaxCalls /\ called' = called + 1
        /\ kind' = [kind EXCEPT ![called + 1] = "stream"]
        /\ UNCHANGED <<emitting, promise>>
    BY <1>3 DEF CreateStream
  <2>2. CASE Issue(called + 1) /\ UNCHANGED <<waiting, microtasks, deferred>>
    <3>1. PlaceInv' /\ OrderInv'
      BY <2>1, <2>2, NewStreamStep DEF queues
    <3>2. \A c \in Calls \ {called + 1} : operation'[c] = operation[c]
      BY <1>1, <2>2 DEF Issue
    <3>3. MadeInv'
      <4>1. "stream" \in Kinds
        BY DEF Kinds
      <4> QED
        BY <2>1, <2>2, <3>2, <4>1, NewCallOrder
    <3> QED
      BY <3>1, <3>3
  <2>3. CASE UNCHANGED <<operation, issued>> /\ Defer(called + 1)
    <3>1. "stream" \in Kinds
      BY DEF Kinds
    <3> QED
      BY <2>1, <2>3, <3>1, DeferStep
  <2> QED
    BY <1>3, <2>2, <2>3 DEF CreateStream
<1>4. CASE EmitConnection
  <2>1. CASE kind[Head(emitting)] # "stream"
    BY <1>4, <2>1, EmitMethodStep DEF EmitConnection
  <2>2. CASE kind[Head(emitting)] = "stream"
    BY <1>4, <2>2, EmitStreamStep DEF EmitConnection
  <2> QED
    BY <2>1, <2>2
<1>5. CASE Continue
  BY <1>5, ContinueStep DEF Continue, Idle
<1>6. CASE Connection
  BY <1>6, ConnectionStep DEF Connection
<1>7. ASSUME UNCHANGED <<queues, calls, issued>>, operation' = operation \/ operation' = Cancelled,
             promise' = promise \/ EmitError
      PROVE  MadeInv' /\ PlaceInv' /\ OrderInv'
  <2>1. \A c \in Calls : operation'[c] = "none" <=> operation[c] = "none"
    BY <1>7 DEF Cancelled
  <2>2. \A c \in Calls : promise'[c] = "none" <=> promise[c] = "none"
    BY <1>7 DEF EmitError, Listening
  <2> QED
    BY <1>7, <2>1, <2>2, QueuesStay
<1>8. CASE End
  BY <1>7, <1>8 DEF End
<1>9. CASE Connect \/ ConnectFails \/ ConnectThrows
  BY <1>7, <1>9 DEF Connect, ConnectFails, ConnectThrows
<1>10. CASE Advance \/ StateReady \/ StateFailed \/ Failure \/ Closed
  BY <1>7, <1>10 DEF Advance, StateReady, StateFailed, Failure, Closed
<1>11. CASE Replies
  <2>1. PICK c \in Calls, verdict \in {"ok", "error"} : Reply(c, verdict)
    BY <1>11 DEF Replies
  <2>2. UNCHANGED <<queues, calls, issued>>
    BY <2>1 DEF Reply
  <2>3. \A d \in Calls : operation'[d] = "none" <=> operation[d] = "none"
    BY <1>1, <2>1 DEF Reply
  <2>4. CASE promise' = promise
    BY <2>2, <2>3, <2>4, QueuesStay
  <2>5. CASE Resolve(c)
    <3>1. MadeInv'
      <4>1. ~(c > called)
        BY <1>1, <2>1 DEF MadeInv, Reply
      <4>2. \A d \in Calls \ {c} : promise'[d] = promise[d]
        BY <1>1, <2>5 DEF Resolve
      <4> QED
        BY <1>1, <2>2, <2>3, <4>1, <4>2 DEF MadeInv, calls
    <3>2. PlaceInv'
      <4>1. \A d \in 1 .. called : d \in Calls
        BY <1>1, ContextAssumption DEF TypeOK, Calls
      <4> QED
        BY <2>2, <2>3, <4>1 DEF Inv, PlaceInv, Once, queues, calls
    <3>3. OrderInv'
      BY <2>2 DEF Inv, OrderInv, Orderly, InTurn, MayPrecede, queues, calls
    <3> QED
      BY <3>1, <3>2, <3>3
  <2> QED
    BY <2>1, <2>4, <2>5 DEF Reply
<1>12. CASE UNCHANGED vars
  BY <1>7, <1>12 DEF vars
<1> QED
  BY <1>2, <1>3, <1>4, <1>5, <1>6, <1>8, <1>9, <1>10, <1>11, <1>12
     DEF Next, Application, Startup, Kinds

\* Nothing is refused that is not asked.
LEMMA RefusedStep == Inv /\ [Next]_vars => RefusedOnlyWhenLost'
<1> SUFFICES ASSUME Inv, [Next]_vars PROVE RefusedOnlyWhenLost'
  OBVIOUS
<1>1. TypeOK /\ RefusedOnlyWhenLost /\ operation \in [Calls -> Operations]
  BY DEF Inv, TypeOK, Operations
<1>2. Lost => Lost'
  BY <1>1, LossIsFinal
<1>3. SUFFICES ASSUME NEW c \in Calls, operation'[c] = "refused", operation[c] # "refused"
      PROVE  Lost'
  BY <1>1, <1>2 DEF RefusedOnlyWhenLost
<1>4. ASSUME NEW d \in Calls, Issue(d), connected \/ emitting # <<>> \/ microtasks # <<>>
      PROVE  Lost
  <2>1. ~Ready
    BY <1>1, <1>3, <1>4 DEF Issue
  <2> QED
    BY <1>4, <2>1, StatesOf DEF Inv, PhaseInv
<1>5. CASE CreateStream
  <2>1. Issue(called + 1) /\ connected
    BY <1>3, <1>5 DEF CreateStream
  <2>2. called + 1 \in Calls
    BY <1>1, <1>5, NewCallFacts DEF CreateStream
  <2> QED
    BY <1>2, <1>4, <2>1, <2>2
<1>6. CASE EmitConnection
  <2>1. Issue(Head(emitting)) /\ emitting # <<>>
    BY <1>3, <1>6 DEF EmitConnection
  <2>2. Head(emitting) \in Calls
    BY <1>1, <2>1, HeadFacts
  <2> QED
    BY <1>2, <1>4, <2>1, <2>2
<1>7. CASE Continue
  <2>1. Issue(Head(microtasks)) /\ microtasks # <<>>
    BY <1>7 DEF Continue
  <2>2. Head(microtasks) \in Calls
    BY <1>1, <2>1, HeadFacts
  <2> QED
    BY <1>2, <1>4, <2>1, <2>2
<1>8. CASE Replies
  <2>1. PICK d \in Calls, verdict \in {"ok", "error"} : Reply(d, verdict)
    BY <1>8 DEF Replies
  <2> QED
    BY <1>1, <1>3, <2>1 DEF Reply
<1>9. operation' = operation \/ operation' = Cancelled => FALSE
  BY <1>3 DEF Cancelled
<1>10. CASE CallMethod("info") \/ CallMethod("operation") \/ End
  BY <1>9, <1>10 DEF CallMethod, End
<1>11. CASE Startup \/ ConnectThrows
  BY <1>9, <1>11 DEF Startup, Connect, ConnectFails, ConnectThrows
<1>12. CASE Advance \/ StateReady \/ Connection \/ StateFailed \/ Failure \/ Closed
  BY <1>9, <1>12 DEF Advance, StateReady, Connection, StateFailed, Failure, Closed
<1>13. CASE UNCHANGED vars
  BY <1>9, <1>13 DEF vars
<1> QED
  BY <1>5, <1>6, <1>7, <1>8, <1>10, <1>11, <1>12, <1>13 DEF Next, Application

\* The process dies only in a reply to an info(), and in the event after end().
LEMMA SurviveStep == Inv /\ [Next]_vars => SurvivesLoss'
<1> SUFFICES ASSUME Inv, [Next]_vars PROVE SurvivesLoss'
  OBVIOUS
<1>1. /\ TypeOK /\ SurvivesLoss /\ operation \in [Calls -> Operations]
      /\ answer \in [Calls -> Answers]
  BY DEF Inv, TypeOK, Operations, Answers
<1>2. ASSUME crashed' = FALSE PROVE SurvivesLoss'
  BY <1>2 DEF SurvivesLoss
<1>3. CASE Application
  BY <1>1, <1>2, <1>3 DEF Application, CallMethod, CreateStream, End, TypeOK
<1>4. CASE Startup \/ ConnectThrows
  BY <1>1, <1>2, <1>4 DEF Startup, Connect, ConnectFails, ConnectThrows, TypeOK
<1>5. CASE EmitConnection
  <2> DEFINE c == Head(emitting)
  <2>1. /\ emitting # <<>> /\ crashed = FALSE
        /\ UNCHANGED <<connection, calls, answer>>
    BY <1>1, <1>5 DEF EmitConnection, TypeOK
  <2>2. c \in Calls /\ c \in deferred
    <3>1. c \in ToSet(emitting) /\ c \in Calls
      BY <1>1, <2>1, HeadFacts, TailEffect DEF TypeOK
    <3> QED
      BY <3>1 DEF Inv, OrderInv
  <2>3. CASE crashed' = FALSE
    BY <1>2, <2>3
  <2>4. CASE crashed' = ~Ready /\ kind[c] = "stream" /\ Issue(c) /\ ~Ready
    <3>1. pa_state = "terminated"
      BY <2>1, <2>4 DEF Inv, PhaseInv, Ready
    <3>2. operation'[c] = "refused"
      BY <1>1, <2>2, <2>4 DEF Issue
    <3> QED
      BY <2>1, <2>2, <2>4, <3>1, <3>2 DEF SurvivesLoss, connection, calls
  <2> QED
    BY <1>5, <2>1, <2>3, <2>4 DEF EmitConnection
<1>6. CASE Continue \/ Advance \/ StateReady \/ StateFailed
  BY <1>1, <1>2, <1>6 DEF Continue, Advance, StateReady, StateFailed, AtLoop, Idle, TypeOK
<1>7. CASE Connection \/ Failure \/ Closed
  BY <1>1, <1>7 DEF Connection, Failure, Closed, SurvivesLoss, calls
<1>8. CASE Replies
  <2>1. PICK c \in Calls, verdict \in {"ok", "error"} : Reply(c, verdict)
    BY <1>8 DEF Replies
  <2>2. crashed = FALSE /\ kind' = kind
    BY <1>1, <2>1 DEF Reply, AtLoop, Idle, TypeOK, calls
  <2>3. CASE kind[c] = "info" /\ verdict = "error"
    <3>1. answer'[c] = "error"
      BY <1>1, <2>1, <2>3 DEF Reply
    <3> QED
      BY <2>2, <2>3, <3>1 DEF SurvivesLoss
  <2>4. CASE ~(kind[c] = "info" /\ verdict = "error")
    BY <1>2, <2>1, <2>2, <2>4 DEF Reply
  <2> QED
    BY <2>3, <2>4
<1>9. CASE UNCHANGED vars
  BY <1>1, <1>9 DEF vars, SurvivesLoss, connection, calls
<1> QED
  BY <1>3, <1>4, <1>5, <1>6, <1>7, <1>8, <1>9 DEF Next

\* Promises are settled with their operations.
LEMMA PendingStep == Inv /\ [Next]_vars => PendingInv'
<1> SUFFICES ASSUME Inv, [Next]_vars, ~Lost', ~crashed' PROVE PendingInv'
  BY DEF PendingInv
<1>1. /\ TypeOK /\ MadeInv /\ PhaseInv
      /\ operation \in [Calls -> Operations] /\ promise \in [Calls -> Promises]
      /\ kind \in [Calls -> Kinds \cup {"none"}]
      /\ \A c \in 1 .. called : c \in Calls
      /\ MaxCalls \in Nat /\ called \in Nat
  BY ContextAssumption DEF Inv, TypeOK, Operations, Promises, Calls
<1>2. ~Lost
  BY <1>1, LossIsFinal
<1> DEFINE Owed(c) == kind[c] # "stream" => (promise[c] = "pending" <=> operation[c] \in {"none", "running"})
<1>3. ASSUME ~crashed PROVE \A c \in 1 .. called : Owed(c)
  BY <1>2, <1>3 DEF Inv, PendingInv
<1>4. ASSUME ~crashed, UNCHANGED <<called, kind, operation, promise>> PROVE PendingInv'
  BY <1>3, <1>4 DEF PendingInv
<1>5. ASSUME NEW c \in Calls, Issue(c), called' = called, kind' = kind, promise' = promise, ~crashed,
             operation[c] = "none", connected \/ emitting # <<>> \/ microtasks # <<>>
      PROVE  PendingInv'
  <2>1. Ready
    BY <1>1, <1>2, <1>5, StatesOf DEF PhaseInv
  <2>2. operation' = [operation EXCEPT ![c] = "running"]
    BY <1>5, <2>1 DEF Issue
  <2>3. \A d \in 1 .. called : operation'[d] \in {"none", "running"}
                                 <=> operation[d] \in {"none", "running"}
    BY <1>1, <1>5, <2>2
  <2> QED
    BY <1>3, <1>5, <2>3 DEF PendingInv
<1>6. ASSUME NEW k \in Kinds, CallMethod(k) PROVE PendingInv'
  <2>1. /\ called < MaxCalls /\ called' = called + 1 /\ crashed = crashed'
        /\ called + 1 \in Calls /\ operation' = operation
        /\ kind' = [kind EXCEPT ![called + 1] = k]
        /\ promise' = [promise EXCEPT ![called + 1] = "pending"]
    BY <1>1, <1>6, NewCallFacts DEF CallMethod
  <2>2. operation[called + 1] = "none"
    BY <1>1, <2>1 DEF MadeInv
  <2>3. ASSUME NEW d \in 1 .. called'
        PROVE  kind'[d] # "stream"
                 => (promise'[d] = "pending" <=> operation'[d] \in {"none", "running"})
    <3>1. CASE d = called + 1
      BY <1>1, <2>1, <2>2, <3>1
    <3>2. CASE d # called + 1
      <4>1. d \in 1 .. called /\ d \in Calls
        BY <1>1, <2>1, <3>2
      <4>2. Owed(d)
        BY <1>3, <2>1, <4>1
      <4>3. kind'[d] = kind[d] /\ promise'[d] = promise[d] /\ operation'[d] = operation[d]
        BY <1>1, <2>1, <3>2, <4>1
      <4> QED
        BY <4>2, <4>3
    <3> QED
      BY <3>1, <3>2
  <2> QED
    BY <2>3 DEF PendingInv
<1>7. CASE CreateStream
  <2>1. /\ called < MaxCalls /\ called' = called + 1 /\ crashed = crashed'
        /\ called + 1 \in Calls /\ promise' = promise
        /\ kind' = [kind EXCEPT ![called + 1] = "stream"]
        /\ operation' = operation \/ Issue(called + 1)
    BY <1>1, <1>7, NewCallFacts DEF CreateStream
  <2>2. \A d \in Calls \ {called + 1} : operation'[d] = operation[d] /\ kind'[d] = kind[d]
    BY <1>1, <2>1 DEF Issue
  <2>3. kind'[called + 1] = "stream"
    BY <1>1, <2>1
  <2>4. \A d \in 1 .. called' : d = called + 1 \/ d \in 1 .. called
    BY <1>1, <2>1
  <2> QED
    BY <1>1, <1>3, <2>1, <2>2, <2>3, <2>4 DEF PendingInv
<1>8. CASE EmitConnection
  <2> DEFINE c == Head(emitting)
  <2>1. emitting # <<>> /\ ~crashed /\ promise' = promise /\ called' = called /\ kind' = kind
    BY <1>8 DEF EmitConnection, calls
  <2>2. c \in Calls /\ c \in 1 .. called /\ c \in ToSet(emitting)
    BY <1>1, <2>1, HeadFacts, TailEffect DEF TypeOK
  <2>3. operation[c] = "none"
    BY <2>2 DEF Inv, PlaceInv
  <2> QED
    BY <1>4, <1>5, <1>8, <2>1, <2>2, <2>3 DEF EmitConnection
<1>9. CASE Continue
  <2> DEFINE c == Head(microtasks)
  <2>1. microtasks # <<>> /\ ~crashed /\ promise' = promise /\ called' = called /\ kind' = kind
    BY <1>9 DEF Continue, Idle, calls
  <2>2. c \in Calls /\ c \in 1 .. called /\ c \in ToSet(microtasks)
    BY <1>1, <2>1, HeadFacts, TailEffect DEF TypeOK
  <2>3. operation[c] = "none"
    BY <2>2 DEF Inv, PlaceInv
  <2> QED
    BY <1>5, <1>9, <2>1, <2>2, <2>3 DEF Continue
<1>10. CASE End \/ ConnectFails \/ ConnectThrows \/ StateFailed \/ Failure
  <2>1. ~ConnectThrows /\ ~Failure
    BY <1>1, <1>2 DEF ConnectThrows, Failure, PhaseInv, Lost
  <2> QED
    BY <1>10, <2>1 DEF End, ConnectFails, StateFailed, Fail, Lost
<1>11. CASE Connect \/ Advance \/ StateReady \/ Connection \/ Closed
  BY <1>4, <1>11 DEF Connect, Advance, StateReady, Connection, Closed, calls
<1>12. CASE Replies
  <2>1. PICK c \in Calls, verdict \in {"ok", "error"} : Reply(c, verdict)
    BY <1>12 DEF Replies
  <2>2. /\ ~crashed /\ operation[c] = "running" /\ called' = called /\ kind' = kind
        /\ operation' = [operation EXCEPT ![c] = "done"]
    BY <2>1 DEF Reply, AtLoop, Idle, calls
  <2>3. promise' = [promise EXCEPT ![c] = "resolved"]
    BY <2>1 DEF Reply, Resolve
  <2>4. ASSUME NEW d \in 1 .. called
        PROVE  kind[d] # "stream"
                 => (promise'[d] = "pending" <=> operation'[d] \in {"none", "running"})
    <3>1. CASE d = c
      BY <1>1, <2>2, <2>3, <3>1
    <3>2. CASE d # c
      <4>1. promise'[d] = promise[d] /\ operation'[d] = operation[d]
        BY <1>1, <2>2, <2>3, <3>2
      <4> QED
        BY <1>3, <2>2, <4>1
    <3> QED
      BY <3>1, <3>2
  <2> QED
    BY <2>2, <2>4 DEF PendingInv
<1>13. CASE UNCHANGED vars
  BY <1>4, <1>13 DEF vars, calls
<1> QED
  BY <1>6, <1>7, <1>8, <1>9, <1>10, <1>11, <1>12, <1>13 DEF Next, Application, Startup, Kinds

\* The invariant is inductive.
LEMMA StepInv == Inv /\ [Next]_vars => Inv'
<1> SUFFICES ASSUME Inv, [Next]_vars PROVE Inv'
  OBVIOUS
<1>1. TypeOK'
  BY TypeStep DEF Inv
<1> QED
  BY <1>1, PhaseStep, QueueInv, RefusedStep, SurviveStep, PendingStep DEF Inv

\* Inv holds in every state.
THEOREM Invariance == Spec => []Inv
BY InitInv, StepInv, PTL DEF Spec

\* Its PlaceInv says of the queues one by one what InOnePlace says of them in line.
LEMMA PlaceInLine == TypeOK /\ PlaceInv => InOnePlace
<1> SUFFICES ASSUME TypeOK, PlaceInv PROVE InOnePlace
  OBVIOUS
<1>1. waiting \in Seq(1 .. called) /\ emitting \in Seq(1 .. called) /\ microtasks \in Seq(1 .. called)
  BY DEF TypeOK
<1>2. IsInjective(waiting) /\ IsInjective(emitting) /\ IsInjective(microtasks)
  BY <1>1, OnceIsInjective DEF PlaceInv
<1>3. /\ waiting \o emitting \in Seq(1 .. called)
      /\ ToSet(waiting \o emitting) = ToSet(waiting) \cup ToSet(emitting)
      /\ IsInjective(waiting \o emitting)
  BY <1>1, <1>2, ConcatEffect DEF PlaceInv
<1>4. /\ ToSet(waiting \o emitting \o microtasks)
           = ToSet(waiting \o emitting) \cup ToSet(microtasks)
      /\ IsInjective(waiting \o emitting \o microtasks)
  <2>1. ToSet(waiting \o emitting) \cap ToSet(microtasks) = {}
    BY <1>3 DEF PlaceInv
  <2> QED
    BY <1>1, <1>2, <1>3, <2>1, ConcatEffect, ZenonT(30)
<1> QED
  BY <1>3, <1>4 DEF InOnePlace, PlaceInv

-------------------------------------------------------------------------------
\* The fields of pulse.js and libpulse keep their types, and the queues hold calls that
\* have been made.
THEOREM TypeCorrect == Spec => []TypeOK
BY Invariance, PTL DEF Inv

\* From waitConnection through the 'connection' event to the microtasks no call is lost,
\* and none is in two places.
THEOREM NoCallLost == Spec => []InOnePlace
<1>1. Inv => InOnePlace
  BY PlaceInLine DEF Inv
<1> QED
  BY <1>1, Invariance, PTL

\* Calls reach libpulse in the order they were made, but for those of the event's listeners
\* and for streams.
THEOREM InOrderIssued == Spec => []IssueOrder
<1>1. Inv => IssueOrder
  <2> SUFFICES ASSUME Inv, NEW i \in DOMAIN issued, NEW j \in DOMAIN issued, i < j
               PROVE  MayPrecede(issued[i], issued[j])
    BY DEF IssueOrder
  <2>1. InLine(issued, issued[i], issued[j])
    BY DEF InLine
  <2>2. issued[i] \in ToSet(issued) /\ issued[j] \in ToSet(issued) /\ ToSet(issued) \subseteq Calls
    BY MembersMade DEF Inv, ToSet
  <2> QED
    BY <2>1, <2>2 DEF Inv, OrderInv, Orderly
<1> QED
  BY <1>1, Invariance, PTL

\* While the connection is up a promise is pending as long as an answer is due for its call.
THEOREM PendingOwed == Spec => []PendingIsOwed
<1>1. Inv => PendingIsOwed
  BY DEF Inv, PendingInv, PendingIsOwed, Ready, Lost
<1> QED
  BY <1>1, Invariance, PTL

\* No call is refused because the connection is not there yet.
THEOREM NeverRefusedEarly == Spec => []RefusedOnlyWhenLost
BY Invariance, PTL DEF Inv

\* The process survives the loss of its connection.
THEOREM LossSurvived == Spec => []SurvivesLoss
BY Invariance, PTL DEF Inv

\* When 'error' has been emitted for a failure, no promise made before it is pending.
THEOREM FailureIsTold == Spec => FailureReachesAll
<1>1. Inv /\ [Next]_vars
        => [announcing = {"failed"} /\ announcing' = {}
              => \A c \in 1 .. before : promise'[c] # "pending"]_vars
  <2> SUFFICES ASSUME Inv, Next, announcing = {"failed"}, announcing' = {}, NEW c \in 1 .. before
               PROVE  promise'[c] # "pending"
    OBVIOUS
  <2>1. EmitError
    BY DEF Next, Application, CallMethod, CreateStream, End, Startup, Connect, ConnectFails, Fail,
       ConnectThrows, EmitConnection, Continue, Advance, StateReady, Connection, StateFailed,
       Failure, Closed, Replies, Reply, AtLoop, Idle, connection
  <2>2. c \in 1 .. called /\ c \in Calls /\ ~(c > before)
    BY ContextAssumption DEF Inv, TypeOK, Calls
  <2>3. ToSet(emitting) = {} /\ c \notin ToSet(microtasks)
    BY <2>2, EmptyQueue DEF Inv, PhaseInv
  <2>4. c \in ToSet(waiting) \/ operation[c] # "none"
    BY <2>2, <2>3 DEF Inv, PlaceInv
  <2> QED
    BY <2>1, <2>2, <2>4 DEF EmitError, Listening
<1> QED
  BY <1>1, Invariance, PTL DEF Spec, FailureReachesAll

===============================================================================
