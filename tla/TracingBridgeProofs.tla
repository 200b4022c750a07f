------------------------ MODULE TracingBridgeProofs ------------------------
(***************************************************************************)
(* For any number of threads and events, any capacity and any word width:  *)
(* the bridge loses an accepted event without counting it only in the race *)
(* between the last empty receive and the stop flag, or to a panic; and    *)
(* its two counters agree with what happened to the events, although they  *)
(* are atomics of their own and in_flight wraps.                           *)
(***************************************************************************)
EXTENDS TracingBridge, FiniteSetTheorems, TLAPS

\* Init establishes the type invariant.
LEMMA InitTypeOK == Init => TypeOK
<1> SUFFICES ASSUME Init PROVE TypeOK
  OBVIOUS
<1>1. stop \in BOOLEAN /\ sink \in BOOLEAN
  BY Zenon DEF Init
<1> QED
  BY <1>1, BridgeAssumption DEF Init, TypeOK, Levels, Modulus, DrainSteps, EmitSteps, Fates

\* Arithmetic on the in_flight word stays in the word.
LEMMA WordArithmetic ==
    ASSUME NEW n \in 0..(Modulus - 1)
    PROVE  /\ (n + 1) % Modulus \in 0..(Modulus - 1)
           /\ (n - 1) % Modulus \in 0..(Modulus - 1)
<1>1. Modulus \in Nat /\ Modulus > 0
  BY BridgeAssumption DEF Modulus
<1> QED BY <1>1

\* Type correctness, for every capacity: the channel never exceeds it.
THEOREM TypeCorrect == Spec => []TypeOK
<1>1. TypeOK /\ [Next]_vars => TypeOK'
  <2> SUFFICES ASSUME TypeOK, [Next]_vars PROVE TypeOK'
    OBVIOUS
  <2> USE BridgeAssumption DEF TypeOK, DrainSteps, EmitSteps, Fates,
        handleVars, atomics, drainVars, emitVars
  <2>1. CASE InstallSubscriber \/ SubscriberError \/ install_sink
    BY <2>1 DEF InstallSubscriber, SubscriberError, install_sink
  <2>2. ASSUME NEW level \in Thresholds, set_min_level(level) PROVE TypeOK'
    BY <2>2 DEF set_min_level
  <2>3. CASE BeginShutdown
    BY <2>3 DEF BeginShutdown
  <2>4. CASE ShutdownStep
    BY <2>4 DEF ShutdownStep, BudgetExpired, Joined
  <2>5. ASSUME NEW m \in Emitters, NEW e \in Events, OnEvent(m, e) PROVE TypeOK'
    BY <2>5 DEF OnEvent
  <2>6. ASSUME NEW m \in Emitters, EmitStep(m) PROVE TypeOK'
    <3>1. CASE TrySend(m) /\ Accepts
      <4>1. emitting[m] \in Events
        BY <3>1 DEF TrySend
      <4>2. queue' \in Seq(Events) /\ Len(queue') <= Capacity
        BY <3>1, <4>1 DEF TrySend, Accepts
      <4>3. unseen' \subseteq Events /\ fate' \in [Events -> Fates]
        BY <3>1, <4>1 DEF TrySend
      <4>4. /\ epc' = [epc EXCEPT ![m] = "add"]
            /\ UNCHANGED <<handleVars, atomics, drainVars, emitting>>
        BY <3>1 DEF TrySend
      <4> QED BY <4>2, <4>3, <4>4
    <3>2. CASE TrySend(m) /\ ~Accepts
      BY <3>2 DEF TrySend
    <3>3. CASE FetchAdd(m)
      <4>1. in_flight' \in 0..(Modulus - 1)
        BY <3>3, WordArithmetic DEF FetchAdd
      <4> QED BY <3>3, <4>1 DEF FetchAdd, EndEmit
    <3>4. CASE CountRejected(m)
      BY <3>4 DEF CountRejected, EndEmit
    <3> QED BY <2>6, <3>1, <3>2, <3>3, <3>4 DEF EmitStep
  <2>7. CASE DrainStep
    <3>1. CASE Receive
      <4>1. Head(queue) \in Events /\ queue' \in Seq(Events) /\ Len(queue') <= Capacity
        BY <3>1 DEF Receive
      <4> QED BY <3>1, <4>1 DEF Receive
    <3>2. CASE ReceiveTimeout \/ ReceiveDisconnected \/ CheckStop
      <4>1. queue' \in Seq(Events) /\ Len(queue') <= Capacity
        <5>1. queue' = queue \/ queue' = << >>
          BY <3>2 DEF ReceiveTimeout, ReceiveDisconnected, CheckStop, EndDrain
        <5>2. CASE queue' = queue
          BY <5>2
        <5>3. CASE queue' = << >>
          BY <5>3
        <5> QED BY <5>1, <5>2, <5>3
      <4>2. drain' \in DrainSteps /\ held' \in Events \cup {NoEvent} /\ unseen' \subseteq Events
        BY <3>2 DEF ReceiveTimeout, ReceiveDisconnected, CheckStop, EndDrain
      <4>3. UNCHANGED <<handleVars, atomics, emitVars, fate>>
        BY <3>2 DEF ReceiveTimeout, ReceiveDisconnected, CheckStop
      <4> QED BY <4>1, <4>2, <4>3
    <3>3. CASE FetchSub \/ CountFailed
      <4>1. in_flight' \in 0..(Modulus - 1)
        BY <3>3, WordArithmetic DEF FetchSub, CountFailed
      <4> QED BY <3>3, <4>1 DEF FetchSub, CountFailed
    <3>4. CASE NoSink
      BY <3>4 DEF NoSink, Discard
    <3> QED BY <2>7, <3>1, <3>2, <3>3, <3>4 DEF DrainStep
  <2>8. CASE SinkStep
    <3>1. CASE Record \/ RecordError
      BY <3>1 DEF Record, RecordError, Discard
    <3>2. CASE SinkPanic
      <4>1. queue' \in Seq(Events) /\ Len(queue') <= Capacity
        BY <3>2 DEF SinkPanic, EndDrain
      <4> QED BY <3>2, <4>1 DEF SinkPanic, EndDrain
    <3> QED BY <2>8, <3>1, <3>2 DEF SinkStep
  <2>9. CASE UNCHANGED vars
    BY <2>9 DEF vars
  <2> QED
    BY <2>1, <2>2, <2>3, <2>4, <2>5, <2>6, <2>7, <2>8, <2>9 DEF Next
<1> QED BY <1>1, InitTypeOK, PTL DEF Spec

-----------------------------------------------------------------------------

\* The threads inside try_send hold distinct events that nothing else holds.
Sending ==
    \A m \in Emitters : epc[m] = "send" =>
        /\ fate[emitting[m]] = "sending"
        /\ \A n \in Emitters \ {m} : epc[n] = "send" => emitting[n] # emitting[m]

\* Until the receiver is gone an accepted event is in the channel or in hand.
InBridge ==
    \A e \in Events :
        /\ fate[e] = "queued" /\ ~Ended => \E i \in 1..Len(queue) : queue[i] = e
        /\ fate[e] = "held" /\ drain # "panicked" => e = held /\ drain \in {"sub", "sink"}

\* What the receive that timed out did not see is all there is.
SinceTimeout ==
    drain = "timeout" => \A e \in Events : fate[e] = "queued" => e \in unseen

\* The channel holds accepted events, each of them once, and the record in
\* hand is no longer in it.
Sent ==
    /\ \A i \in 1..Len(queue) :
          /\ fate[queue[i]] = "queued"
          /\ \A j \in 1..Len(queue) : queue[i] = queue[j] => i = j
    /\ drain \in {"sub", "sink"} => held \in Events /\ fate[held] = "held"

BridgeInv == Sending /\ Sent /\ InBridge /\ SinceTimeout /\ LossIsLast

\* Init establishes the invariant.
LEMMA InitBridgeInv == Init => BridgeInv
  BY DEF Init, BridgeInv, Sending, Sent, InBridge, SinceTimeout, LossIsLast, Lost, WithFate, Ended

\* The threads, the channel and the drain thread agree on where each event is.
LEMMA BridgeInvariant == Spec => []BridgeInv
<1>1. TypeOK /\ BridgeInv /\ [Next]_vars => BridgeInv'
  <2> SUFFICES ASSUME TypeOK, BridgeInv, [Next]_vars PROVE BridgeInv'
    OBVIOUS
  <2> USE DEF BridgeInv
  <2>1. ASSUME UNCHANGED <<queue, drain, held, epc, emitting, fate, unseen>>, stop => stop'
        PROVE  BridgeInv'
    BY <2>1 DEF Sending, Sent, InBridge, SinceTimeout, LossIsLast, Lost, WithFate, Ended
  <2>2. ASSUME NEW m \in Emitters, NEW e \in Events, OnEvent(m, e) PROVE BridgeInv'
    <3>1. Sending'
      BY <2>2 DEF OnEvent, TypeOK, Sending
    <3>2. InBridge' /\ SinceTimeout' /\ LossIsLast'
      BY <2>2 DEF OnEvent, TypeOK, InBridge, SinceTimeout, LossIsLast, Lost, WithFate, Ended,
        handleVars, atomics, drainVars
    <3>3. Sent'
      BY <2>2 DEF OnEvent, TypeOK, Sent, drainVars
    <3> QED BY <3>1, <3>2, <3>3
  <2>3. ASSUME NEW m \in Emitters, TrySend(m) PROVE BridgeInv'
    <3>1. PICK e \in Events : e = emitting[m]
      BY <2>3 DEF TrySend, TypeOK
    <3>2. Sending'
      BY <2>3, <3>1 DEF TrySend, TypeOK, Sending
    <3>3. fate[e] = "sending"
      BY <2>3, <3>1 DEF TrySend, Sending
    <3>4. CASE Accepts
      <4>1. /\ queue' = Append(queue, e) /\ fate' = [fate EXCEPT ![e] = "queued"] /\ ~Ended
            /\ unseen' = IF drain = "timeout" THEN unseen \cup {e} ELSE unseen
            /\ UNCHANGED <<drain, held, stop>>
        BY <2>3, <3>1, <3>4 DEF TrySend, Accepts, drainVars, atomics
      <4>2. ASSUME NEW f \in Events, fate'[f] = "queued"
            PROVE  \E i \in 1..Len(queue') : queue'[i] = f
        <5>1. CASE f = e
          BY <4>1, <5>1 DEF TypeOK
        <5>2. CASE f # e
          <6>1. PICK i \in 1..Len(queue) : queue[i] = f
            BY <4>1, <4>2, <5>2 DEF TypeOK, InBridge
          <6> QED BY <4>1, <6>1 DEF TypeOK
        <5> QED BY <5>1, <5>2
      <4>3. InBridge' /\ SinceTimeout' /\ LossIsLast'
        BY <4>1, <4>2 DEF TypeOK, InBridge, SinceTimeout, LossIsLast, Lost, WithFate, Ended
      <4>4. Sent'
        <5>1. held \in Events /\ fate[held] = "held" => held # e /\ fate'[held] = "held"
          BY <3>3, <4>1 DEF TypeOK
        <5>2. ASSUME NEW i \in 1..Len(queue)
              PROVE  queue'[i] = queue[i] /\ queue[i] # e /\ fate'[queue[i]] = "queued"
          BY <3>3, <4>1 DEF TypeOK, Sent
        <5>3. Len(queue') = Len(queue) + 1 /\ queue'[Len(queue) + 1] = e /\ fate'[e] = "queued"
          BY <4>1 DEF TypeOK
        <5>4. ASSUME NEW i \in 1..Len(queue')
              PROVE  /\ fate'[queue'[i]] = "queued"
                     /\ \A j \in 1..Len(queue') : queue'[i] = queue'[j] => i = j
          <6>1. Len(queue) \in Nat
            BY DEF TypeOK
          <6>2. \A j \in 1..Len(queue') : j \in 1..Len(queue) \/ j = Len(queue) + 1
            BY <5>3, <6>1
          <6>3. fate'[queue'[i]] = "queued"
            BY <5>2, <5>3, <6>2
          <6>4. ASSUME NEW j \in 1..Len(queue'), queue'[i] = queue'[j] PROVE i = j
            BY <5>2, <5>3, <6>2, <6>4 DEF Sent
          <6> QED BY <6>3, <6>4
        <5> QED BY <4>1, <5>1, <5>4 DEF Sent
      <4> QED BY <3>2, <4>3, <4>4
    <3>5. CASE ~Accepts
      <4>1. fate' = [fate EXCEPT ![e] = "rejected"] /\ UNCHANGED <<drain, held, stop, queue, unseen>>
        BY <2>3, <3>1, <3>5 DEF TrySend, drainVars, atomics
      <4>2. InBridge' /\ SinceTimeout' /\ LossIsLast'
        BY <4>1 DEF TypeOK, InBridge, SinceTimeout, LossIsLast, Lost, WithFate, Ended
      <4>3. Sent'
        <5>1. held \in Events /\ fate[held] = "held" => held # e /\ fate'[held] = "held"
          BY <3>3, <4>1 DEF TypeOK
        <5>2. ASSUME NEW i \in 1..Len(queue) PROVE fate'[queue[i]] = "queued"
          BY <3>3, <4>1 DEF TypeOK, Sent
        <5> QED BY <4>1, <5>1, <5>2 DEF Sent
      <4> QED BY <3>2, <4>2, <4>3
    <3> QED BY <3>4, <3>5
  <2>4. ASSUME NEW m \in Emitters, FetchAdd(m) \/ CountRejected(m) PROVE BridgeInv'
    <3>1. /\ epc' = [epc EXCEPT ![m] = "idle"] /\ emitting' = [emitting EXCEPT ![m] = NoEvent]
          /\ UNCHANGED <<queue, drain, held, fate, unseen, stop>>
      BY <2>4 DEF FetchAdd, CountRejected, EndEmit, drainVars
    <3>2. Sending'
      BY <3>1 DEF TypeOK, Sending
    <3>3. Sent' /\ InBridge' /\ SinceTimeout' /\ LossIsLast'
      BY <3>1 DEF Sent, InBridge, SinceTimeout, LossIsLast, Lost, WithFate, Ended
    <3> QED BY <3>2, <3>3
  <2>5. CASE Receive
    <3>1. PICK h \in Events : h = Head(queue)
      BY <2>5 DEF Receive, TypeOK
    <3>2. /\ drain = "recv" /\ drain' = "sub" /\ held' = h /\ queue # << >> /\ queue' = Tail(queue)
          /\ fate' = [fate EXCEPT ![h] = "held"] /\ UNCHANGED <<epc, emitting, unseen, stop>>
      BY <2>5, <3>1 DEF Receive, emitVars, atomics
    <3>3. ASSUME NEW e \in Events, e # h, fate[e] = "queued"
          PROVE  \E i \in 1..Len(queue') : queue'[i] = e
      <4>1. PICK i \in 1..Len(queue) : queue[i] = e
        BY <3>2, <3>3 DEF InBridge, Ended
      <4>2. i # 1
        BY <3>1, <3>2, <3>3, <4>1 DEF TypeOK
      <4>3. i - 1 \in 1..Len(queue') /\ queue'[i - 1] = e
        BY <3>2, <4>1, <4>2 DEF TypeOK
      <4> QED BY <4>3
    <3>4. InBridge' /\ SinceTimeout' /\ LossIsLast'
      BY <3>2, <3>3 DEF TypeOK, InBridge, SinceTimeout, LossIsLast, Lost, WithFate, Ended
    <3>5. fate[h] \notin {"new", "sending"}
      <4>1. 1 \in 1..Len(queue) /\ queue[1] = h
        BY <3>1, <3>2 DEF TypeOK
      <4> QED BY <4>1 DEF Sent
    <3>6. Sending'
      BY <3>2, <3>5 DEF TypeOK, Sending
    <3>7. Sent'
      <4>1. 1 \in 1..Len(queue) /\ queue[1] = h
        BY <3>1, <3>2 DEF TypeOK
      <4>2. ASSUME NEW i \in 1..Len(queue')
            PROVE  i + 1 \in 1..Len(queue) /\ queue'[i] = queue[i + 1] /\ queue[i + 1] \in Events
        BY <3>2 DEF TypeOK
      <4>3. ASSUME NEW i \in 1..Len(queue')
            PROVE  /\ fate'[queue'[i]] = "queued"
                   /\ \A j \in 1..Len(queue') : queue'[i] = queue'[j] => i = j
        <5>1. fate[queue[i + 1]] = "queued" /\ queue[i + 1] # h
          BY <4>1, <4>2 DEF Sent
        <5>2. fate'[queue'[i]] = "queued"
          BY <3>2, <4>2, <5>1 DEF TypeOK
        <5>3. ASSUME NEW j \in 1..Len(queue'), queue'[i] = queue'[j] PROVE i = j
          BY <4>2, <5>3 DEF Sent
        <5> QED BY <5>2, <5>3
      <4> QED BY <3>2, <4>3 DEF TypeOK, Sent
    <3> QED BY <3>4, <3>6, <3>7
  <2>6. CASE ReceiveTimeout
    <3>1. queue = << >> /\ drain' = "timeout" /\ drain = "recv"
          /\ UNCHANGED <<queue, held, epc, emitting, fate, stop>>
      BY <2>6 DEF ReceiveTimeout, emitVars, atomics
    <3>2. \A e \in Events : fate[e] # "queued" /\ fate[e] # "held"
      BY <3>1 DEF InBridge, Ended
    <3> QED
      BY <3>1, <3>2 DEF Sending, Sent, InBridge, SinceTimeout, LossIsLast, Lost, WithFate, Ended
  <2>7. CASE ReceiveDisconnected
    <3>1. queue = << >> /\ queue' = << >> /\ drain' = "finished" /\ drain = "recv"
          /\ UNCHANGED <<epc, emitting, fate, stop, unseen>>
      BY <2>7 DEF ReceiveDisconnected, EndDrain, emitVars, atomics
    <3>2. \A e \in Events : fate[e] # "queued" /\ fate[e] # "held"
      BY <3>1 DEF InBridge, Ended
    <3> QED
      BY <3>1, <3>2 DEF Sending, Sent, InBridge, SinceTimeout, LossIsLast, Lost, WithFate, Ended
  <2>8. CASE CheckStop /\ stop
    <3>1. queue' = << >> /\ drain' = "finished" /\ drain = "timeout"
          /\ UNCHANGED <<epc, emitting, fate, stop, unseen>>
      BY <2>8 DEF CheckStop, EndDrain, emitVars, atomics
    <3>2. \A e \in Events : fate[e] # "held" /\ (fate[e] = "queued" => e \in unseen)
      BY <3>1 DEF InBridge, SinceTimeout
    <3> QED
      BY <2>8, <3>1, <3>2 DEF Sending, Sent, InBridge, SinceTimeout, LossIsLast, Lost, WithFate, Ended
  <2>9. CASE CheckStop /\ ~stop
    <3>1. drain' = "recv" /\ drain = "timeout"
          /\ UNCHANGED <<queue, held, epc, emitting, fate, stop, unseen>>
      BY <2>9 DEF CheckStop, emitVars, atomics
    <3> QED
      BY <3>1 DEF Sending, Sent, InBridge, SinceTimeout, LossIsLast, Lost, WithFate, Ended
  <2>10. CASE FetchSub \/ CountFailed
    <3>1. \/ drain = "sub" /\ drain' = "sink"
          \/ drain = "count" /\ drain' = "recv"
      BY <2>10 DEF FetchSub, CountFailed
    <3>2. UNCHANGED <<queue, held, epc, emitting, fate, stop, unseen>>
      BY <2>10 DEF FetchSub, CountFailed, emitVars
    <3> QED
      BY <3>1, <3>2 DEF Sending, Sent, InBridge, SinceTimeout, LossIsLast, Lost, WithFate, Ended
  <2>11. ASSUME Record \/ RecordError \/ NoSink PROVE BridgeInv'
    <3>1. drain = "sink" /\ drain' \in {"recv", "count"}
          /\ UNCHANGED <<queue, epc, emitting, stop, unseen>>
      BY <2>11 DEF Record, RecordError, NoSink, Discard, emitVars, atomics
    <3>2. PICK f \in {"recorded", "failed"} : fate' = [fate EXCEPT ![held] = f]
      BY <2>11 DEF Record, RecordError, NoSink, Discard
    <3>3. held \in Events /\ fate[held] \notin {"new", "sending"}
      BY <3>1 DEF Sent
    <3>4. Sending' /\ Sent'
      BY <3>1, <3>2, <3>3 DEF TypeOK, Sending, Sent
    <3>5. InBridge' /\ SinceTimeout' /\ LossIsLast'
      BY <3>1, <3>2, <3>3 DEF TypeOK, InBridge, SinceTimeout, LossIsLast, Lost, WithFate, Ended
    <3> QED BY <3>4, <3>5
  <2>12. CASE SinkPanic
    <3>1. drain' = "panicked" /\ queue' = << >> /\ UNCHANGED <<epc, emitting, fate, stop, unseen>>
      BY <2>12 DEF SinkPanic, EndDrain, emitVars, atomics
    <3> QED
      BY <3>1 DEF Sending, Sent, InBridge, SinceTimeout, LossIsLast, Lost, WithFate, Ended
  <2>13. ASSUME \/ InstallSubscriber \/ SubscriberError \/ install_sink \/ BeginShutdown \/ ShutdownStep
                \/ (\E level \in Thresholds : set_min_level(level))
                \/ UNCHANGED vars
         PROVE  BridgeInv'
    BY <2>1, <2>13 DEF InstallSubscriber, SubscriberError, install_sink, BeginShutdown, ShutdownStep,
      BudgetExpired, Joined, set_min_level, vars, atomics, drainVars, emitVars
  <2> QED
    BY <2>2, <2>3, <2>4, <2>5, <2>6, <2>7, <2>8, <2>9, <2>10, <2>11, <2>12, <2>13
    DEF Next, EmitStep, DrainStep, SinkStep
<1> QED BY <1>1, InitBridgeInv, TypeCorrect, PTL DEF Spec

\* An accepted event is lost uncounted only to a panic of the sink or in the
\* race at shutdown: everything the drain thread could have seen is forwarded.
THEOREM LossIsLastHolds == Spec => []LossIsLast
<1>1. BridgeInv => LossIsLast
  BY DEF BridgeInv
<1> QED BY <1>1, BridgeInvariant, PTL
-----------------------------------------------------------------------------
\* Counting.

\* Integer division by a positive number.
LEMMA Quotient ==
    ASSUME NEW M \in Nat \ {0}, NEW a \in Int
    PROVE  \E q \in Int, r \in 0..(M - 1) : a = M * q + r /\ a % M = r
<1>1. a % M \in 0..(M - 1) /\ a \div M \in Int /\ a = M * (a \div M) + (a % M)
  OBVIOUS
<1> QED BY <1>1

\* A remainder is its own remainder.
LEMMA Remainder ==
    ASSUME NEW M \in Nat \ {0}, NEW q \in Int, NEW r \in 0..(M - 1)
    PROVE  (M * q + r) % M = r
  OBVIOUS

\* Adding to or subtracting from a word commutes with taking the word: what
\* fetch_add and fetch_sub do when they wrap.
LEMMA ModStep ==
    ASSUME NEW M \in Nat \ {0}, NEW a \in Int
    PROVE  /\ ((a % M) + 1) % M = (a + 1) % M
           /\ ((a % M) - 1) % M = (a - 1) % M
<1>1. PICK q \in Int, r \in 0..(M - 1) : a = M * q + r /\ a % M = r
  BY Quotient
<1>2. (r + 1) % M = (a + 1) % M
  <2>1. CASE r + 1 < M
    <3>1. a + 1 = M * q + (r + 1) /\ r + 1 = M * 0 + (r + 1) /\ r + 1 \in 0..(M - 1)
      BY <1>1, <2>1
    <3>2. (M * q + (r + 1)) % M = r + 1 /\ (M * 0 + (r + 1)) % M = r + 1
      BY <3>1, Remainder
    <3> QED BY <3>1, <3>2
  <2>2. CASE r + 1 = M
    <3>1. a + 1 = M * (q + 1) + 0 /\ r + 1 = M * 1 + 0 /\ 0 \in 0..(M - 1) /\ q + 1 \in Int
      BY <1>1, <2>2
    <3>2. (M * (q + 1) + 0) % M = 0 /\ (M * 1 + 0) % M = 0
      BY <3>1, Remainder
    <3> QED BY <3>1, <3>2
  <2> QED BY <2>1, <2>2
<1>3. (r - 1) % M = (a - 1) % M
  <2>1. CASE r > 0
    <3>1. a - 1 = M * q + (r - 1) /\ r - 1 = M * 0 + (r - 1) /\ r - 1 \in 0..(M - 1)
      BY <1>1, <2>1
    <3> QED BY <3>1, Remainder
  <2>2. CASE r = 0
    <3>1. /\ a - 1 = M * (q - 1) + (M - 1) /\ r - 1 = M * (-1) + (M - 1)
          /\ M - 1 \in 0..(M - 1) /\ q - 1 \in Int /\ -1 \in Int
      BY <1>1, <2>2
    <3> QED BY <3>1, Remainder
  <2> QED BY <2>1, <2>2
<1> QED BY <1>1, <1>2, <1>3

\* Sets that differ in one element at most differ by one in size.
LEMMA CountMove ==
    ASSUME NEW S, NEW T, NEW x, IsFiniteSet(S), S \ {x} = T \ {x}
    PROVE  /\ IsFiniteSet(T) /\ Cardinality(S) \in Nat /\ Cardinality(T) \in Nat
           /\ Cardinality(T) = Cardinality(S) + (IF x \in T THEN 1 ELSE 0) - (IF x \in S THEN 1 ELSE 0)
<1> DEFINE U == S \ {x}
<1>1. IsFiniteSet(U) /\ Cardinality(U) \in Nat
  BY FS_Subset, FS_CardinalityType
<1>2. ASSUME NEW V, V \ {x} = U
      PROVE  IsFiniteSet(V) /\ Cardinality(V) = Cardinality(U) + (IF x \in V THEN 1 ELSE 0)
  <2>1. CASE x \in V
    <3>1. V = U \cup {x} /\ x \notin U
      BY <1>2, <2>1
    <3>2. IsFiniteSet(V) /\ Cardinality(V) = Cardinality(U) + 1
      BY <1>1, <3>1, FS_AddElement
    <3> QED BY <2>1, <3>2
  <2>2. CASE x \notin V
    <3>1. V = U
      BY <1>2, <2>2
    <3> QED BY <1>1, <2>2, <3>1
  <2> QED BY <2>1, <2>2
<1>3. IsFiniteSet(S) /\ Cardinality(S) = Cardinality(U) + (IF x \in S THEN 1 ELSE 0)
  BY <1>2
<1>4. IsFiniteSet(T) /\ Cardinality(T) = Cardinality(U) + (IF x \in T THEN 1 ELSE 0)
  BY <1>2
<1> HIDE DEF U
<1> QED BY <1>1, <1>3, <1>4

\* An event that gets another fate moves from one count to another.
LEMMA FateMove ==
    ASSUME TypeOK, NEW e \in Events, NEW f, fate' = [fate EXCEPT ![e] = f], NEW kinds
    PROVE  /\ Cardinality(WithFate(kinds)) \in Nat
           /\ Cardinality(WithFate(kinds))' =
                Cardinality(WithFate(kinds)) + (IF f \in kinds THEN 1 ELSE 0) - (IF fate[e] \in kinds THEN 1 ELSE 0)
<1> DEFINE S == WithFate(kinds)
           T == {x \in Events : fate'[x] \in kinds}
<1>1. IsFiniteSet(S)
  BY BridgeAssumption, FS_Subset DEF WithFate
<1>2. S \ {e} = T \ {e} /\ (e \in T <=> f \in kinds) /\ (e \in S <=> fate[e] \in kinds)
  BY DEF TypeOK, WithFate
<1>3. T = S'
  BY DEF WithFate
<1> HIDE DEF S, T
<1>4. /\ Cardinality(S) \in Nat
      /\ Cardinality(T) = Cardinality(S) + (IF e \in T THEN 1 ELSE 0) - (IF e \in S THEN 1 ELSE 0)
  BY <1>1, <1>2, CountMove
<1>5. /\ Cardinality(S) \in Nat
      /\ Cardinality(S)' = Cardinality(S) + (IF f \in kinds THEN 1 ELSE 0) - (IF fate[e] \in kinds THEN 1 ELSE 0)
  BY <1>2, <1>3, <1>4
<1> QED BY <1>5 DEF S

\* A thread that takes its next step moves from one count to another.
LEMMA StepMove ==
    ASSUME TypeOK, NEW m \in Emitters, NEW st, epc' = [epc EXCEPT ![m] = st], NEW at
    PROVE  /\ Cardinality(At(at)) \in Nat
           /\ Cardinality(At(at))' = Cardinality(At(at)) + (IF st = at THEN 1 ELSE 0) - (IF epc[m] = at THEN 1 ELSE 0)
<1> DEFINE S == At(at)
           T == {x \in Emitters : epc'[x] = at}
<1>1. IsFiniteSet(S)
  BY BridgeAssumption, FS_Subset DEF At
<1>2. S \ {m} = T \ {m} /\ (m \in T <=> st = at) /\ (m \in S <=> epc[m] = at)
  BY DEF TypeOK, At
<1>3. T = S'
  BY DEF At
<1> HIDE DEF S, T
<1>4. /\ Cardinality(S) \in Nat
      /\ Cardinality(T) = Cardinality(S) + (IF m \in T THEN 1 ELSE 0) - (IF m \in S THEN 1 ELSE 0)
  BY <1>1, <1>2, CountMove
<1>5. /\ Cardinality(S) \in Nat
      /\ Cardinality(S)' = Cardinality(S) + (IF st = at THEN 1 ELSE 0) - (IF epc[m] = at THEN 1 ELSE 0)
  BY <1>2, <1>3, <1>4
<1> QED BY <1>5 DEF S

\* The books of the bridge.
Ledger == DropsAccounted /\ InFlightAgrees

Dropping == Cardinality(At("drop"))
Adding == Cardinality(At("add"))
Refused == Cardinality(WithFate({"rejected", "failed"}))
Queued == Cardinality(WithFate({"queued"}))

\* The counts are numbers, and the books say this of them.
LEMMA LedgerCounts ==
    ASSUME TypeOK
    PROVE  /\ Dropping \in Nat /\ Adding \in Nat /\ Refused \in Nat /\ Queued \in Nat
           /\ DropsAccounted <=> drop_counter + Dropping + (IF drain = "count" THEN 1 ELSE 0) = Refused
           /\ InFlightAgrees <=>
                in_flight = ((Queued + (IF drain = "sub" THEN 1 ELSE 0)) - Adding) % Modulus
<1>1. ASSUME NEW kinds PROVE Cardinality(WithFate(kinds)) \in Nat
  BY BridgeAssumption, FS_Subset, FS_CardinalityType DEF WithFate
<1>2. ASSUME NEW at PROVE Cardinality(At(at)) \in Nat
  BY BridgeAssumption, FS_Subset, FS_CardinalityType DEF At
<1> QED
  BY <1>1, <1>2 DEF DropsAccounted, InFlightAgrees, Dropping, Adding, Refused, Queued, Bit

\* An event gets another fate; a thread takes its next step.
FateBecomes(e, f) == fate' = [fate EXCEPT ![e] = f]
StepBecomes(m, st) == epc' = [epc EXCEPT ![m] = st]

\* The new counts after a step of one thread.
LEMMA ThreadCounts ==
    ASSUME TypeOK, NEW m \in Emitters, NEW st, StepBecomes(m, st)
    PROVE  /\ Dropping' = Dropping + (IF st = "drop" THEN 1 ELSE 0) - (IF epc[m] = "drop" THEN 1 ELSE 0)
           /\ Adding' = Adding + (IF st = "add" THEN 1 ELSE 0) - (IF epc[m] = "add" THEN 1 ELSE 0)
  BY StepMove DEF Dropping, Adding, StepBecomes

\* The new counts after one event met its next fate.
LEMMA EventCounts ==
    ASSUME TypeOK, NEW e \in Events, NEW f, FateBecomes(e, f)
    PROVE  /\ Refused' = Refused + (IF f \in {"rejected", "failed"} THEN 1 ELSE 0)
                                 - (IF fate[e] \in {"rejected", "failed"} THEN 1 ELSE 0)
           /\ Queued' = Queued + (IF f = "queued" THEN 1 ELSE 0) - (IF fate[e] = "queued" THEN 1 ELSE 0)
<1>1. fate' = [fate EXCEPT ![e] = f]
  BY DEF FateBecomes
<1>2. ASSUME NEW kinds
      PROVE  Cardinality(WithFate(kinds))' =
               Cardinality(WithFate(kinds)) + (IF f \in kinds THEN 1 ELSE 0)
                                            - (IF fate[e] \in kinds THEN 1 ELSE 0)
  BY <1>1, FateMove, Zenon
<1>3. Refused' = Refused + (IF f \in {"rejected", "failed"} THEN 1 ELSE 0)
                         - (IF fate[e] \in {"rejected", "failed"} THEN 1 ELSE 0)
  BY <1>2 DEF Refused
<1>4. Queued' = Queued + (IF f = "queued" THEN 1 ELSE 0) - (IF fate[e] = "queued" THEN 1 ELSE 0)
  BY <1>2 DEF Queued
<1> QED BY <1>3, <1>4

\* The counts depend on the steps of the threads and the fates alone.
LEMMA SameCounts ==
    /\ UNCHANGED epc => UNCHANGED <<Dropping, Adding>>
    /\ UNCHANGED fate => UNCHANGED <<Refused, Queued>>
  BY DEF Dropping, Adding, Refused, Queued, At, WithFate

\* Init establishes the books: nothing is counted.
LEMMA InitLedger == Init => Ledger
<1> SUFFICES ASSUME Init PROVE Ledger
  OBVIOUS
<1>1. /\ At("drop") = {} /\ At("add") = {}
      /\ WithFate({"rejected", "failed"}) = {} /\ WithFate({"queued"}) = {}
  BY DEF Init, At, WithFate
<1>2. Cardinality({}) = 0
  BY FS_EmptySet
<1>3. Dropping = 0 /\ Adding = 0 /\ Refused = 0 /\ Queued = 0
  BY <1>1, <1>2 DEF Dropping, Adding, Refused, Queued
<1>4. 0 % Modulus = 0
  BY BridgeAssumption DEF Modulus
<1>5. TypeOK /\ drain = "recv" /\ drop_counter = 0 /\ in_flight = 0
  BY InitTypeOK DEF Init
<1> QED BY <1>3, <1>4, <1>5, LedgerCounts DEF Ledger

\* Every atomic operation keeps the books: each of the two increments and the
\* subtraction undoes the imbalance of the step before it.
LEMMA LedgerStep ==
    ASSUME TypeOK, TypeOK', BridgeInv, Ledger, [Next]_vars
    PROVE  Ledger'
<1> DEFINE Drops == drop_counter + Dropping + (IF drain = "count" THEN 1 ELSE 0)
           Level == (Queued + (IF drain = "sub" THEN 1 ELSE 0)) - Adding
<1>1. /\ Dropping \in Nat /\ Adding \in Nat /\ Refused \in Nat /\ Queued \in Nat
      /\ drop_counter \in Nat
  BY LedgerCounts DEF TypeOK
<1>2. Drops = Refused /\ in_flight = Level % Modulus
  BY LedgerCounts DEF Ledger
<1>3. ASSUME Drops' = Refused', in_flight' = (Level') % Modulus PROVE Ledger'
  <2>1. DropsAccounted'
    BY <1>3 DEF DropsAccounted, Dropping, Refused, Bit
  <2>2. InFlightAgrees'
    BY <1>3 DEF InFlightAgrees, Adding, Queued, Bit
  <2> QED BY <2>1, <2>2 DEF Ledger
<1>4. ASSUME UNCHANGED <<epc, fate, drop_counter, in_flight>>,
             drain' = "count" <=> drain = "count", drain' = "sub" <=> drain = "sub"
      PROVE  Ledger'
  <2>1. UNCHANGED <<Dropping, Adding, Refused, Queued>>
    BY <1>4, SameCounts
  <2> QED BY <1>2, <1>3, <1>4, <2>1
<1>5. ASSUME NEW m \in Emitters, NEW e \in Events, OnEvent(m, e) PROVE Ledger'
  <2>1. /\ epc[m] = "idle" /\ StepBecomes(m, "send")
        /\ fate[e] = "new" /\ FateBecomes(e, "sending")
        /\ UNCHANGED <<drop_counter, in_flight, drain>>
    BY <1>5 DEF OnEvent, atomics, drainVars, StepBecomes, FateBecomes
  <2>2. UNCHANGED <<Dropping, Adding, Refused, Queued>>
    BY <1>1, <2>1, ThreadCounts, EventCounts
  <2> QED BY <1>2, <1>3, <2>1, <2>2
<1>6. ASSUME NEW m \in Emitters, TrySend(m) PROVE Ledger'
  <2>1. PICK e \in Events : e = emitting[m] /\ fate[e] = "sending"
    BY <1>6 DEF TrySend, TypeOK, BridgeInv, Sending
  <2>2. epc[m] = "send" /\ UNCHANGED <<drop_counter, in_flight, drain>>
    BY <1>6 DEF TrySend, atomics, drainVars
  <2>3. CASE Accepts
    <3>1. StepBecomes(m, "add") /\ FateBecomes(e, "queued")
      BY <1>6, <2>1, <2>3 DEF TrySend, StepBecomes, FateBecomes
    <3>2. Adding' = Adding + 1 /\ Queued' = Queued + 1 /\ UNCHANGED <<Dropping, Refused>>
      BY <1>1, <2>1, <2>2, <3>1, ThreadCounts, EventCounts
    <3> QED BY <1>1, <1>2, <1>3, <2>2, <3>2
  <2>4. CASE ~Accepts
    <3>1. StepBecomes(m, "drop") /\ FateBecomes(e, "rejected")
      BY <1>6, <2>1, <2>4 DEF TrySend, StepBecomes, FateBecomes
    <3>2. Dropping' = Dropping + 1 /\ Refused' = Refused + 1 /\ UNCHANGED <<Adding, Queued>>
      BY <1>1, <2>1, <2>2, <3>1, ThreadCounts, EventCounts
    <3> QED BY <1>1, <1>2, <1>3, <2>2, <3>2
  <2> QED BY <2>3, <2>4
<1>7. ASSUME NEW m \in Emitters, FetchAdd(m) PROVE Ledger'
  <2>1. /\ epc[m] = "add" /\ StepBecomes(m, "idle")
        /\ in_flight' = (in_flight + 1) % Modulus /\ UNCHANGED <<drop_counter, drain, fate>>
    BY <1>7 DEF FetchAdd, EndEmit, drainVars, StepBecomes
  <2>2. Adding' = Adding - 1 /\ UNCHANGED <<Dropping, Refused, Queued>>
    BY <1>1, <2>1, ThreadCounts, SameCounts
  <2>3. Level \in Int /\ Level' = Level + 1
    BY <1>1, <2>1, <2>2
  <2>4. in_flight' = (Level + 1) % Modulus
    BY <1>2, <2>1, <2>3, ModStep, BridgeAssumption DEF Modulus
  <2> QED BY <1>2, <1>3, <2>1, <2>2, <2>3, <2>4
<1>8. ASSUME NEW m \in Emitters, CountRejected(m) PROVE Ledger'
  <2>1. /\ epc[m] = "drop" /\ StepBecomes(m, "idle")
        /\ drop_counter' = drop_counter + 1 /\ UNCHANGED <<in_flight, drain, fate>>
    BY <1>8 DEF CountRejected, EndEmit, drainVars, StepBecomes
  <2>2. Dropping' = Dropping - 1 /\ UNCHANGED <<Adding, Refused, Queued>>
    BY <1>1, <2>1, ThreadCounts, SameCounts
  <2> QED BY <1>1, <1>2, <1>3, <2>1, <2>2
<1>9. CASE Receive
  <2>1. PICK h \in Events : h = Head(queue) /\ fate[h] = "queued"
    <3>1. Head(queue) \in Events /\ 1 \in 1..Len(queue) /\ queue[1] = Head(queue)
      BY <1>9 DEF Receive, TypeOK
    <3> QED BY <3>1 DEF BridgeInv, Sent
  <2>2. /\ drain = "recv" /\ drain' = "sub" /\ FateBecomes(h, "held")
        /\ UNCHANGED <<drop_counter, in_flight, epc>>
    BY <1>9, <2>1 DEF Receive, atomics, emitVars, FateBecomes
  <2>3. Queued' = Queued - 1 /\ UNCHANGED <<Dropping, Adding, Refused>>
    BY <1>1, <2>1, <2>2, EventCounts, SameCounts
  <2> QED BY <1>1, <1>2, <1>3, <2>2, <2>3
<1>10. CASE FetchSub
  <2>1. /\ drain = "sub" /\ drain' = "sink" /\ in_flight' = (in_flight - 1) % Modulus
        /\ UNCHANGED <<drop_counter, epc, fate>>
    BY <1>10 DEF FetchSub, emitVars
  <2>2. UNCHANGED <<Dropping, Adding, Refused, Queued>>
    BY <2>1, SameCounts
  <2>3. Level \in Int /\ Level' = Level - 1
    BY <1>1, <2>1, <2>2
  <2>4. in_flight' = (Level - 1) % Modulus
    BY <1>2, <2>1, <2>3, ModStep, BridgeAssumption DEF Modulus
  <2>5. Drops' = Refused'
    BY <1>2, <2>1, <2>2
  <2> QED BY <1>3, <2>3, <2>4, <2>5
<1>11. ASSUME Record \/ RecordError \/ NoSink PROVE Ledger'
  <2>1. drain = "sink" /\ UNCHANGED <<drop_counter, in_flight, epc>>
    BY <1>11 DEF Record, RecordError, NoSink, Discard, atomics, emitVars
  <2>2. held \in Events /\ fate[held] = "held"
    BY <2>1 DEF BridgeInv, Sent
  <2>3. \/ FateBecomes(held, "recorded") /\ drain' = "recv"
        \/ FateBecomes(held, "failed") /\ drain' = "count"
    BY <1>11 DEF Record, RecordError, NoSink, Discard, FateBecomes
  <2>4. CASE FateBecomes(held, "recorded") /\ drain' = "recv"
    <3>1. UNCHANGED <<Dropping, Adding, Refused, Queued>>
      BY <1>1, <2>1, <2>2, <2>4, EventCounts, SameCounts
    <3> QED BY <1>2, <1>3, <2>1, <2>4, <3>1
  <2>5. CASE FateBecomes(held, "failed") /\ drain' = "count"
    <3>1. Refused' = Refused + 1 /\ UNCHANGED <<Dropping, Adding, Queued>>
      BY <1>1, <2>1, <2>2, <2>5, EventCounts, SameCounts
    <3> QED BY <1>1, <1>2, <1>3, <2>1, <2>5, <3>1
  <2> QED BY <2>3, <2>4, <2>5
<1>12. CASE CountFailed
  <2>1. /\ drain = "count" /\ drain' = "recv" /\ drop_counter' = drop_counter + 1
        /\ UNCHANGED <<in_flight, epc, fate>>
    BY <1>12 DEF CountFailed, emitVars
  <2>2. UNCHANGED <<Dropping, Adding, Refused, Queued>>
    BY <2>1, SameCounts
  <2> QED BY <1>1, <1>2, <1>3, <2>1, <2>2
<1>13. ASSUME \/ ReceiveTimeout \/ ReceiveDisconnected \/ CheckStop \/ SinkPanic
              \/ InstallSubscriber \/ SubscriberError \/ install_sink \/ BeginShutdown
              \/ ShutdownStep \/ (\E level \in Thresholds : set_min_level(level))
              \/ UNCHANGED vars
       PROVE  Ledger'
  BY <1>4, <1>13 DEF ReceiveTimeout, ReceiveDisconnected, CheckStop, SinkPanic, EndDrain,
     InstallSubscriber, SubscriberError, install_sink, BeginShutdown, ShutdownStep,
     BudgetExpired, Joined, set_min_level, vars, atomics, drainVars, emitVars
<1> QED
  BY <1>5, <1>6, <1>7, <1>8, <1>9, <1>10, <1>11, <1>12, <1>13
  DEF Next, EmitStep, DrainStep, SinkStep

\* The books balance in every reachable state.
LEMMA LedgerInvariant == Spec => []Ledger
<1>1. TypeOK /\ TypeOK' /\ BridgeInv /\ Ledger /\ [Next]_vars => Ledger'
  BY LedgerStep
<1> QED BY <1>1, InitLedger, TypeCorrect, BridgeInvariant, PTL DEF Spec

\* Every refused or failed event is counted exactly once by drop_count, for any
\* number of threads and events: no fetch_add is lost or repeated.
THEOREM DropsAccountedHolds == Spec => []DropsAccounted
<1>1. Ledger => DropsAccounted
  BY DEF Ledger
<1> QED BY <1>1, LedgerInvariant, PTL

\* in_flight follows the channel through every wrap-around of the word: the
\* subtraction that overtakes its addition is made up for (on_event adds after
\* try_send), for any word width.
THEOREM InFlightAgreesHolds == Spec => []InFlightAgrees
<1>1. Ledger => InFlightAgrees
  BY DEF Ledger
<1> QED BY <1>1, LedgerInvariant, PTL
=============================================================================
