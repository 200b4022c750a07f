--------------------------- MODULE TracingBridge ---------------------------
(***************************************************************************)
(* The tracing bridge: threads of the process emit tracing events into a   *)
(* bounded channel; one drain thread forwards them to the audit sink; the  *)
(* handle installs the sink, moves the threshold and shuts the bridge      *)
(* down. The counters are separate atomics, so every atomic operation is a *)
(* step of its own.                                                        *)
(***************************************************************************)
EXTENDS Integers, Sequences, FiniteSets

CONSTANTS
    Emitters,      \* threads that emit events
    Events,        \* bounds the events ever emitted
    LevelOf,       \* [Events -> Levels]: level_to_code of each event
    Thresholds,    \* the LevelCodes the settings may ask for
    Capacity,      \* queue_capacity of the channel
    Width,         \* bits of a usize
    NoEvent        \* nothing in hand

Levels == 0..4     \* Trace, Debug, Info, Warn, Error
Modulus == 2 ^ Width

ASSUME BridgeAssumption ==
    /\ IsFiniteSet(Emitters)
    /\ IsFiniteSet(Events)
    /\ LevelOf \in [Events -> Levels]
    /\ Thresholds \subseteq Levels
    /\ Capacity \in Nat \ {0}
    /\ Width \in Nat /\ 2 ^ Width \in Nat
    /\ Capacity + 1 < 2 ^ Width
    /\ NoEvent \notin Events

VARIABLES
    subscriber,    \* "starting", "installed", "failed"
    min_level, drop_counter, in_flight, stop,   \* the shared atomics
    sink,          \* the OnceLock audit_slot is set
    queue,         \* the channel
    drain, held,   \* the drain thread and the record it took
    epc, emitting, \* the emitting threads
    spc, reported, \* shutdown() and its remaining_in_flight
    \* history
    fate,          \* what became of each event
    unseen,        \* events sent after the drain thread's last look at the channel
    before         \* events in the bridge when shutdown() began

atomics == <<min_level, drop_counter, in_flight, stop>>
drainVars == <<drain, held>>
emitVars == <<epc, emitting>>
handleVars == <<subscriber, sink, spc, reported, before>>
vars == <<handleVars, atomics, queue, drainVars, emitVars, fate, unseen>>

DrainSteps == {"recv", "timeout", "sub", "sink", "count", "finished", "panicked"}
EmitSteps == {"idle", "send", "add", "drop"}
Fates == {"new", "sending", "queued", "rejected", "held", "recorded", "failed"}

Ended == drain \in {"finished", "panicked"}

\* init_tracing up to the spawned drain thread.
Init ==
    /\ subscriber = "starting"
    /\ min_level = 2
    /\ drop_counter = 0
    /\ in_flight = 0
    /\ stop = FALSE
    /\ sink = FALSE
    /\ queue = <<>>
    /\ drain = "recv"
    /\ held = NoEvent
    /\ epc = [m \in Emitters |-> "idle"]
    /\ emitting = [m \in Emitters |-> NoEvent]
    /\ spc = "running"
    /\ reported = 0
    /\ fate = [e \in Events |-> "new"]
    /\ unseen = {}
    /\ before = {}

-----------------------------------------------------------------------------
\* The handle.

\* try_init: the layer, and with it the sender, lives as long as the process.
InstallSubscriber ==
    /\ subscriber = "starting"
    /\ subscriber' = "installed"
    /\ UNCHANGED <<sink, spc, reported, before, atomics, queue, drainVars, emitVars, fate, unseen>>

\* try_init fails: every sender is dropped, no handle is returned.
SubscriberError ==
    /\ subscriber = "starting"
    /\ subscriber' = "failed"
    /\ UNCHANGED <<sink, spc, reported, before, atomics, queue, drainVars, emitVars, fate, unseen>>

\* OnceLock::set; a second set is an error and changes nothing.
install_sink ==
    /\ subscriber = "installed" /\ spc = "running"
    /\ ~sink
    /\ sink' = TRUE
    /\ UNCHANGED <<subscriber, spc, reported, before, atomics, queue, drainVars, emitVars, fate, unseen>>

set_min_level(level) ==
    /\ subscriber = "installed" /\ spc = "running"
    /\ min_level' = level
    /\ UNCHANGED <<handleVars, drop_counter, in_flight, stop, queue, drainVars, emitVars, fate, unseen>>

\* shutdown(): it consumes the handle, so it begins once.
BeginShutdown ==
    /\ subscriber = "installed" /\ spc = "running"
    /\ stop' = TRUE
    /\ spc' = "waiting"
    /\ before' = {e \in Events : fate[e] \in {"queued", "held"}}
    /\ UNCHANGED <<subscriber, sink, reported, min_level, drop_counter, in_flight,
                   queue, drainVars, emitVars, fate, unseen>>

\* Mutated form: the wait has no deadline.
BudgetExpired_Never == FALSE /\ UNCHANGED vars

\* The 2 s budget is over before the thread is finished.
BudgetExpired ==
    /\ spc = "waiting"
    /\ ~Ended
    /\ spc' = "timeout"
    /\ reported' = in_flight
    /\ UNCHANGED <<subscriber, sink, before, atomics, queue, drainVars, emitVars, fate, unseen>>

\* thread.is_finished(), then join().
Joined ==
    /\ spc = "waiting"
    /\ Ended
    /\ spc' = IF drain = "finished" THEN "ok" ELSE "panic"
    /\ UNCHANGED <<subscriber, sink, reported, before, atomics, queue, drainVars, emitVars, fate, unseen>>

-----------------------------------------------------------------------------
\* AuditLayer::on_event in an emitting thread.

\* TRACE and DEBUG never pass, whatever the threshold.
passes_level_gate(code, min_code) == code > 1 /\ code >= min_code

\* The gates; an event that does not pass leaves no trace.
OnEvent(m, e) ==
    /\ subscriber = "installed"
    /\ epc[m] = "idle"
    /\ fate[e] = "new"
    /\ passes_level_gate(LevelOf[e], min_level)
    /\ epc' = [epc EXCEPT ![m] = "send"]
    /\ emitting' = [emitting EXCEPT ![m] = e]
    /\ fate' = [fate EXCEPT ![e] = "sending"]
    /\ UNCHANGED <<handleVars, atomics, queue, drainVars, unseen>>

\* Mutated form: the fullness of the channel is off by one.
Accepts_OffByOne == ~Ended /\ Len(queue) <= Capacity

\* try_send succeeds: room in the channel and a receiver.
Accepts == ~Ended /\ Len(queue) < Capacity

\* try_send never waits: it enqueues, or fails on a full or closed channel.
TrySend(m) ==
    /\ epc[m] = "send"
    /\ IF Accepts
       THEN /\ queue' = Append(queue, emitting[m])
            /\ fate' = [fate EXCEPT ![emitting[m]] = "queued"]
            /\ unseen' = IF drain = "timeout" THEN unseen \cup {emitting[m]} ELSE unseen
            /\ epc' = [epc EXCEPT ![m] = "add"]
       ELSE /\ fate' = [fate EXCEPT ![emitting[m]] = "rejected"]
            /\ epc' = [epc EXCEPT ![m] = "drop"]
            /\ UNCHANGED <<queue, unseen>>
    /\ UNCHANGED <<handleVars, atomics, drainVars, emitting>>

EndEmit(m) ==
    /\ epc' = [epc EXCEPT ![m] = "idle"]
    /\ emitting' = [emitting EXCEPT ![m] = NoEvent]

\* in_flight.fetch_add(1), after the record is already visible to the receiver.
FetchAdd(m) ==
    /\ epc[m] = "add"
    /\ in_flight' = (in_flight + 1) % Modulus
    /\ EndEmit(m)
    /\ UNCHANGED <<handleVars, min_level, drop_counter, stop, queue, drainVars, fate, unseen>>

\* drop_counter.fetch_add(1)
CountRejected(m) ==
    /\ epc[m] = "drop"
    /\ drop_counter' = drop_counter + 1
    /\ EndEmit(m)
    /\ UNCHANGED <<handleVars, min_level, in_flight, stop, queue, drainVars, fate, unseen>>

-----------------------------------------------------------------------------
\* drain_loop.

\* recv_timeout returns a record.
Receive ==
    /\ drain = "recv"
    /\ queue # <<>>
    /\ held' = Head(queue)
    /\ queue' = Tail(queue)
    /\ fate' = [fate EXCEPT ![Head(queue)] = "held"]
    /\ drain' = "sub"
    /\ UNCHANGED <<handleVars, atomics, emitVars, unseen>>

\* Mutated form: the stop flag is looked at although records are waiting.
ReceiveTimeout_NotEmpty ==
    /\ drain = "recv"
    /\ drain' = "timeout"
    /\ unseen' = {}
    /\ UNCHANGED <<handleVars, atomics, queue, held, emitVars, fate>>

\* recv_timeout saw an empty channel until its 100 ms were over.
ReceiveTimeout ==
    /\ drain = "recv"
    /\ queue = <<>>
    /\ subscriber # "failed"
    /\ drain' = "timeout"
    /\ unseen' = {}
    /\ UNCHANGED <<handleVars, atomics, queue, held, emitVars, fate>>

\* The thread returns or unwinds: the receiver and what it still holds are dropped.
EndDrain(how) ==
    /\ drain' = how
    /\ held' = NoEvent
    /\ queue' = <<>>

\* recv_timeout reports that every sender is gone.
ReceiveDisconnected ==
    /\ drain = "recv"
    /\ queue = <<>>
    /\ subscriber = "failed"
    /\ EndDrain("finished")
    /\ UNCHANGED <<handleVars, atomics, emitVars, fate, unseen>>

\* Mutated form: the loop never looks at the flag.
CheckStop_Ignored ==
    /\ drain = "timeout"
    /\ drain' = "recv"
    /\ UNCHANGED <<handleVars, atomics, queue, held, emitVars, fate, unseen>>

\* After a timeout only: stop.load decides between leaving and the next round.
CheckStop ==
    /\ drain = "timeout"
    /\ IF stop THEN EndDrain("finished") ELSE drain' = "recv" /\ UNCHANGED <<held, queue>>
    /\ UNCHANGED <<handleVars, atomics, emitVars, fate, unseen>>

\* Mutated form: the record is forwarded without leaving the count.
FetchSub_Missing ==
    /\ drain = "sub"
    /\ drain' = "sink"
    /\ UNCHANGED <<handleVars, atomics, queue, held, emitVars, fate, unseen>>

\* in_flight.fetch_sub(1)
FetchSub ==
    /\ drain = "sub"
    /\ in_flight' = (in_flight - 1) % Modulus
    /\ drain' = "sink"
    /\ UNCHANGED <<handleVars, min_level, drop_counter, stop, queue, held, emitVars, fate, unseen>>

\* sink.record succeeds.
Record ==
    /\ drain = "sink"
    /\ sink
    /\ fate' = [fate EXCEPT ![held] = "recorded"]
    /\ held' = NoEvent
    /\ drain' = "recv"
    /\ UNCHANGED <<handleVars, atomics, queue, emitVars, unseen>>

\* The record in hand is gone.
Discard(step) ==
    /\ drain = "sink"
    /\ fate' = [fate EXCEPT ![held] = "failed"]
    /\ held' = NoEvent
    /\ drain' = step
    /\ UNCHANGED <<handleVars, atomics, queue, emitVars, unseen>>

\* sink.record returned an error.
RecordError == sink /\ Discard("count")

\* Mutated form: a record that meets no sink is dropped without being counted.
NoSink_Uncounted == ~sink /\ Discard("recv")

\* sink_slot.get() is None: the sink is not installed yet.
NoSink == ~sink /\ Discard("count")

\* drop_counter.fetch_add(1)
CountFailed ==
    /\ drain = "count"
    /\ drop_counter' = drop_counter + 1
    /\ drain' = "recv"
    /\ UNCHANGED <<handleVars, min_level, in_flight, stop, queue, held, emitVars, fate, unseen>>

\* sink.record panics (a poisoned lock): the thread unwinds.
SinkPanic ==
    /\ drain = "sink"
    /\ sink
    /\ EndDrain("panicked")
    /\ UNCHANGED <<handleVars, atomics, emitVars, fate, unseen>>

-----------------------------------------------------------------------------

EmitStep(m) == TrySend(m) \/ FetchAdd(m) \/ CountRejected(m)

DrainStep ==
    \/ Receive \/ ReceiveTimeout \/ ReceiveDisconnected \/ CheckStop
    \/ FetchSub \/ NoSink \/ CountFailed

\* How the call of sink.record comes back.
SinkStep == Record \/ RecordError \/ SinkPanic

ShutdownStep == BudgetExpired \/ Joined

Next ==
    \/ InstallSubscriber \/ SubscriberError
    \/ install_sink
    \/ \E level \in Thresholds : set_min_level(level)
    \/ BeginShutdown
    \/ ShutdownStep
    \/ \E m \in Emitters : EmitStep(m) \/ \E e \in Events : OnEvent(m, e)
    \/ DrainStep
    \/ SinkStep

Spec == Init /\ [][Next]_vars

\* The drain thread runs and the thread in shutdown() keeps polling. Nothing is
\* assumed of the threads that emit, of when the handle is used, nor that
\* sink.record (a SQLite write) ever comes back.
FairSpec == Spec /\ WF_vars(DrainStep) /\ WF_vars(ShutdownStep)

-----------------------------------------------------------------------------

\* Type invariant; the channel never holds more than its capacity.
TypeOK ==
    /\ subscriber \in {"starting", "installed", "failed"}
    /\ min_level \in Levels
    /\ drop_counter \in Nat
    /\ in_flight \in 0..(Modulus - 1)
    /\ stop \in BOOLEAN /\ sink \in BOOLEAN
    /\ queue \in Seq(Events) /\ Len(queue) <= Capacity
    /\ drain \in DrainSteps
    /\ held \in Events \cup {NoEvent}
    /\ epc \in [Emitters -> EmitSteps]
    /\ emitting \in [Emitters -> Events \cup {NoEvent}]
    /\ \A m \in Emitters : epc[m] = "send" => emitting[m] \in Events
    /\ spc \in {"running", "waiting", "ok", "timeout", "panic"}
    /\ reported \in 0..(Modulus - 1)
    /\ fate \in [Events -> Fates]
    /\ unseen \subseteq Events
    /\ before \subseteq Events

WithFate(kinds) == {e \in Events : fate[e] \in kinds}
At(step) == {m \in Emitters : epc[m] = step}
Bit(b) == IF b THEN 1 ELSE 0

\* Accepted events the receiver dropped with the channel.
Lost == {e \in WithFate({"queued", "held"}) : Ended}

\* Every event the bridge refused or failed to store is counted exactly once,
\* but for the increments still under way (drop_count).
DropsAccounted ==
    drop_counter + Cardinality(At("drop")) + Bit(drain = "count")
        = Cardinality(WithFate({"rejected", "failed"}))

\* in_flight is the channel's length, modulo the word, once the additions and
\* the subtraction under way are taken into account; what is lost with the
\* receiver is never subtracted, but for a record already in hand.
InFlightAgrees ==
    LET queued == Cardinality(WithFate({"queued"})) + Bit(drain = "sub")
    IN  in_flight = (queued - Cardinality(At("add"))) % Modulus

\* An accepted record vanishes uncounted only when the sink panicked, or when
\* it was sent between the drain thread's last look at the channel and its
\* reading of a stop flag that was set: nothing older is ever left behind.
LossIsLast ==
    Lost # {} => \/ drain = "panicked"
                 \/ stop /\ Lost \subseteq unseen

\* shutdown() always comes back, though the sink may hang in the drain thread.
ShutdownReturns == spc = "waiting" ~> spc \in {"ok", "timeout", "panic"}

\* The drain thread ends after the stop flag is set and after a failed init,
\* once the emitters fall silent (Events is finite): only a sink that hangs can
\* keep it.
DrainEnds ==
    \/ <>[](drain = "sink")
    \/ stop \/ subscriber = "failed" ~> Ended

\* shutdown(): "Signals the drain thread to flush remaining events and exit": when it
\* returns Ok, what was in the bridge when it began has reached the sink or
\* is counted.
ShutdownFlushes ==
    spc = "ok" => \A e \in before : fate[e] \in {"recorded", "failed"}
=============================================================================
