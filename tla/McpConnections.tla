--------------------------- MODULE McpConnections ---------------------------
(***************************************************************************)
(* The connections of the MCP server: tool calls open and cache them, the  *)
(* disconnect tool and the end of the server tear them down. Calls run on  *)
(* the worker threads of the tokio runtime and meet in the connection      *)
(* cache, the per-profile setup lock, the registry of drained connections  *)
(* that still need a session shutdown, and the registry of detached hook   *)
(* processes. A step is one visit to one of these: nothing keeps another   *)
(* thread out between two visits, awaits or not. The end of the server     *)
(* gives its disconnects a deadline and drops their futures at the await   *)
(* they have reached when it passes.                                       *)
(*                                                                         *)
(* A call opens at most one connection, so the call also names it. Hooks   *)
(* and drivers may hang: nothing is assumed of them. Taking processes out  *)
(* of their registry, terminating them and putting back those that resist  *)
(* is one step: no property speaks of processes known to resist.           *)
(***************************************************************************)
EXTENDS Integers

CONSTANTS
    Profiles,
    Keys, ProfileOf,    \* cache keys: a profile or one of its databases
    Calls,              \* tool calls that need a connection
    Asked,              \* the keys they may ask for: a set of functions
    Discs,              \* calls of the disconnect tool
    Told,               \* the profiles they may be given: a set of functions
    Main,               \* disconnect_all when the service ends
    Nobody

ASSUME McpAssumption ==
    /\ Profiles # {}
    /\ ProfileOf \in [Keys -> Profiles]
    /\ Asked \subseteq [Calls -> Keys]
    /\ Told \subseteq [Discs -> Profiles]
    /\ Main \notin Calls \union Discs
    /\ Nobody \notin Calls \union Discs \union {Main}
    /\ Calls \intersect Discs = {}

VARIABLES
    pc,          \* where each call, disconnect and disconnect_all is
    key,         \* the cache key of a call
    profile,     \* the profile of a disconnect; of disconnect_all, the current
    setup,       \* connection_setup_lock of each profile
    cache,       \* connection_cache
    opened,      \* history: connections a driver returned, in time or late
    late,        \* dials past their deadline: "dialing", then "open"
    drained,     \* retired_connections of a disconnect
    left,        \* their keys whose hooks have still to run in this loop
    registry,    \* pending_session_shutdowns
    taken,       \* entries a disconnect has out of it and not yet dispatched
    shut,        \* connections claimed for their session shutdown
    closed,      \* connections closed instead of cached
    procs,       \* detached hook processes of each key, by what is known of them
    phase,       \* of the server
    todo,        \* profiles disconnect_all has still to drain
    expired,     \* its deadline has passed
    atEnd        \* history: connections cached or registered when it began

connVars == <<opened, late, closed>>
endVars == <<phase, todo, expired, atEnd>>
pendVars == <<registry, taken, shut>>
vars == <<pc, key, profile, setup, cache, connVars, drained, left, pendVars,
          procs, endVars>>

Teardowns == Discs \union {Main}
Tasks == Calls \union Teardowns
KeysOf(p) == {k \in Keys : ProfileOf[k] = p}
Cached == {c \in Calls : \E k \in Keys : cache[k] = c}
Registered == UNION {registry[k] : k \in Keys}

\* What is known of a process: a hook phase under way holds its handle; it is
\* registered; it is registered and resisted termination; its phase was
\* dropped, and its handle with it; or its supervision could not be started.
ProcessStates == {"started", "running", "stuck", "adrift", "unsupervised"}
InRegistry == {"running", "stuck"}

SomeProfile == CHOOSE p \in Profiles : TRUE    \* before disconnect_all picks one

Init ==
    /\ pc = [t \in Tasks |-> "idle"]
    /\ key \in Asked
    /\ \E f \in Told :
         profile = [d \in Teardowns |-> IF d = Main THEN SomeProfile ELSE f[d]]
    /\ setup = [p \in Profiles |-> Nobody]
    /\ cache = [k \in Keys |-> Nobody]
    /\ opened = {}
    /\ late = [c \in Calls |-> "none"]
    /\ drained = [d \in Teardowns |-> {}]
    /\ left = [d \in Teardowns |-> {}]
    /\ registry = [k \in Keys |-> {}]
    /\ taken = [d \in Teardowns |-> {}]
    /\ shut = {}
    /\ closed = {}
    /\ procs = [k \in Keys |-> {}]
    /\ phase = "serving" /\ todo = {} /\ expired = FALSE /\ atEnd = {}

At(t, here) == pc[t] = here
Goto(t, there) == pc' = [pc EXCEPT ![t] = there]

Acquire(t, p) ==
    /\ setup[p] = Nobody
    /\ setup' = [setup EXCEPT ![p] = t]

Release(t) == setup' = [p \in Profiles |-> IF setup[p] = t THEN Nobody ELSE setup[p]]

(***************************************************************************)
(* Detached hook processes and run_connection_hook_phase                   *)
(***************************************************************************)
\* The processes of the keys in S in one of the states L are terminated, but
\* for some that resist and stay, or come, into the registry.
Reclaim(S, L) ==
    \E F \in SUBSET S :
        procs' = [k \in Keys |->
                    IF k \notin S \/ procs[k] \intersect L = {} THEN procs[k]
                    ELSE (procs[k] \ L) \union (IF k \in F THEN {"stuck"} ELSE {})]

Terminate(S) == Reclaim(S, InRegistry)

\* A phase of a disconnect is for the next of its keys, in their order.
HookKey(t) == IF t \in Calls THEN key[t] ELSE CHOOSE k \in left[t] : TRUE

Running == {"preRun", "postRun"}

\* HookRunner::run_phase on a blocking thread: a detached hook spawns its
\* process and sends the handle, which nobody reads before the phase returns.
HookStartsProcess(t) ==
    /\ pc[t] \in Running
    /\ procs' = [procs EXCEPT ![HookKey(t)] = @ \union {"started"}]
    /\ UNCHANGED <<pc, key, profile, setup, cache, connVars, drained, left,
                   pendVars, endVars>>

\* The phase returns: its processes are supervised and registered.
HooksReturn(t) ==
    LET k == HookKey(t) IN
    /\ pc[t] \in Running
    /\ Goto(t, IF pc[t] = "preRun" THEN "preSettle" ELSE "postSettle")
    /\ procs' = [procs EXCEPT ![k] = IF "started" \in @
                                     THEN (@ \ {"started"}) \union {"running"}
                                     ELSE @]
    /\ UNCHANGED <<key, profile, setup, cache, connVars, drained, left, pendVars,
                   endVars>>

\* Supervision of one process cannot be started: what is registered under the
\* key is terminated, the handles after it are dropped with their processes
\* running.
SupervisionFails(k) ==
    /\ "started" \in procs[k]
    /\ \E F \in SUBSET {"stuck"} :
         procs' = [procs EXCEPT ![k] = (@ \ ({"started"} \union InRegistry))
                                          \union F \union {"unsupervised"}]

\* A phase that has not returned fails: its hooks are not valid, its thread
\* panicked and the handles it sent are terminated, or supervision fails.
FailsEarly(k) == Reclaim({k}, {"started"}) \/ SupervisionFails(k)

\* A phase that has returned fails: a hook aborted it, or a process did not
\* become ready. What is registered under the key is terminated.
FailsLate(k) == Terminate({k})

(***************************************************************************)
(* get_or_connect_cached and McpConnectionFactory::connect                 *)
(***************************************************************************)
\* Also once the service has ended: a request it accepted may get here late.
LookUp(c) ==
    /\ At(c, "idle")
    /\ Goto(c, IF cache[key[c]] # Nobody THEN "done" ELSE "lock")
    /\ UNCHANGED <<key, profile, setup, cache, connVars, drained, left, pendVars,
                   procs, endVars>>

LockSetup(c) ==
    /\ At(c, "lock")
    /\ Acquire(c, ProfileOf[key[c]])
    /\ Goto(c, "again")
    /\ UNCHANGED <<key, profile, cache, connVars, drained, left, pendVars, procs,
                   endVars>>

\* Mutated form: the cache is not looked at again under the lock.
LookUpAgain_Trusting(c) ==
    /\ At(c, "again")
    /\ Goto(c, "preRun")
    /\ UNCHANGED <<key, profile, setup, cache, connVars, drained, left, pendVars,
                   procs, endVars>>

\* Another call may have connected while this one waited for the lock.
LookUpAgain(c) ==
    /\ At(c, "again")
    /\ IF cache[key[c]] # Nobody
         THEN Goto(c, "done") /\ Release(c)
         ELSE Goto(c, "preRun") /\ UNCHANGED setup
    /\ UNCHANGED <<key, profile, cache, connVars, drained, left, pendVars, procs,
                   endVars>>

PreConnectHooksPass(c) ==
    /\ At(c, "preSettle")
    /\ Goto(c, "dialing")
    /\ UNCHANGED <<key, profile, setup, cache, connVars, drained, left, pendVars,
                   procs, endVars>>

PreConnectHooksFail(c) ==
    /\ \/ At(c, "preRun") /\ FailsEarly(key[c])
       \/ At(c, "preSettle") /\ FailsLate(key[c])
    /\ Goto(c, "done") /\ Release(c)
    /\ UNCHANGED <<key, profile, cache, connVars, drained, left, pendVars,
                   endVars>>

\* Mutated form: a failed connect leaves the processes of its hooks behind.
ConnectFails_LeavesProcesses(c) ==
    /\ At(c, "dialing")
    /\ Goto(c, "done") /\ Release(c)
    /\ UNCHANGED <<key, profile, cache, connVars, drained, left, pendVars, procs,
                   endVars>>

\* A pipeline stage fails or exceeds its budget, or the driver refuses.
ConnectFails(c) ==
    /\ At(c, "dialing")
    /\ Goto(c, "done") /\ Release(c)
    /\ Terminate({key[c]})
    /\ UNCHANGED <<key, profile, cache, connVars, drained, left, pendVars,
                   endVars>>

\* connect_with_deadline: the blocking connect answers in time ...
DriverConnects(c) ==
    /\ At(c, "dialing")
    /\ Goto(c, "postRun")
    /\ opened' = opened \union {c}
    /\ UNCHANGED <<key, profile, setup, cache, late, closed, drained, left,
                   pendVars, procs, endVars>>

\* ... or not: the call fails, and a task waits for the late connection.
DriverTimesOut(c) ==
    /\ At(c, "dialing")
    /\ Goto(c, "done") /\ Release(c)
    /\ late' = [late EXCEPT ![c] = "dialing"]
    /\ Terminate({key[c]})
    /\ UNCHANGED <<key, profile, cache, opened, closed, drained, left, pendVars,
                   endVars>>

LateArrives(c) ==
    /\ late[c] = "dialing"
    /\ \/ /\ late' = [late EXCEPT ![c] = "open"]
          /\ opened' = opened \union {c}
       \/ /\ late' = [late EXCEPT ![c] = "none"]
          /\ UNCHANGED opened
    /\ UNCHANGED <<pc, key, profile, setup, cache, closed, drained, left, pendVars,
                   procs, endVars>>

CloseLateConnection(c) ==
    /\ late[c] = "open"
    /\ late' = [late EXCEPT ![c] = "none"]
    /\ closed' = closed \union {c}
    /\ UNCHANGED <<pc, key, profile, setup, cache, opened, drained, left, pendVars,
                   procs, endVars>>

PostConnectHooksPass(c) ==
    /\ At(c, "postSettle")
    /\ Goto(c, "insert")
    /\ UNCHANGED <<key, profile, setup, cache, connVars, drained, left, pendVars,
                   procs, endVars>>

PostConnectHooksFail(c) ==
    /\ \/ At(c, "postRun") /\ FailsEarly(key[c])
       \/ At(c, "postSettle") /\ FailsLate(key[c])
    /\ Goto(c, "reject")
    /\ UNCHANGED <<key, profile, setup, cache, connVars, drained, left, pendVars,
                   endVars>>

CloseRejected(c) ==
    /\ At(c, "reject")
    /\ Goto(c, "done") /\ Release(c)
    /\ closed' = closed \union {c}
    /\ Terminate({key[c]})
    /\ UNCHANGED <<key, profile, cache, opened, late, drained, left, pendVars,
                   endVars>>

\* An entry that is there wins, and the new connection is dropped.
Insert(c) ==
    /\ At(c, "insert")
    /\ Goto(c, "done") /\ Release(c)
    /\ cache' = [cache EXCEPT ![key[c]] = IF @ = Nobody THEN c ELSE @]
    /\ UNCHANGED <<key, profile, connVars, drained, left, pendVars, procs,
                   endVars>>

(***************************************************************************)
(* disconnect_impl                                                         *)
(***************************************************************************)
StartDisconnect(d) ==
    /\ At(d, "idle")
    /\ Goto(d, "lock")
    /\ UNCHANGED <<key, profile, setup, cache, connVars, drained, left, pendVars,
                   procs, endVars>>

LockTeardown(d) ==
    /\ At(d, "lock")
    /\ Acquire(d, profile[d])
    /\ Goto(d, "drain")
    /\ UNCHANGED <<key, profile, cache, connVars, drained, left, pendVars, procs,
                   endVars>>

\* Mutated form: keys without a connection are taken too.
CachedOf_EmptyKeys(p) == {cache[k] : k \in KeysOf(p)}

CachedOf(p) == {c \in Calls : \E k \in KeysOf(p) : cache[k] = c}

\* drain_connection_variants_with_keys, for the profile of d.
TakeCached(d) ==
    /\ cache' = [k \in Keys |-> IF ProfileOf[k] = profile[d] THEN Nobody
                                ELSE cache[k]]
    /\ drained' = [drained EXCEPT ![d] = CachedOf(profile[d])]

Drain(d) ==
    /\ At(d, "drain")
    /\ TakeCached(d)
    /\ Goto(d, "register")
    /\ UNCHANGED <<key, profile, setup, connVars, left, pendVars, procs, endVars>>

\* SessionShutdownRegistry::register
Publish(d) ==
    registry' = [k \in Keys |-> registry[k] \union {c \in drained[d] : key[c] = k}]

\* Mutated form: the drained connections are not published.
Register_Skipped(d) ==
    /\ At(d, "register")
    /\ Goto(d, "clear")
    /\ UNCHANGED <<key, profile, setup, cache, connVars, drained, left, pendVars,
                   procs, endVars>>

\* They are published before any hook runs.
Register(d) ==
    /\ At(d, "register")
    /\ Publish(d)
    /\ Goto(d, "clear")
    /\ UNCHANGED <<key, profile, setup, cache, connVars, drained, left, taken, shut,
                   procs, endVars>>

\* Within disconnect_all the next profile follows.
Finish(d) ==
    /\ Goto(d, IF d = Main THEN "next" ELSE "done")
    /\ Release(d)
    /\ drained' = [drained EXCEPT ![d] = {}]

RetiredKeys(d) == {key[c] : c \in drained[d]}

ClearProcesses(d) ==
    /\ At(d, "clear")
    /\ Terminate(KeysOf(profile[d]))
    /\ IF drained[d] = {}
         THEN Finish(d) /\ UNCHANGED left
         ELSE /\ Goto(d, "preRun")
              /\ left' = [left EXCEPT ![d] = RetiredKeys(d)]
              /\ UNCHANGED <<setup, drained>>
    /\ UNCHANGED <<key, profile, cache, connVars, pendVars, endVars>>

\* The phase of one key is over: the next key, or on.
NextKey(d, loop, then) ==
    /\ Goto(d, IF left[d] = {HookKey(d)} THEN then ELSE loop)
    /\ left' = [left EXCEPT ![d] = @ \ {HookKey(d)}]

\* Mutated form: a failed hook ends the disconnect.
PreDisconnectHooks_FailureReturns(d) ==
    /\ \/ /\ At(d, "preSettle") /\ UNCHANGED <<procs, setup, drained>>
          /\ NextKey(d, "preRun", "take")
       \/ /\ At(d, "preRun") /\ FailsEarly(HookKey(d))
          /\ Finish(d) /\ left' = [left EXCEPT ![d] = {}]
       \/ /\ At(d, "preSettle") /\ FailsLate(HookKey(d))
          /\ Finish(d) /\ left' = [left EXCEPT ![d] = {}]
    /\ UNCHANGED <<key, profile, cache, connVars, pendVars, endVars>>

\* A PreDisconnect phase ends; whether it failed is only reported.
PreDisconnectHooks(d) ==
    /\ \/ At(d, "preSettle") /\ UNCHANGED procs
       \/ At(d, "preRun") /\ FailsEarly(HookKey(d))
       \/ At(d, "preSettle") /\ FailsLate(HookKey(d))
    /\ NextKey(d, "preRun", "take")
    /\ UNCHANGED <<key, profile, setup, cache, connVars, drained, pendVars, endVars>>

\* Entries of the keys in S leave the registry for the hands of d.
TakeEntries(d, S) ==
    /\ registry' = [k \in Keys |-> IF k \in S THEN {} ELSE registry[k]]
    /\ taken' = [taken EXCEPT ![d] = UNION {registry[k] : k \in S}]

\* Mutated form: the entries are copied out of the registry.
TakeKeys_Copies(d) ==
    /\ At(d, "take")
    /\ taken' = [taken EXCEPT ![d] = UNION {registry[k] : k \in RetiredKeys(d)}]
    /\ Goto(d, "dispatch")
    /\ UNCHANGED <<key, profile, setup, cache, connVars, drained, left, registry,
                   shut, procs, endVars>>

TakeKeys(d) ==
    /\ At(d, "take")
    /\ TakeEntries(d, RetiredKeys(d))
    /\ Goto(d, "dispatch")
    /\ UNCHANGED <<key, profile, setup, cache, connVars, drained, left, shut, procs,
                   endVars>>

\* dispatch_session_shutdown: claimed, and left to a thread of their own.
Dispatch(d) ==
    /\ shut' = shut \union taken[d]
    /\ taken' = [taken EXCEPT ![d] = {}]
    /\ UNCHANGED registry

DispatchShutdown(d) ==
    /\ At(d, "dispatch")
    /\ Dispatch(d)
    /\ Goto(d, "shutting")
    /\ UNCHANGED <<key, profile, setup, cache, connVars, drained, left, procs,
                   endVars>>

SessionsShut(d) ==
    /\ At(d, "shutting")
    /\ Goto(d, "postRun")
    /\ left' = [left EXCEPT ![d] = RetiredKeys(d)]
    /\ UNCHANGED <<key, profile, setup, cache, connVars, drained, pendVars, procs,
                   endVars>>

\* A PostDisconnect phase ends; what is registered under its key goes.
PostDisconnectHooks(d) ==
    /\ \/ At(d, "postSettle") /\ Terminate({HookKey(d)})
       \/ At(d, "postRun") /\ Reclaim({HookKey(d)}, {"started"} \union InRegistry)
       \/ At(d, "postRun") /\ SupervisionFails(HookKey(d))
    /\ NextKey(d, "postRun", "last")
    /\ UNCHANGED <<key, profile, setup, cache, connVars, drained, pendVars, endVars>>

FinishDisconnect(d) ==
    /\ At(d, "last")
    /\ Terminate(KeysOf(profile[d]))
    /\ Finish(d)
    /\ UNCHANGED <<key, profile, cache, connVars, left, pendVars, endVars>>

(***************************************************************************)
(* disconnect_all_with_timeout                                             *)
(***************************************************************************)
BeginShutdown ==
    /\ phase = "serving"
    /\ phase' = "draining"
    /\ todo' = {p \in Profiles : \E k \in KeysOf(p) : cache[k] # Nobody}
    /\ atEnd' = Cached \union Registered
    /\ Goto(Main, "ids")
    /\ UNCHANGED <<key, profile, setup, cache, connVars, drained, left, pendVars,
                   procs, expired>>

AddProcessIds ==
    /\ At(Main, "ids")
    /\ todo' = todo \union {p \in Profiles : \E k \in KeysOf(p) :
                               procs[k] \intersect InRegistry # {}}
    /\ Goto(Main, "next")
    /\ UNCHANGED <<key, profile, setup, cache, connVars, drained, left, pendVars,
                   procs, phase, expired, atEnd>>

Expire ==
    /\ phase = "draining" /\ ~expired
    /\ expired' = TRUE
    /\ UNCHANGED <<pc, key, profile, setup, cache, connVars, drained, left,
                   pendVars, procs, phase, todo, atEnd>>

\* A profile reached before the deadline is disconnected, one reached after
\* it only cleaned up.
NextProfile(p) ==
    /\ At(Main, "next")
    /\ p \in todo
    /\ todo' = todo \ {p}
    /\ profile' = [profile EXCEPT ![Main] = p]
    /\ Goto(Main, IF expired THEN "overdue" ELSE "lock")
    /\ UNCHANGED <<key, setup, cache, connVars, drained, left, pendVars, procs,
                   phase, expired, atEnd>>

\* Where the future of a disconnect awaits something.
Awaiting == {"lock", "drain", "preRun", "preSettle", "shutting", "postRun",
             "postSettle"}

\* The future is dropped, with its lock and its handles. A hook phase under
\* way goes on in its thread, with nobody to receive its processes.
TimeOut ==
    /\ pc[Main] \in Awaiting
    /\ expired
    /\ Goto(Main, "overdue")
    /\ Release(Main)
    /\ drained' = [drained EXCEPT ![Main] = {}]
    /\ left' = [left EXCEPT ![Main] = {}]
    /\ IF pc[Main] \in Running
         THEN procs' = [procs EXCEPT ![HookKey(Main)] =
                            (@ \ {"started"}) \union {"adrift"}]
         ELSE UNCHANGED procs
    /\ UNCHANGED <<key, profile, cache, connVars, pendVars, endVars>>

\* cancel_running_hooks, and the processes of the profile go.
Overdue ==
    /\ At(Main, "overdue")
    /\ Terminate(KeysOf(profile[Main]))
    /\ Goto(Main, "cleanDrain")
    /\ UNCHANGED <<key, profile, setup, cache, connVars, drained, left, pendVars,
                   endVars>>

\* Mutated form: the cleanup waits for the setup lock.
CleanupDrain_Locked ==
    /\ At(Main, "cleanDrain")
    /\ setup[profile[Main]] = Nobody
    /\ TakeCached(Main)
    /\ Goto(Main, "cleanRegister")
    /\ UNCHANGED <<key, profile, setup, connVars, left, pendVars, procs, endVars>>

\* cleanup_connection_without_hooks: what is cached and what is registered, not
\* the setup lock.
CleanupDrain ==
    /\ At(Main, "cleanDrain")
    /\ TakeCached(Main)
    /\ Goto(Main, "cleanRegister")
    /\ UNCHANGED <<key, profile, setup, connVars, left, pendVars, procs, endVars>>

CleanupRegister ==
    /\ At(Main, "cleanRegister")
    /\ Publish(Main)
    /\ drained' = [drained EXCEPT ![Main] = {}]
    /\ Goto(Main, "cleanTake")
    /\ UNCHANGED <<key, profile, setup, cache, connVars, left, taken, shut, procs,
                   endVars>>

CleanupTake ==
    /\ At(Main, "cleanTake")
    /\ TakeEntries(Main, KeysOf(profile[Main]))
    /\ Goto(Main, "cleanDispatch")
    /\ UNCHANGED <<key, profile, setup, cache, connVars, drained, left, shut, procs,
                   endVars>>

CleanupDispatch ==
    /\ At(Main, "cleanDispatch")
    /\ Dispatch(Main)
    /\ Goto(Main, "cleanLast")
    /\ UNCHANGED <<key, profile, setup, cache, connVars, drained, left, procs,
                   endVars>>

CleanupProcesses ==
    /\ At(Main, "cleanLast")
    /\ Terminate(KeysOf(profile[Main]))
    /\ Goto(Main, "next")
    /\ UNCHANGED <<key, profile, setup, cache, connVars, drained, left, pendVars,
                   endVars>>

\* Mutated form: only processes are swept.
SweepTake_Skipped ==
    /\ At(Main, "next") /\ todo = {}
    /\ Goto(Main, "sweepDispatch")
    /\ UNCHANGED <<key, profile, setup, cache, connVars, drained, left, pendVars,
                   procs, endVars>>

\* What disconnects dropped by the deadline registered is taken at the end.
SweepTake ==
    /\ At(Main, "next") /\ todo = {}
    /\ TakeEntries(Main, Keys)
    /\ Goto(Main, "sweepDispatch")
    /\ UNCHANGED <<key, profile, setup, cache, connVars, drained, left, shut, procs,
                   endVars>>

SweepDispatch ==
    /\ At(Main, "sweepDispatch")
    /\ Dispatch(Main)
    /\ Goto(Main, "sweepLast")
    /\ UNCHANGED <<key, profile, setup, cache, connVars, drained, left, procs,
                   endVars>>

SweepProcesses ==
    /\ At(Main, "sweepLast")
    /\ Terminate(Keys)
    /\ Goto(Main, "done")
    /\ phase' = "done"
    /\ UNCHANGED <<key, profile, setup, cache, connVars, drained, left, pendVars,
                   todo, expired, atEnd>>

CallStep(c) ==
    \/ LookUp(c) \/ LockSetup(c) \/ LookUpAgain(c)
    \/ PreConnectHooksPass(c) \/ PreConnectHooksFail(c)
    \/ ConnectFails(c) \/ DriverConnects(c) \/ DriverTimesOut(c)
    \/ LateArrives(c) \/ CloseLateConnection(c)
    \/ PostConnectHooksPass(c) \/ PostConnectHooksFail(c)
    \/ CloseRejected(c) \/ Insert(c)

\* The steps of a disconnect that follow one another without an await.
Prompt(d) ==
    \/ Register(d) \/ ClearProcesses(d) \/ TakeKeys(d) \/ DispatchShutdown(d)
    \/ FinishDisconnect(d)

DisconnectStep(d) ==
    \/ LockTeardown(d) \/ Drain(d) \/ Prompt(d)
    \/ PreDisconnectHooks(d) \/ SessionsShut(d) \/ PostDisconnectHooks(d)

Cleanup ==
    \/ Overdue \/ CleanupDrain \/ CleanupRegister \/ CleanupTake
    \/ CleanupDispatch \/ CleanupProcesses
    \/ SweepTake \/ SweepDispatch \/ SweepProcesses

Next ==
    \/ \E c \in Calls : CallStep(c)
    \/ \E d \in Discs : StartDisconnect(d)
    \/ \E d \in Teardowns : DisconnectStep(d)
    \/ \E t \in Tasks : HookStartsProcess(t) \/ HooksReturn(t)
    \/ BeginShutdown \/ AddProcessIds \/ Expire \/ TimeOut \/ Cleanup
    \/ \E p \in Profiles : NextProfile(p)

Spec == Init /\ [][Next]_vars

\* Timers fire and disconnect_all takes the steps that wait for nobody. Hooks,
\* dials and session shutdowns may hang, and the other calls may stop: their
\* tasks go with the runtime.
FairSpec ==
    /\ Spec
    /\ WF_vars(Expire) /\ WF_vars(TimeOut)
    /\ WF_vars(AddProcessIds) /\ WF_vars(\E p \in Profiles : NextProfile(p))
    /\ WF_vars(Prompt(Main)) /\ WF_vars(Cleanup)

(***************************************************************************)
(* Properties                                                              *)
(***************************************************************************)
\* A connect from its second lookup to its insert.
Connecting == {"preRun", "preSettle", "dialing", "postRun", "postSettle", "insert"}
CallSteps == Connecting \union {"idle", "lock", "again", "reject", "done"}

\* A disconnect that has emptied the cache of its profile.
PastDrain == {"register", "clear", "preRun", "preSettle", "take", "dispatch",
              "shutting", "postRun", "postSettle", "last"}
CleanSteps == {"overdue", "cleanDrain", "cleanRegister", "cleanTake",
               "cleanDispatch", "cleanLast"}
TeardownSteps == PastDrain \union CleanSteps
                    \union {"idle", "lock", "drain", "done",
                            "ids", "next", "sweepDispatch", "sweepLast"}

\* Every variable has its type.
TypeOK ==
    /\ pc \in [Tasks -> CallSteps \union TeardownSteps]
    /\ key \in [Calls -> Keys]
    /\ profile \in [Teardowns -> Profiles]
    /\ setup \in [Profiles -> Tasks \union {Nobody}]
    /\ cache \in [Keys -> Calls \union {Nobody}]
    /\ opened \subseteq Calls
    /\ late \in [Calls -> {"none", "dialing", "open"}]
    /\ drained \in [Teardowns -> SUBSET Calls]
    /\ left \in [Teardowns -> SUBSET Keys]
    /\ registry \in [Keys -> SUBSET Calls]
    /\ taken \in [Teardowns -> SUBSET Calls]
    /\ shut \subseteq Calls
    /\ closed \subseteq Calls
    /\ procs \in [Keys -> SUBSET ProcessStates]
    /\ phase \in {"serving", "draining", "done"}
    /\ todo \subseteq Profiles
    /\ expired \in BOOLEAN
    /\ atEnd \subseteq Calls

InCall == {c \in Calls : pc[c] \in {"postRun", "postSettle", "reject", "insert"}}
Late == {c \in Calls : late[c] = "open"}

\* Between the cache and the registry, and between the registry and the
\* dispatch, only the local variables of a disconnect hold a connection.
InHand(d) ==
    taken[d] \union (IF pc[d] \in {"register", "cleanRegister"} THEN drained[d] ELSE {})

\* No connection a driver returned is forgotten: its call still has it, a task
\* waits to close it, it is cached, it awaits its session shutdown, a teardown
\* that will not be dropped before it passes it on has it in hand, or it was
\* claimed for shutdown or closed, even if the deadline drops a disconnect
\* ("keep their session cleanup pending until it is dispatched").
ConnectionAccounted ==
    opened \subseteq InCall \union Late \union Cached \union Registered
                    \union shut \union closed
                    \union UNION {InHand(d) : d \in Teardowns}

\* A connection that awaits its session shutdown has someone who will claim
\* it: a disconnect that drained it and has still to take its keys, or
\* disconnect_all before its sweep.
ShutdownHasClaimant ==
    \A c \in Registered :
        \/ phase = "draining" /\ pc[Main] \notin {"sweepDispatch", "sweepLast"}
        \/ \E d \in Discs :
             c \in drained[d] /\ pc[d] \in {"clear", "preRun", "preSettle", "take"}

\* "a shutdown already dispatched before a deadline expiry is never dispatched
\* twice": what a teardown holds to dispatch was neither claimed before nor is
\* it cached, registered or in the hands of another, whoever took the entries
\* of a key first.
DispatchedOnce ==
    \A d \in Teardowns :
        /\ taken[d] \intersect (shut \union Cached \union Registered) = {}
        /\ \A e \in Teardowns \ {d} : taken[d] \intersect InHand(e) = {}

\* When disconnect_all takes what is left in the registry, every connection that
\* was cached or awaited its session shutdown at the start has been claimed for
\* it or is among those taken, also when a hook hangs in another disconnect or
\* a hanging connect holds the lock of its profile. Only a disconnect on
\* another thread, between two visits, may have one in hand
\* (disconnect_all_with_timeout).
NoneLeftBehind ==
    [][At(Main, "next") /\ pc'[Main] = "sweepDispatch" =>
          atEnd \subseteq shut \union taken'[Main]
                            \union UNION {InHand(d) : d \in Discs}]_vars

\* The setup lock keeps connects of a profile apart from each other and from
\* its hooks on the way out: nothing is cached while a disconnect runs them,
\* and the key a connect is about to insert is still free.
SetupExclusive ==
    /\ \A d \in Teardowns :
         pc[d] \in PastDrain => \A k \in KeysOf(profile[d]) : cache[k] = Nobody
    /\ \A c \in Calls : pc[c] \in Connecting => cache[key[c]] = Nobody

\* A detached hook process belongs to somebody: one that is not registered yet
\* to a hook phase under way, one that is and is not known to resist
\* termination to a cached connection or to a connect or teardown under way.
\* Two kinds run on without anybody: those of a phase the deadline dropped, and
\* those whose supervision could not be started.
ProcessesOwned ==
    \A k \in Keys :
        /\ "started" \in procs[k] =>
             \E t \in Tasks : pc[t] \in Running /\ HookKey(t) = k
        /\ "running" \in procs[k] =>
             \/ cache[k] # Nobody
             \/ \E c \in Calls :
                  key[c] = k /\ pc[c] \in (Connecting \ {"preRun"}) \union {"reject"}
             \/ \E d \in Teardowns :
                  ProfileOf[k] = profile[d] /\ pc[d] \in PastDrain \union CleanSteps
        /\ "adrift" \in procs[k] => expired

\* disconnect_all comes back, whatever hook, driver or lock holder hangs.
ShutdownReturns == (phase = "draining") ~> (phase = "done")
=============================================================================
