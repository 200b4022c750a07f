-------------------------- MODULE ConnectAttempts --------------------------
(***************************************************************************)
(* Connecting and disconnecting one profile from the sidebar. A connect    *)
(* attempt and a disconnect are asynchronous tasks that meet only in the   *)
(* application state: the pending-operation marker of the profile, its     *)
(* live session, its last connect failure and the task list. Between two   *)
(* awaits a task runs undisturbed on the UI thread, so each stretch is one *)
(* step. Attempts and disconnects are numbered in the order they begin; an *)
(* attempt's number also names the session it installs.                    *)
(***************************************************************************)
EXTENDS Integers

CONSTANTS
    MaxAttempts,     \* bounds the attempts ever begun
    MaxDisconnects,  \* bounds the disconnect tasks ever begun
    Paths            \* ways the profile connects: "direct", "pipeline"

ASSUME ConnectAssumption ==
    /\ MaxAttempts \in Nat
    /\ MaxDisconnects \in Nat
    /\ Paths \subseteq {"direct", "pipeline"}

Attempts == 1..MaxAttempts
Disconnects == 1..MaxDisconnects
NoSession == 0

VARIABLES
    pending,       \* pending_operations holds (profile, None)
    failure,       \* connect_failures holds the profile
    session,       \* the entry of connections
    closing,       \* sessions whose teardown thread runs
    astep, path,   \* each attempt's async task
    task,          \* its Connect task; its token is cancelled with it
    dstep, dtask,  \* each disconnect's async task and its Disconnect task
    taken,         \* the session a disconnect removed
    warned         \* the disconnect gave up waiting for the teardown

attemptVars == <<astep, path, task>>
disconnectVars == <<dstep, dtask, taken, warned>>
vars == <<pending, failure, session, closing, attemptVars, disconnectVars>>

AttemptSteps == {"unused", "pre", "resolving", "connecting", "post", "done"}
DisconnectSteps == {"unused", "pre", "teardown", "post", "done"}
TaskStatus == {"none", "running", "completed", "failed", "cancelled"}

Init ==
    /\ pending = FALSE
    /\ failure = FALSE
    /\ session = NoSession
    /\ closing = {}
    /\ astep = [a \in Attempts |-> "unused"]
    /\ path = [a \in Attempts |-> "direct"]
    /\ task = [a \in Attempts |-> "none"]
    /\ dstep = [d \in Disconnects |-> "unused"]
    /\ dtask = [d \in Disconnects |-> "none"]
    /\ taken = [d \in Disconnects |-> NoSession]
    /\ warned = [d \in Disconnects |-> FALSE]

\* TaskManager: a task that is no longer running keeps its status.
Settle(status, new) == IF status = "running" THEN new ELSE status

Cancelled(a) == task[a] = "cancelled"
Running == {a \in Attempts : task[a] = "running"}

IsNext(n, step) == step[n] = "unused" /\ \A m \in 1..(n - 1) : step[m] # "unused"

-----------------------------------------------------------------------------
\* Beginning an attempt: connect_to_profile, on the UI thread up to the spawn.

\* The marker is set, the old failure forgotten, the Connect task started.
Start(a, p) ==
    /\ IsNext(a, astep)
    /\ pending' = TRUE
    /\ failure' = FALSE
    /\ astep' = [astep EXCEPT ![a] = "pre"]
    /\ path' = [path EXCEPT ![a] = p]
    /\ task' = [task EXCEPT ![a] = "running"]

\* Mutated form: the pending operation is not looked at.
MayPrepare_Unchecked(p) == p = "direct" => session = NoSession

\* Only the direct path refuses a profile that is already connected.
MayPrepare(p) ==
    /\ ~pending
    /\ p = "direct" => session = NoSession

BeginConnect(a, p) ==
    /\ MayPrepare(p)
    /\ Start(a, p)
    /\ UNCHANGED <<session, closing, disconnectVars>>

\* The profile, its driver, its secrets or (AlreadyConnected) its state do not
\* allow the connect; the pipeline path takes its marker back.
PrepareError ==
    /\ ~pending
    /\ pending' = FALSE
    /\ failure' = TRUE
    /\ UNCHANGED <<session, closing, attemptVars, disconnectVars>>

\* The background task limit: the marker just set is taken back.
TaskLimitReached(p) ==
    /\ MayPrepare(p)
    /\ pending' = FALSE
    /\ UNCHANGED <<failure, session, closing, attemptVars, disconnectVars>>

-----------------------------------------------------------------------------
\* The attempt's async task. Every way it ends removes the profile's marker.

Finish(a, status) ==
    /\ pending' = FALSE
    /\ astep' = [astep EXCEPT ![a] = "done"]
    /\ task' = [task EXCEPT ![a] = Settle(@, status)]
    /\ UNCHANGED <<path, closing, disconnectVars>>

Proceed(a, step) ==
    /\ astep' = [astep EXCEPT ![a] = step]
    /\ UNCHANGED <<pending, failure, session, closing, path, task, disconnectVars>>

FailAttempt(a) ==
    /\ Finish(a, "failed")
    /\ failure' = TRUE
    /\ UNCHANGED session

\* The cancellation path: nothing but the marker is touched.
AbandonAttempt(a) ==
    /\ Cancelled(a)
    /\ Finish(a, "cancelled")
    /\ UNCHANGED <<failure, session>>

InHooks(a) == astep[a] \in {"pre", "post"}

\* Aborted, or a hook of its own was cancelled.
HooksFail(a) == InHooks(a) /\ FailAttempt(a)

\* The phase runner saw the attempt's token cancelled.
HooksCancelled(a) == InHooks(a) /\ AbandonAttempt(a)

\* A phase with no hook left to run continues whatever the token says.
PreHooksContinue(a) ==
    /\ astep[a] = "pre"
    /\ Proceed(a, IF path[a] = "direct" THEN "connecting" ELSE "resolving")

\* run_pipeline: authenticate, resolve values, open access. It polls the token
\* of its input, which nobody cancels, and not the token of the task.
ResolveValues(a) ==
    /\ astep[a] = "resolving"
    /\ Proceed(a, "connecting")

ResolveError(a) ==
    /\ astep[a] = "resolving"
    /\ FailAttempt(a)

\* Only the direct path looks at its token when the driver comes back.
Discarded(a) == path[a] = "direct" /\ Cancelled(a)

ConnectDiscarded(a) ==
    /\ astep[a] = "connecting"
    /\ Discarded(a)
    /\ AbandonAttempt(a)

ConnectOk(a) ==
    /\ astep[a] = "connecting"
    /\ ~Discarded(a)
    /\ Proceed(a, "post")

\* Mutated form: the task is left running.
ConnectError_TaskLeft(a) ==
    /\ astep[a] = "connecting"
    /\ ~Discarded(a)
    /\ pending' = FALSE
    /\ failure' = TRUE
    /\ astep' = [astep EXCEPT ![a] = "done"]
    /\ UNCHANGED <<session, closing, path, task, disconnectVars>>

ConnectError(a) ==
    /\ astep[a] = "connecting"
    /\ ~Discarded(a)
    /\ FailAttempt(a)

\* add_connection: the new session replaces whatever is there.
PostHooksContinue(a) ==
    /\ astep[a] = "post"
    /\ Finish(a, "completed")
    /\ session' = a
    /\ failure' = FALSE

\* Mutated form: the marker stays until the cancelled task unwinds.
CancelConnect_MarkerLeft ==
    /\ Running # {}
    /\ task' = [a \in Attempts |-> Settle(task[a], "cancelled")]
    /\ UNCHANGED <<pending, failure, session, closing, astep, path, disconnectVars>>

\* The tasks panel: every running Connect task of the profile is cancelled and
\* the marker removed, for a retry without waiting for the old task.
CancelConnect ==
    /\ Running # {}
    /\ task' = [a \in Attempts |-> Settle(task[a], "cancelled")]
    /\ pending' = FALSE
    /\ UNCHANGED <<failure, session, closing, astep, path, disconnectVars>>

-----------------------------------------------------------------------------
\* Disconnecting.

\* Mutated form: a teardown is spawned although nothing was connected.
TakeSession_Unchecked ==
    /\ session' = NoSession
    /\ closing' = closing \cup {session}

\* ConnectionManager::disconnect: remove the entry and spawn its teardown.
TakeSession ==
    /\ session' = NoSession
    /\ closing' = closing \cup ({session} \ {NoSession})

\* teardown_connected comes to its end.
TeardownEnds(s) ==
    /\ s \in closing
    /\ closing' = closing \ {s}
    /\ UNCHANGED <<pending, failure, session, attemptVars, disconnectVars>>

\* refresh_connection: disconnect without hooks, then connect at once. The
\* connect may begin, find an obstacle, or ask for the password first.
RefreshConnection ==
    /\ session # NoSession
    /\ TakeSession
    /\ \/ \E a \in Attempts, p \in Paths : Start(a, p)
       \/ pending' = FALSE /\ failure' \in {failure, TRUE} /\ UNCHANGED attemptVars
    /\ UNCHANGED disconnectVars

disconnect_profile(d) ==
    /\ session # NoSession
    /\ IsNext(d, dstep)
    /\ dstep' = [dstep EXCEPT ![d] = "pre"]
    /\ dtask' = [dtask EXCEPT ![d] = "running"]
    /\ UNCHANGED <<pending, failure, session, closing, attemptVars, taken, warned>>

EndDisconnect(d, status) ==
    /\ dstep' = [dstep EXCEPT ![d] = "done"]
    /\ dtask' = [dtask EXCEPT ![d] = Settle(@, status)]
    /\ UNCHANGED <<pending, failure, session, closing, attemptVars, taken, warned>>

\* Aborted or cancelled hooks, before or after the session is gone.
DisconnectHooksFail(d) ==
    /\ dstep[d] \in {"pre", "post"}
    /\ EndDisconnect(d, "failed")

\* The hooks are through: whatever session the profile now has is removed, and
\* with it the markers of all operations pending on the profile.
PreDisconnectContinue(d) ==
    /\ dstep[d] = "pre"
    /\ TakeSession
    /\ pending' = FALSE
    /\ taken' = [taken EXCEPT ![d] = session]
    /\ dstep' = [dstep EXCEPT ![d] = IF session = NoSession THEN "post" ELSE "teardown"]
    /\ UNCHANGED <<failure, attemptVars, dtask, warned>>

StopWaiting(d, warn) ==
    /\ dstep[d] = "teardown"
    /\ dstep' = [dstep EXCEPT ![d] = "post"]
    /\ warned' = [warned EXCEPT ![d] = warn]
    /\ UNCHANGED <<pending, failure, session, closing, attemptVars, dtask, taken>>

\* Mutated form: the teardown is not awaited.
TeardownDone_NotAwaited(d) == StopWaiting(d, FALSE)

TeardownDone(d) == taken[d] \notin closing /\ StopWaiting(d, FALSE)

WaitCancelled(d) == dtask[d] = "cancelled" /\ StopWaiting(d, FALSE)

\* Mutated form: the wait has no deadline.
TeardownDeadline_Never(d) == FALSE /\ UNCHANGED vars

\* 30 s are over: the hooks run with a warning.
TeardownDeadline(d) == taken[d] \in closing /\ StopWaiting(d, TRUE)

PostDisconnectContinue(d) ==
    /\ dstep[d] = "post"
    /\ EndDisconnect(d, "completed")

CancelDisconnect(d) ==
    /\ dtask[d] = "running"
    /\ dtask' = [dtask EXCEPT ![d] = "cancelled"]
    /\ UNCHANGED <<pending, failure, session, closing, attemptVars, dstep, taken, warned>>

-----------------------------------------------------------------------------

AttemptStep(a) ==
    \/ HooksFail(a) \/ HooksCancelled(a) \/ PreHooksContinue(a)
    \/ ResolveValues(a) \/ ResolveError(a)
    \/ ConnectDiscarded(a) \/ ConnectOk(a) \/ ConnectError(a)
    \/ PostHooksContinue(a)

WaitStep(d) == TeardownDone(d) \/ WaitCancelled(d) \/ TeardownDeadline(d)

DisconnectStep(d) ==
    \/ DisconnectHooksFail(d) \/ PreDisconnectContinue(d) \/ PostDisconnectContinue(d)

Next ==
    \/ \E p \in Paths : TaskLimitReached(p) \/ \E a \in Attempts : BeginConnect(a, p)
    \/ PrepareError
    \/ \E a \in Attempts : AttemptStep(a)
    \/ CancelConnect
    \/ RefreshConnection
    \/ \E s \in Attempts : TeardownEnds(s)
    \/ \E d \in Disconnects :
        disconnect_profile(d) \/ DisconnectStep(d) \/ WaitStep(d) \/ CancelDisconnect(d)

Spec == Init /\ [][Next]_vars

\* The 50 ms timer of the wait keeps firing. Nothing is assumed of hooks, of
\* drivers, nor of the teardown thread.
FairSpec == Spec /\ \A d \in Disconnects : WF_vars(WaitStep(d))

-----------------------------------------------------------------------------

\* Type invariant; only sessions that existed are torn down.
TypeOK ==
    /\ pending \in BOOLEAN
    /\ failure \in BOOLEAN
    /\ session \in Attempts \cup {NoSession}
    /\ closing \subseteq Attempts
    /\ astep \in [Attempts -> AttemptSteps]
    /\ path \in [Attempts -> {"direct", "pipeline"}]
    /\ task \in [Attempts -> TaskStatus]
    /\ dstep \in [Disconnects -> DisconnectSteps]
    /\ dtask \in [Disconnects -> TaskStatus]
    /\ taken \in [Disconnects -> Attempts \cup {NoSession}]
    /\ warned \in [Disconnects -> BOOLEAN]

\* The sidebar never shows "(connecting...)", nor refuses a connect, without a
\* running attempt: no way of ending, cancelling or disconnecting leaves a
\* marker behind (finish_pending_operation, cancel_running_connect_tasks).
PendingHasOwner == pending => Running # {}

\* A Connect task runs exactly while its attempt is under way, unless it was
\* cancelled: every way an attempt ends settles its row of the tasks panel.
TasksSettle ==
    \A a \in Attempts : ~Cancelled(a) =>
        (task[a] = "running" <=> astep[a] \notin {"unused", "done"})

\* Attempts on the direct path exclude each other, and a connected profile has
\* none under way, as long as nobody cancels one and no disconnect task runs.
OneAttempt ==
    (/\ \A a \in Attempts : path[a] = "direct" /\ ~Cancelled(a)
     /\ \A d \in Disconnects : dstep[d] = "unused")
        => /\ \A a, b \in Running : a = b
           /\ pending <=> Running # {}
           /\ session # NoSession => Running = {}

\* Post-disconnect hooks observe a fully closed connection, unless the
\* disconnect was cancelled or warned (wait_for_connection_teardown).
PostHooksSeeClosed ==
    \A d \in Disconnects :
        dstep[d] = "post" => taken[d] \notin closing \/ warned[d] \/ dtask[d] = "cancelled"

\* A teardown that hangs does not keep the disconnect from its hooks.
DisconnectProceeds ==
    \A d \in Disconnects : dstep[d] = "teardown" ~> dstep[d] = "post"

\* cancel_running_connect_tasks_for_profile: "the eventual duplicate call from
\* the async task's own cancellation path is a no-op".
CancelledFinishIsNoOp ==
    [][\A a \in Attempts : ConnectDiscarded(a) \/ HooksCancelled(a) => pending' = pending]_vars

\* docs/SECRET_PROVIDER_RPC_PROTOCOL.md: "Cancelling the connection attempt
\* drops the pending resolution", whose "result is discarded".
CancelledResolutionDropped ==
    [][\A a \in Attempts : Cancelled(a) /\ astep[a] = "resolving" => astep'[a] # "connecting"]_vars
=============================================================================
