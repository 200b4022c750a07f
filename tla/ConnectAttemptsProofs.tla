----------------------- MODULE ConnectAttemptsProofs -----------------------
(***************************************************************************)
(* Proofs about ConnectAttempts for any number of attempts and             *)
(* disconnects. The invariant adds to the checked properties what each     *)
(* needs: an attempt not yet begun is untouched, and a session is that of  *)
(* a finished attempt and is removed once.                                 *)
(***************************************************************************)
EXTENDS ConnectAttempts, TLAPS

\* An attempt that has not begun has no task and the initial path.
UnusedUntouched ==
    \A a \in Attempts : astep[a] = "unused" => task[a] = "none" /\ path[a] = "direct"

\* Sessions come from finished attempts; one that was taken is never live again.
SessionsEnd ==
    /\ session # NoSession => astep[session] = "done"
    /\ \A d \in Disconnects :
        taken[d] # NoSession => astep[taken[d]] = "done" /\ taken[d] # session

ConnectInv ==
    /\ TypeOK
    /\ PendingHasOwner
    /\ TasksSettle
    /\ OneAttempt
    /\ PostHooksSeeClosed
    /\ UnusedUntouched
    /\ SessionsEnd

\* Init establishes the type invariant.
LEMMA TypeCorrectInit == Init => TypeOK
<1> SUFFICES ASSUME Init PROVE TypeOK
  OBVIOUS
<1>1. warned \in [Disconnects -> BOOLEAN] /\ pending \in BOOLEAN /\ failure \in BOOLEAN
  BY Zenon DEF Init
<1> QED BY <1>1 DEF Init, TypeOK, AttemptSteps, DisconnectSteps, TaskStatus

\* The type invariant holds of every reachable state.
THEOREM TypeCorrect == Spec => []TypeOK
<1>1. TypeOK /\ [Next]_vars => TypeOK'
  <2> SUFFICES ASSUME TypeOK, [Next]_vars PROVE TypeOK'
    OBVIOUS
  <2> USE ConnectAssumption DEF TypeOK, AttemptSteps, DisconnectSteps, TaskStatus, attemptVars, disconnectVars
  <2>1. ASSUME NEW a \in Attempts, NEW p \in Paths, BeginConnect(a, p) PROVE TypeOK'
    BY <2>1 DEF BeginConnect, Start
  <2>2. ASSUME NEW p \in Paths, TaskLimitReached(p) PROVE TypeOK'
    BY <2>2 DEF TaskLimitReached
  <2>3. CASE PrepareError
    BY <2>3 DEF PrepareError
  <2>4. ASSUME NEW a \in Attempts, AttemptStep(a) PROVE TypeOK'
    <3>1. ASSUME NEW s \in AttemptSteps, Proceed(a, s) PROVE TypeOK'
      BY <3>1 DEF Proceed
    <3>2. ASSUME NEW s \in TaskStatus, Finish(a, s), failure' \in BOOLEAN,
                 session' \in Attempts \cup {NoSession}
          PROVE  TypeOK'
      BY <3>2 DEF Finish, Settle
    <3> QED
      BY <2>4, <3>1, <3>2 DEF AttemptStep, HooksFail, HooksCancelled, PreHooksContinue, ResolveValues,
        ResolveError, ConnectDiscarded, ConnectOk, ConnectError, PostHooksContinue,
        FailAttempt, AbandonAttempt
  <2>5. CASE CancelConnect
    BY <2>5 DEF CancelConnect, Settle
  <2>6. CASE RefreshConnection
    <3>1. session' \in Attempts \cup {NoSession} /\ closing' \subseteq Attempts
      BY <2>6 DEF RefreshConnection, TakeSession
    <3>2. ASSUME NEW a \in Attempts, NEW p \in Paths, Start(a, p) PROVE TypeOK'
      BY <2>6, <3>1, <3>2 DEF RefreshConnection, Start
    <3>3. ASSUME pending' = FALSE, failure' \in {failure, TRUE}, UNCHANGED attemptVars PROVE TypeOK'
      BY <2>6, <3>1, <3>3 DEF RefreshConnection
    <3> QED BY <2>6, <3>2, <3>3 DEF RefreshConnection
  <2>7. ASSUME NEW s \in Attempts, TeardownEnds(s) PROVE TypeOK'
    BY <2>7 DEF TeardownEnds
  <2>8. ASSUME NEW d \in Disconnects,
               disconnect_profile(d) \/ DisconnectStep(d) \/ WaitStep(d) \/ CancelDisconnect(d)
        PROVE  TypeOK'
    <3>1. CASE disconnect_profile(d)
      BY <3>1 DEF disconnect_profile
    <3>2. CASE DisconnectHooksFail(d) \/ PostDisconnectContinue(d)
      BY <3>2 DEF DisconnectHooksFail, PostDisconnectContinue, EndDisconnect, Settle
    <3>3. CASE PreDisconnectContinue(d)
      BY <3>3 DEF PreDisconnectContinue, TakeSession
    <3>4. CASE WaitStep(d)
      BY <3>4 DEF WaitStep, TeardownDone, WaitCancelled, TeardownDeadline, StopWaiting
    <3>5. CASE CancelDisconnect(d)
      BY <3>5 DEF CancelDisconnect
    <3> QED BY <2>8, <3>1, <3>2, <3>3, <3>4, <3>5 DEF DisconnectStep
  <2>9. CASE UNCHANGED vars
    BY <2>9 DEF vars
  <2> QED
    BY <2>1, <2>2, <2>3, <2>4, <2>5, <2>6, <2>7, <2>8, <2>9 DEF Next
<1> QED BY <1>1, TypeCorrectInit, PTL DEF Spec

-----------------------------------------------------------------------------

\* The invariant is inductive: whatever order attempts, cancellations and
\* disconnects interleave in, no marker and no task is left behind.
THEOREM ConnectInvariant == Spec => []ConnectInv
<1>1. Init => ConnectInv
  BY TypeCorrectInit DEF Init, ConnectInv, PendingHasOwner, TasksSettle, OneAttempt,
    PostHooksSeeClosed, UnusedUntouched, SessionsEnd, Running, Cancelled
<1>2. ConnectInv /\ TypeOK' /\ [Next]_vars => ConnectInv'
  <2> SUFFICES ASSUME ConnectInv, TypeOK', [Next]_vars PROVE ConnectInv'
    OBVIOUS
  <2> USE DEF ConnectInv
  <2>1. ASSUME NEW a \in Attempts, NEW p \in Paths, Start(a, p),
               UNCHANGED disconnectVars,
               \/ ~pending /\ (p = "direct" => session = NoSession) /\ UNCHANGED <<session, closing>>
               \/ session # NoSession /\ TakeSession
        PROVE  ConnectInv'
    <3>1. PendingHasOwner' /\ UnusedUntouched' /\ TasksSettle'
      BY <2>1 DEF Start, IsNext, TypeOK, PendingHasOwner, UnusedUntouched, TasksSettle,
        Running, Cancelled
    <3>2. SessionsEnd'
      BY <2>1 DEF Start, IsNext, TypeOK, SessionsEnd, TakeSession, disconnectVars, NoSession
    <3>3. PostHooksSeeClosed'
      BY <2>1 DEF TypeOK, SessionsEnd, TakeSession, disconnectVars, PostHooksSeeClosed
    <3>4. OneAttempt'
      BY <2>1 DEF Start, IsNext, TypeOK, OneAttempt, UnusedUntouched, TakeSession,
        disconnectVars, Running, Cancelled
    <3> QED BY <3>1, <3>2, <3>3, <3>4
  <2>2. ASSUME UNCHANGED <<attemptVars, disconnectVars>>, pending' = FALSE,
               \/ ~pending /\ UNCHANGED <<session, closing>>
               \/ session # NoSession /\ TakeSession
        PROVE  ConnectInv'
    <3>1. PendingHasOwner' /\ UnusedUntouched' /\ TasksSettle'
      BY <2>2 DEF attemptVars, PendingHasOwner, UnusedUntouched, TasksSettle, Cancelled
    <3>2. SessionsEnd' /\ PostHooksSeeClosed'
      BY <2>2 DEF attemptVars, TypeOK, SessionsEnd, TakeSession, disconnectVars, PostHooksSeeClosed
    <3>3. OneAttempt'
      BY <2>2 DEF attemptVars, TypeOK, OneAttempt, TakeSession, disconnectVars, Running, Cancelled
    <3> QED BY <3>1, <3>2, <3>3
  <2>3. ASSUME NEW a \in Attempts, NEW s \in AttemptSteps \ {"unused", "done"},
               astep[a] \notin {"unused", "done"}, Proceed(a, s)
        PROVE  ConnectInv'
    BY <2>3 DEF Proceed, disconnectVars, TypeOK, PendingHasOwner, TasksSettle, OneAttempt,
      PostHooksSeeClosed, UnusedUntouched, SessionsEnd, Running, Cancelled
  <2>4. ASSUME NEW a \in Attempts, NEW st \in TaskStatus \ {"none", "running"},
               astep[a] \notin {"unused", "done"}, Finish(a, st),
               st = "cancelled" => Cancelled(a), session' \in {session, a}
        PROVE  ConnectInv'
    <3>1. PendingHasOwner' /\ UnusedUntouched' /\ TasksSettle'
      BY <2>4 DEF Finish, Settle, TypeOK, PendingHasOwner, UnusedUntouched, TasksSettle, Cancelled
    <3>2. SessionsEnd'
      BY <2>4 DEF Finish, TypeOK, SessionsEnd, disconnectVars
    <3>3. PostHooksSeeClosed'
      BY <2>4 DEF Finish, disconnectVars, PostHooksSeeClosed
    <3>4. OneAttempt'
      BY <2>4 DEF Finish, Settle, TypeOK, OneAttempt, TasksSettle, disconnectVars, Running, Cancelled
    <3> QED BY <3>1, <3>2, <3>3, <3>4
  <2>5. CASE CancelConnect
    BY <2>5 DEF CancelConnect, Settle, disconnectVars, TypeOK, PendingHasOwner, TasksSettle,
      OneAttempt, PostHooksSeeClosed, UnusedUntouched, SessionsEnd, Running, Cancelled
  <2>6. ASSUME NEW s \in Attempts, TeardownEnds(s) PROVE ConnectInv'
    BY <2>6 DEF TeardownEnds, attemptVars, disconnectVars, TypeOK, PendingHasOwner, TasksSettle,
      OneAttempt, PostHooksSeeClosed, UnusedUntouched, SessionsEnd, Running, Cancelled
  <2>7. ASSUME NEW d \in Disconnects, UNCHANGED <<pending, session, closing, attemptVars, taken>>,
               \E st \in DisconnectSteps \ {"unused"} : dstep' = [dstep EXCEPT ![d] = st],
               PostHooksSeeClosed'
        PROVE  ConnectInv'
    BY <2>7 DEF attemptVars, TypeOK, PendingHasOwner, TasksSettle, OneAttempt,
      UnusedUntouched, SessionsEnd, Running, Cancelled, DisconnectSteps
  <2>8. ASSUME NEW d \in Disconnects, PreDisconnectContinue(d) PROVE ConnectInv'
    <3>1. PendingHasOwner' /\ UnusedUntouched' /\ TasksSettle'
      BY <2>8 DEF PreDisconnectContinue, attemptVars, PendingHasOwner, UnusedUntouched, TasksSettle, Cancelled
    <3>2. SessionsEnd'
      BY <2>8 DEF PreDisconnectContinue, TakeSession, attemptVars, TypeOK, SessionsEnd
    <3>3. PostHooksSeeClosed'
      BY <2>8, ConnectAssumption DEF PreDisconnectContinue, TakeSession, TypeOK, SessionsEnd,
        PostHooksSeeClosed, NoSession, Attempts
    <3>4. OneAttempt'
      BY <2>8 DEF PreDisconnectContinue, TypeOK, OneAttempt
    <3> QED BY <3>1, <3>2, <3>3, <3>4
  <2>9. ASSUME NEW d \in Disconnects, CancelDisconnect(d) PROVE ConnectInv'
    BY <2>9 DEF CancelDisconnect, attemptVars, TypeOK, PendingHasOwner, TasksSettle,
      OneAttempt, PostHooksSeeClosed, UnusedUntouched, SessionsEnd, Running, Cancelled
  <2>10. CASE UNCHANGED vars
    BY <2>10 DEF vars, attemptVars, disconnectVars, TypeOK, PendingHasOwner, TasksSettle,
      OneAttempt, PostHooksSeeClosed, UnusedUntouched, SessionsEnd, Running, Cancelled
  <2>11. ASSUME NEW a \in Attempts, AttemptStep(a) PROVE ConnectInv'
    BY <2>3, <2>4, <2>11 DEF AttemptStep, HooksFail, HooksCancelled, PreHooksContinue, ResolveValues,
      ResolveError, ConnectDiscarded, ConnectOk, ConnectError, PostHooksContinue,
      FailAttempt, AbandonAttempt, InHooks, AttemptSteps, TaskStatus
  <2>12. ASSUME NEW d \in Disconnects,
                disconnect_profile(d) \/ DisconnectStep(d) \/ WaitStep(d) \/ CancelDisconnect(d)
         PROVE  ConnectInv'
    <3>1. CASE disconnect_profile(d)
      BY <3>1, <2>7 DEF disconnect_profile, TypeOK, PostHooksSeeClosed, DisconnectSteps
    <3>2. CASE DisconnectHooksFail(d) \/ PostDisconnectContinue(d)
      BY <3>2, <2>7 DEF DisconnectHooksFail, PostDisconnectContinue, EndDisconnect, Settle, TypeOK,
        PostHooksSeeClosed, DisconnectSteps
    <3>3. CASE WaitStep(d)
      BY <3>3, <2>7 DEF WaitStep, TeardownDone, WaitCancelled, TeardownDeadline, StopWaiting, TypeOK,
        PostHooksSeeClosed, DisconnectSteps
    <3> QED BY <2>8, <2>9, <2>12, <3>1, <3>2, <3>3 DEF DisconnectStep
  <2>13. CASE RefreshConnection
    BY <2>1, <2>2, <2>13 DEF RefreshConnection
  <2>14. ASSUME NEW p \in Paths, NEW a \in Attempts, BeginConnect(a, p) PROVE ConnectInv'
    BY <2>1, <2>14 DEF BeginConnect, MayPrepare
  <2>15. ASSUME PrepareError \/ \E p \in Paths : TaskLimitReached(p) PROVE ConnectInv'
    <3>1. ~pending /\ pending' = FALSE /\ UNCHANGED <<session, closing>>
      BY <2>15 DEF PrepareError, TaskLimitReached, MayPrepare
    <3>2. UNCHANGED <<attemptVars, disconnectVars>>
      BY <2>15 DEF PrepareError, TaskLimitReached
    <3> QED BY <2>2, <3>1, <3>2
  <2> QED
    BY <2>5, <2>6, <2>10, <2>11, <2>12, <2>13, <2>14, <2>15 DEF Next
<1> QED BY <1>1, <1>2, TypeCorrect, PTL DEF Spec

\* The marker of a profile never outlives the attempts that run.
THEOREM PendingHasOwnerHolds == Spec => []PendingHasOwner
<1>1. ConnectInv => PendingHasOwner
  BY DEF ConnectInv
<1> QED BY <1>1, ConnectInvariant, PTL

\* Every way an attempt ends settles its task.
THEOREM TasksSettleHolds == Spec => []TasksSettle
<1>1. ConnectInv => TasksSettle
  BY DEF ConnectInv
<1> QED BY <1>1, ConnectInvariant, PTL

\* Without cancellations and disconnect tasks, direct attempts exclude each other.
THEOREM OneAttemptHolds == Spec => []OneAttempt
<1>1. ConnectInv => OneAttempt
  BY DEF ConnectInv
<1> QED BY <1>1, ConnectInvariant, PTL

\* Post-disconnect hooks find their session closed unless they were warned or cancelled.
THEOREM PostHooksSeeClosedHolds == Spec => []PostHooksSeeClosed
<1>1. ConnectInv => PostHooksSeeClosed
  BY DEF ConnectInv
<1> QED BY <1>1, ConnectInvariant, PTL
=============================================================================
