------------------------ MODULE McpConnectionsProofs ------------------------
(***************************************************************************)
(* Proofs about McpConnections for any number of calls, disconnects,       *)
(* profiles and keys.                                                      *)
(*                                                                         *)
(* The argument: who is past its lock step holds the lock of its profile,  *)
(* so the key a connect is about to insert is free and nothing is cached   *)
(* under the hooks of a disconnect. A connection that left its call is in  *)
(* one place at a time: the cache, the hands of a teardown, the registry,  *)
(* hands again, or claimed for shutdown, and only ever moves on in this    *)
(* order. What disconnect_all owes is cached under a profile it has still  *)
(* to visit, or past the cache, where its sweep or another's hands have it.*)
(***************************************************************************)
EXTENDS McpConnections, TLAPS

LockedCall == Connecting \union {"again", "reject"}
LockedTeardown == PastDrain \union {"drain"}

\* A call or disconnect past its lock step holds the lock of its profile.
LockHeld ==
    /\ \A c \in Calls : pc[c] \in LockedCall => setup[ProfileOf[key[c]]] = c
    /\ \A d \in Teardowns : pc[d] \in LockedTeardown => setup[profile[d]] = d

\* disconnect_all runs exactly while the server drains.
MainPhase ==
    /\ phase = "serving" => pc[Main] = "idle"
    /\ phase = "draining" => pc[Main] \notin {"idle", "done"}
    /\ phase = "done" => pc[Main] = "done"

\* A disconnect runs hooks for keys of what it drained.
HookSteps == {"preRun", "preSettle", "postRun", "postSettle"}

HookKeys ==
    \A d \in Teardowns :
        /\ left[d] \subseteq KeysOf(profile[d])
        /\ pc[d] \in HookSteps <=> left[d] # {}
        /\ pc[d] \in HookSteps \union {"take", "dispatch", "shutting"} => drained[d] # {}

\* Connections leave their call once it is done, under its key.
Placed ==
    /\ \A k \in Keys, c \in Calls : cache[k] = c => key[c] = k /\ pc[c] = "done"
    /\ \A k \in Keys : \A c \in registry[k] : key[c] = k /\ pc[c] = "done"
    /\ \A d \in Teardowns : \A c \in drained[d] :
         /\ pc[c] = "done" /\ ProfileOf[key[c]] = profile[d]
         /\ pc[d] \in PastDrain \union {"cleanRegister"}
    /\ \A d \in Teardowns : \A c \in taken[d] :
         pc[c] = "done" /\ pc[d] \in {"dispatch", "cleanDispatch", "sweepDispatch"}
    /\ \A c \in shut \union atEnd : pc[c] = "done"
    /\ \A c \in Calls : late[c] # "none" => pc[c] = "done"

\* A connection is in one place at a time.
Apart ==
    /\ \A c \in Cached : c \notin Registered \union shut
                         /\ \A d \in Teardowns : c \notin InHand(d)
    /\ \A c \in Registered : c \notin shut /\ \A d \in Teardowns : c \notin InHand(d)
    /\ \A d \in Teardowns : \A c \in InHand(d) :
         c \notin shut /\ \A e \in Teardowns \ {d} : c \notin InHand(e)

\* Until its sweep, what disconnect_all owes is claimed, on its way there, or
\* cached under a profile that it has still to empty.
EndInv ==
    phase = "draining" /\ pc[Main] \notin {"sweepDispatch", "sweepLast"} =>
        \A c \in atEnd :
            \/ c \in shut \union Registered
            \/ \E d \in Teardowns : c \in InHand(d)
            \/ \E k \in Keys :
                 /\ cache[k] = c
                 /\ \/ ProfileOf[k] \in todo
                    \/ /\ ProfileOf[k] = profile[Main]
                       /\ pc[Main] \in {"lock", "drain", "overdue", "cleanDrain"}

McpInv ==
    /\ TypeOK
    /\ LockHeld
    /\ MainPhase
    /\ HookKeys
    /\ SetupExclusive
    /\ Placed
    /\ Apart
    /\ ConnectionAccounted
    /\ ShutdownHasClaimant
    /\ EndInv
    /\ ProcessesOwned

(***************************************************************************)
(* Types                                                                   *)
(***************************************************************************)
\* Init establishes the type invariant.
LEMMA TypeCorrectInit == Init => TypeOK
<1> SUFFICES ASSUME Init PROVE TypeOK
  OBVIOUS
<1>1. expired \in BOOLEAN
  BY Zenon DEF Init
<1>2. key \in [Calls -> Keys]
  BY McpAssumption DEF Init
<1>3. profile \in [Teardowns -> Profiles]
  <2>1. PICK f \in Told : profile = [d \in Teardowns |-> IF d = Main THEN SomeProfile ELSE f[d]]
    BY DEF Init
  <2>2. SomeProfile \in Profiles
    BY McpAssumption DEF SomeProfile
  <2>3. \A d \in Discs : f[d] \in Profiles
    BY McpAssumption
  <2> QED BY <2>1, <2>2, <2>3 DEF Teardowns
<1> QED BY <1>1, <1>2, <1>3 DEF Init, TypeOK, CallSteps, TeardownSteps

\* What the helpers make of processes has its type.
LEMMA ProcessTypes ==
    ASSUME TypeOK
    PROVE  /\ \A S, L : Reclaim(S, L) => procs' \in [Keys -> SUBSET ProcessStates]
           /\ \A S : Terminate(S) => procs' \in [Keys -> SUBSET ProcessStates]
           /\ \A k \in Keys : FailsEarly(k) \/ FailsLate(k) \/ SupervisionFails(k) =>
                 procs' \in [Keys -> SUBSET ProcessStates]
<1>1. ASSUME NEW S, NEW L, Reclaim(S, L) PROVE procs' \in [Keys -> SUBSET ProcessStates]
  <2>1. PICK F \in SUBSET S :
          procs' = [k \in Keys |->
                      IF k \notin S \/ procs[k] \intersect L = {} THEN procs[k]
                      ELSE (procs[k] \ L) \union (IF k \in F THEN {"stuck"} ELSE {})]
    BY <1>1 DEF Reclaim
  <2> QED BY <2>1 DEF TypeOK, ProcessStates
<1>2. ASSUME NEW k \in Keys, SupervisionFails(k) PROVE procs' \in [Keys -> SUBSET ProcessStates]
  <2>1. PICK F \in SUBSET {"stuck"} :
          procs' = [procs EXCEPT ![k] = (procs[k] \ ({"started"} \union InRegistry))
                                          \union F \union {"unsupervised"}]
    BY <1>2 DEF SupervisionFails
  <2>2. (procs[k] \ ({"started"} \union InRegistry)) \union F \union {"unsupervised"}
           \in SUBSET ProcessStates
    BY <2>1 DEF TypeOK, ProcessStates
  <2> QED BY <2>1, <2>2 DEF TypeOK
<1> QED BY <1>1, <1>2 DEF Terminate, FailsEarly, FailsLate

\* The key of a hook phase under way is a key.
LEMMA HookKeyType ==
    ASSUME TypeOK, HookKeys
    PROVE  /\ \A c \in Calls : HookKey(c) = key[c] /\ key[c] \in Keys
           /\ \A d \in Teardowns :
                pc[d] \in HookSteps =>
                   HookKey(d) \in left[d] /\ HookKey(d) \in Keys
                   /\ ProfileOf[HookKey(d)] = profile[d]
<1>1. \A c \in Calls : HookKey(c) = key[c] /\ key[c] \in Keys
  BY DEF HookKey, TypeOK
<1>2. ASSUME NEW d \in Teardowns, pc[d] \in HookSteps
      PROVE  HookKey(d) \in left[d] /\ HookKey(d) \in Keys /\ ProfileOf[HookKey(d)] = profile[d]
  <2>1. d \notin Calls
    BY McpAssumption DEF Teardowns
  <2>2. left[d] # {} /\ left[d] \subseteq KeysOf(profile[d])
    BY <1>2 DEF HookKeys
  <2>3. HookKey(d) \in left[d]
    BY <2>1, <2>2 DEF HookKey
  <2> QED BY <2>2, <2>3 DEF KeysOf
<1> QED BY <1>1, <1>2

\* Every step keeps the type invariant.
LEMMA TypeCorrectStep == TypeOK /\ HookKeys /\ [Next]_vars => TypeOK'
<1> SUFFICES ASSUME TypeOK, HookKeys, [Next]_vars PROVE TypeOK'
  OBVIOUS
<1> USE McpAssumption DEF connVars, endVars, pendVars
<1> DEFINE Steps == CallSteps \union TeardownSteps
<1>g. ASSUME NEW t \in Tasks, NEW s \in Steps, Goto(t, s) PROVE pc' \in [Tasks -> Steps]
  BY <1>g DEF Goto, TypeOK
<1>a. ASSUME NEW t \in Tasks, NEW p \in Profiles, Acquire(t, p)
      PROVE  setup' \in [Profiles -> Tasks \union {Nobody}]
  BY <1>a DEF Acquire, TypeOK
<1>r. ASSUME NEW t \in Tasks, Release(t)
      PROVE  setup' \in [Profiles -> Tasks \union {Nobody}]
  BY <1>r DEF Release, TypeOK
<1>s. Calls \subseteq Tasks /\ Teardowns \subseteq Tasks /\ Main \in Teardowns
  BY DEF Tasks, Teardowns
<1>c. {"idle", "lock", "again", "preRun", "preSettle", "dialing", "postRun", "postSettle", "reject",
       "insert", "done", "drain", "register", "clear", "take", "dispatch", "shutting", "last",
       "overdue", "cleanDrain", "cleanRegister", "cleanTake", "cleanDispatch", "cleanLast",
       "ids", "next", "sweepDispatch", "sweepLast"} \subseteq Steps
  BY DEF CallSteps, TeardownSteps, Connecting, PastDrain, CleanSteps
<1>k. \A c \in Calls : key[c] \in Keys /\ ProfileOf[key[c]] \in Profiles
  BY DEF TypeOK
<1> HIDE DEF Steps
<1>1. ASSUME NEW c \in Calls,
             \/ LookUp(c) \/ LockSetup(c) \/ LookUpAgain(c) \/ PreConnectHooksPass(c)
             \/ PreConnectHooksFail(c) \/ ConnectFails(c) \/ PostConnectHooksPass(c)
             \/ PostConnectHooksFail(c)
      PROVE  TypeOK'
  <2>1. pc' \in [Tasks -> Steps]
    BY <1>1, <1>g, <1>s, <1>c DEF LookUp, LockSetup, LookUpAgain, PreConnectHooksPass,
       PreConnectHooksFail, ConnectFails, PostConnectHooksPass, PostConnectHooksFail
  <2>2. setup' \in [Profiles -> Tasks \union {Nobody}]
    <3>1. setup \in [Profiles -> Tasks \union {Nobody}]
      BY DEF TypeOK
    <3> QED BY <1>1, <1>a, <1>r, <1>s, <1>k, <3>1 DEF LookUp, LockSetup, LookUpAgain,
       PreConnectHooksPass, PreConnectHooksFail, ConnectFails, PostConnectHooksPass,
       PostConnectHooksFail
  <2>3. procs' \in [Keys -> SUBSET ProcessStates]
    <3>1. procs \in [Keys -> SUBSET ProcessStates]
      BY DEF TypeOK
    <3> QED BY <1>1, <1>k, <3>1, ProcessTypes DEF LookUp, LockSetup, LookUpAgain,
       PreConnectHooksPass, PreConnectHooksFail, ConnectFails, PostConnectHooksPass,
       PostConnectHooksFail
  <2>4. UNCHANGED <<key, profile, cache, connVars, drained, left, pendVars, endVars>>
    BY <1>1 DEF LookUp, LockSetup, LookUpAgain, PreConnectHooksPass, PreConnectHooksFail,
       ConnectFails, PostConnectHooksPass, PostConnectHooksFail
  <2> QED BY <2>1, <2>2, <2>3, <2>4 DEF TypeOK, Steps
<1>2. ASSUME NEW c \in Calls, DriverConnects(c) PROVE TypeOK'
  <2>1. pc' \in [Tasks -> Steps]
    BY <1>2, <1>g, <1>s, <1>c DEF DriverConnects
  <2> QED BY <1>2, <2>1 DEF DriverConnects, TypeOK, Steps
<1>3. ASSUME NEW c \in Calls, DriverTimesOut(c) \/ CloseRejected(c) \/ Insert(c) PROVE TypeOK'
  <2>1. pc' \in [Tasks -> Steps]
    BY <1>3, <1>g, <1>s, <1>c DEF DriverTimesOut, CloseRejected, Insert
  <2>2. setup' \in [Profiles -> Tasks \union {Nobody}]
    BY <1>3, <1>r, <1>s DEF DriverTimesOut, CloseRejected, Insert
  <2>3. procs' \in [Keys -> SUBSET ProcessStates]
    BY <1>3, ProcessTypes DEF DriverTimesOut, CloseRejected, Insert, TypeOK
  <2>4. cache' \in [Keys -> Calls \union {Nobody}]
    BY <1>3, <1>k DEF DriverTimesOut, CloseRejected, Insert, TypeOK
  <2>5. late' \in [Calls -> {"none", "dialing", "open"}] /\ closed' \subseteq Calls
    BY <1>3 DEF DriverTimesOut, CloseRejected, Insert, TypeOK
  <2>6. UNCHANGED <<key, profile, opened, drained, left, pendVars, endVars>>
    BY <1>3 DEF DriverTimesOut, CloseRejected, Insert
  <2> QED BY <2>1, <2>2, <2>3, <2>4, <2>5, <2>6 DEF TypeOK, Steps
<1>4. ASSUME NEW c \in Calls, LateArrives(c) \/ CloseLateConnection(c) PROVE TypeOK'
  BY <1>4 DEF LateArrives, CloseLateConnection, TypeOK
<1>5. ASSUME NEW t \in Tasks, HookStartsProcess(t) \/ HooksReturn(t) PROVE TypeOK'
  <2>1. pc' \in [Tasks -> Steps]
    <3>1. pc \in [Tasks -> Steps]
      BY DEF TypeOK, Steps
    <3> QED BY <1>5, <1>g, <1>s, <1>c, <3>1 DEF HookStartsProcess, HooksReturn
  <2>2. HookKey(t) \in Keys
    BY <1>5, HookKeyType DEF HookStartsProcess, HooksReturn, Running, HookSteps, Tasks
  <2>3. procs' \in [Keys -> SUBSET ProcessStates]
    BY <1>5, <2>2 DEF HookStartsProcess, HooksReturn, TypeOK, ProcessStates
  <2>4. UNCHANGED <<key, profile, setup, cache, connVars, drained, left, pendVars, endVars>>
    BY <1>5 DEF HookStartsProcess, HooksReturn
  <2> QED BY <2>1, <2>3, <2>4 DEF TypeOK, Steps
<1>6. ASSUME NEW d \in Teardowns,
             \/ StartDisconnect(d) \/ LockTeardown(d) \/ SessionsShut(d)
             \/ PreDisconnectHooks(d) \/ PostDisconnectHooks(d)
      PROVE  TypeOK'
  <2>1. pc' \in [Tasks -> Steps]
    BY <1>6, <1>g, <1>s, <1>c DEF StartDisconnect, LockTeardown, SessionsShut, PreDisconnectHooks,
       PostDisconnectHooks, NextKey
  <2>2. setup' \in [Profiles -> Tasks \union {Nobody}]
    BY <1>6, <1>a, <1>s DEF StartDisconnect, LockTeardown, SessionsShut, PreDisconnectHooks,
       PostDisconnectHooks, TypeOK
  <2>3. left' \in [Teardowns -> SUBSET Keys]
    <3>1. RetiredKeys(d) \in SUBSET Keys
      BY <1>k DEF RetiredKeys, TypeOK
    <3>2. left \in [Teardowns -> SUBSET Keys] /\ left[d] \ {HookKey(d)} \in SUBSET Keys
      BY DEF TypeOK
    <3>3. \/ left' = left \/ left' = [left EXCEPT ![d] = RetiredKeys(d)]
          \/ left' = [left EXCEPT ![d] = left[d] \ {HookKey(d)}]
      BY <1>6 DEF StartDisconnect, LockTeardown, SessionsShut, PreDisconnectHooks,
         PostDisconnectHooks, NextKey
    <3> QED BY <3>1, <3>2, <3>3
  <2>4. procs' \in [Keys -> SUBSET ProcessStates]
    <3>1. procs \in [Keys -> SUBSET ProcessStates]
      BY DEF TypeOK
    <3>2. ASSUME PreDisconnectHooks(d) \/ PostDisconnectHooks(d) PROVE HookKey(d) \in Keys
      BY <3>2, HookKeyType DEF PreDisconnectHooks, PostDisconnectHooks, HookSteps, At
    <3> QED BY <1>6, <3>1, <3>2, ProcessTypes DEF StartDisconnect, LockTeardown, SessionsShut,
       PreDisconnectHooks, PostDisconnectHooks
  <2>5. UNCHANGED <<key, profile, cache, connVars, drained, pendVars, endVars>>
    BY <1>6 DEF StartDisconnect, LockTeardown, SessionsShut, PreDisconnectHooks,
       PostDisconnectHooks
  <2> QED BY <2>1, <2>2, <2>3, <2>4, <2>5 DEF TypeOK, Steps
<1>t. ASSUME NEW d \in Teardowns, TakeCached(d)
      PROVE  cache' \in [Keys -> Calls \union {Nobody}] /\ drained' \in [Teardowns -> SUBSET Calls]
  BY <1>t DEF TakeCached, CachedOf, TypeOK
<1>p. ASSUME NEW d \in Teardowns, Publish(d) PROVE registry' \in [Keys -> SUBSET Calls]
  BY <1>p DEF Publish, TypeOK
<1>e. ASSUME NEW d \in Teardowns, NEW S \in SUBSET Keys, TakeEntries(d, S)
      PROVE  registry' \in [Keys -> SUBSET Calls] /\ taken' \in [Teardowns -> SUBSET Calls]
  BY <1>e DEF TakeEntries, TypeOK
<1>d. ASSUME NEW d \in Teardowns, Dispatch(d)
      PROVE  /\ registry' \in [Keys -> SUBSET Calls] /\ taken' \in [Teardowns -> SUBSET Calls]
             /\ shut' \subseteq Calls
  BY <1>d DEF Dispatch, TypeOK
<1>f. ASSUME NEW d \in Teardowns, Finish(d)
      PROVE  /\ pc' \in [Tasks -> Steps]
             /\ setup' \in [Profiles -> Tasks \union {Nobody}]
             /\ drained' \in [Teardowns -> SUBSET Calls]
  <2>1. pc' \in [Tasks -> Steps]
    BY <1>f, <1>g, <1>s, <1>c DEF Finish
  <2>2. setup' \in [Profiles -> Tasks \union {Nobody}]
    BY <1>f, <1>r, <1>s DEF Finish
  <2> QED BY <1>f, <2>1, <2>2 DEF Finish, TypeOK
<1>7. ASSUME NEW d \in Teardowns, Drain(d) \/ Register(d) \/ TakeKeys(d) \/ DispatchShutdown(d)
      PROVE  TypeOK'
  <2>1. pc' \in [Tasks -> Steps]
    BY <1>7, <1>g, <1>s, <1>c DEF Drain, Register, TakeKeys, DispatchShutdown
  <2>2. RetiredKeys(d) \in SUBSET Keys
    BY <1>k DEF RetiredKeys, TypeOK
  <2>3. /\ cache' \in [Keys -> Calls \union {Nobody}] /\ drained' \in [Teardowns -> SUBSET Calls]
        /\ registry' \in [Keys -> SUBSET Calls] /\ taken' \in [Teardowns -> SUBSET Calls]
        /\ shut' \subseteq Calls
    BY <1>7, <1>t, <1>p, <1>e, <1>d, <2>2 DEF Drain, Register, TakeKeys, DispatchShutdown, TypeOK
  <2>4. UNCHANGED <<key, profile, setup, connVars, left, procs, endVars>>
    BY <1>7 DEF Drain, Register, TakeKeys, DispatchShutdown
  <2> QED BY <2>1, <2>3, <2>4 DEF TypeOK, Steps
<1>8. ASSUME NEW d \in Teardowns, ClearProcesses(d) PROVE TypeOK'
  <2>1. procs' \in [Keys -> SUBSET ProcessStates]
    BY <1>8, ProcessTypes DEF ClearProcesses
  <2>2. UNCHANGED <<key, profile, cache, connVars, pendVars, endVars>>
    BY <1>8 DEF ClearProcesses
  <2>3. /\ pc' \in [Tasks -> Steps] /\ setup' \in [Profiles -> Tasks \union {Nobody}]
        /\ drained' \in [Teardowns -> SUBSET Calls] /\ left' \in [Teardowns -> SUBSET Keys]
    <3>1. CASE drained[d] = {}
      BY <1>8, <1>f, <3>1 DEF ClearProcesses, TypeOK
    <3>2. CASE drained[d] # {}
      <4>1. Goto(d, "preRun") /\ UNCHANGED <<setup, drained>>
            /\ left' = [left EXCEPT ![d] = RetiredKeys(d)]
        BY <1>8, <3>2 DEF ClearProcesses
      <4>2. pc' \in [Tasks -> Steps]
        BY <4>1, <1>g, <1>s, <1>c
      <4>3. RetiredKeys(d) \in SUBSET Keys
        BY <1>k DEF RetiredKeys, TypeOK
      <4> QED BY <4>1, <4>2, <4>3 DEF TypeOK
    <3> QED BY <3>1, <3>2
  <2> QED BY <2>1, <2>2, <2>3 DEF TypeOK, Steps
<1>9. ASSUME NEW d \in Teardowns, FinishDisconnect(d) PROVE TypeOK'
  <2>1. procs' \in [Keys -> SUBSET ProcessStates]
    BY <1>9, ProcessTypes DEF FinishDisconnect
  <2>2. UNCHANGED <<key, profile, cache, connVars, left, pendVars, endVars>> /\ Finish(d)
    BY <1>9 DEF FinishDisconnect
  <2> QED BY <1>f, <2>1, <2>2 DEF TypeOK, Steps
<1>10. CASE BeginShutdown \/ AddProcessIds
  <2>1. pc' \in [Tasks -> Steps]
    BY <1>10, <1>g, <1>s, <1>c DEF BeginShutdown, AddProcessIds
  <2>2. atEnd' \subseteq Calls /\ todo' \subseteq Profiles
    BY <1>10 DEF BeginShutdown, AddProcessIds, Cached, Registered, TypeOK
  <2> QED BY <1>10, <2>1, <2>2 DEF BeginShutdown, AddProcessIds, TypeOK, Steps
<1>11. CASE Expire
  BY <1>11 DEF Expire, TypeOK
<1>12. ASSUME NEW p \in Profiles, NextProfile(p) PROVE TypeOK'
  <2>1. pc' \in [Tasks -> Steps]
    BY <1>12, <1>g, <1>s, <1>c DEF NextProfile
  <2> QED BY <1>12, <2>1 DEF NextProfile, TypeOK, Steps
<1>13. CASE TimeOut
  <2>1. pc' \in [Tasks -> Steps]
    BY <1>13, <1>g, <1>s, <1>c DEF TimeOut
  <2>2. setup' \in [Profiles -> Tasks \union {Nobody}]
    BY <1>13, <1>r, <1>s DEF TimeOut
  <2>3. procs' \in [Keys -> SUBSET ProcessStates]
    <3>1. CASE pc[Main] \in Running
      <4>1. HookKey(Main) \in Keys
        BY <3>1, <1>s, HookKeyType DEF Running, HookSteps
      <4>2. procs' = [procs EXCEPT ![HookKey(Main)] =
                        (procs[HookKey(Main)] \ {"started"}) \union {"adrift"}]
        BY <1>13, <3>1 DEF TimeOut
      <4>3. (procs[HookKey(Main)] \ {"started"}) \union {"adrift"} \in SUBSET ProcessStates
        BY <4>1 DEF TypeOK, ProcessStates
      <4> QED BY <4>1, <4>2, <4>3 DEF TypeOK
    <3>2. CASE pc[Main] \notin Running
      BY <1>13, <3>2 DEF TimeOut, TypeOK
    <3> QED BY <3>1, <3>2
  <2>4. /\ UNCHANGED <<key, profile, cache, connVars, pendVars, endVars>>
        /\ drained' \in [Teardowns -> SUBSET Calls] /\ left' \in [Teardowns -> SUBSET Keys]
    BY <1>13 DEF TimeOut, TypeOK
  <2> QED BY <2>1, <2>2, <2>3, <2>4 DEF TypeOK, Steps
<1>14. CASE Overdue \/ CleanupProcesses \/ SweepProcesses
  <2>1. pc' \in [Tasks -> Steps]
    BY <1>14, <1>g, <1>s, <1>c DEF Overdue, CleanupProcesses, SweepProcesses
  <2>2. procs' \in [Keys -> SUBSET ProcessStates]
    BY <1>14, ProcessTypes DEF Overdue, CleanupProcesses, SweepProcesses
  <2>3. /\ UNCHANGED <<key, profile, setup, cache, connVars, drained, left, pendVars>>
        /\ phase' \in {phase, "done"} /\ UNCHANGED <<todo, expired, atEnd>>
    BY <1>14 DEF Overdue, CleanupProcesses, SweepProcesses
  <2> QED BY <2>1, <2>2, <2>3 DEF TypeOK, Steps
<1>15. CASE CleanupDrain \/ CleanupRegister \/ CleanupTake \/ CleanupDispatch
            \/ SweepTake \/ SweepDispatch
  <2>1. pc' \in [Tasks -> Steps]
    BY <1>15, <1>g, <1>s, <1>c DEF CleanupDrain, CleanupRegister, CleanupTake, CleanupDispatch,
       SweepTake, SweepDispatch
  <2>2. \A p : KeysOf(p) \in SUBSET Keys
    BY DEF KeysOf
  <2>3. /\ cache' \in [Keys -> Calls \union {Nobody}] /\ drained' \in [Teardowns -> SUBSET Calls]
        /\ registry' \in [Keys -> SUBSET Calls] /\ taken' \in [Teardowns -> SUBSET Calls]
        /\ shut' \subseteq Calls
    BY <1>15, <1>s, <1>t, <1>p, <1>e, <1>d, <2>2 DEF CleanupDrain, CleanupRegister, CleanupTake,
       CleanupDispatch, SweepTake, SweepDispatch, TypeOK
  <2>4. UNCHANGED <<key, profile, setup, connVars, left, procs, endVars>>
    BY <1>15 DEF CleanupDrain, CleanupRegister, CleanupTake, CleanupDispatch, SweepTake,
       SweepDispatch
  <2> QED BY <2>1, <2>3, <2>4 DEF TypeOK, Steps
<1>16. CASE UNCHANGED vars
  BY <1>16 DEF vars, TypeOK
<1> QED
  BY <1>1, <1>2, <1>3, <1>4, <1>5, <1>6, <1>7, <1>8, <1>9, <1>10, <1>11, <1>12, <1>13, <1>14,
     <1>15, <1>16 DEF Next, CallStep, DisconnectStep, Prompt, Cleanup, Teardowns

\* The facts about types and names that the lemmas below share.
LEMMA Basics ==
    ASSUME TypeOK
    PROVE  /\ pc \in [Tasks -> CallSteps \union TeardownSteps]
           /\ setup \in [Profiles -> Tasks \union {Nobody}]
           /\ cache \in [Keys -> Calls \union {Nobody}]
           /\ registry \in [Keys -> SUBSET Calls]
           /\ drained \in [Teardowns -> SUBSET Calls]
           /\ taken \in [Teardowns -> SUBSET Calls]
           /\ left \in [Teardowns -> SUBSET Keys]
           /\ late \in [Calls -> {"none", "dialing", "open"}]
           /\ procs \in [Keys -> SUBSET ProcessStates]
           /\ key \in [Calls -> Keys]
           /\ profile \in [Teardowns -> Profiles]
           /\ ProfileOf \in [Keys -> Profiles]
           /\ shut \subseteq Calls /\ atEnd \subseteq Calls
           /\ Calls \subseteq Tasks /\ Teardowns \subseteq Tasks /\ Tasks = Calls \union Teardowns
           /\ Teardowns \intersect Calls = {} /\ Main \in Teardowns
           /\ Teardowns = Discs \union {Main} /\ Main \notin Discs
           /\ Nobody \notin Tasks
BY McpAssumption DEF TypeOK, Tasks, Teardowns

(***************************************************************************)
(* The setup lock                                                          *)
(***************************************************************************)
\* Every step keeps the locks with those who need them.
LEMMA LockHeldStep ==
    ASSUME TypeOK, LockHeld, [Next]_vars
    PROVE  LockHeld'
<1> USE Basics DEF connVars, endVars, pendVars, LockedCall, LockedTeardown, Connecting, PastDrain
\* One task moves: to a step that needs no lock, or without touching the locks.
<1>m. ASSUME NEW t \in Tasks, NEW s, Goto(t, s), UNCHANGED <<key, profile>>,
             \/ UNCHANGED setup
                /\ (t \in Calls /\ s \in LockedCall => pc[t] \in LockedCall)
                /\ (t \in Teardowns /\ s \in LockedTeardown => pc[t] \in LockedTeardown)
             \/ /\ Release(t)
                /\ (t \in Calls => s \notin LockedCall)
                /\ (t \in Teardowns => s \notin LockedTeardown)
      PROVE  LockHeld'
  BY <1>m DEF Goto, Release, LockHeld
<1>1. ASSUME NEW c \in Calls,
             \/ LookUp(c) \/ LookUpAgain(c) \/ PreConnectHooksPass(c) \/ PreConnectHooksFail(c)
             \/ ConnectFails(c) \/ DriverConnects(c) \/ DriverTimesOut(c)
             \/ PostConnectHooksPass(c) \/ PostConnectHooksFail(c)
             \/ CloseRejected(c) \/ Insert(c)
      PROVE  LockHeld'
  BY <1>1, <1>m DEF LookUp, LookUpAgain, PreConnectHooksPass, PreConnectHooksFail, ConnectFails,
     DriverConnects, DriverTimesOut, PostConnectHooksPass, PostConnectHooksFail, CloseRejected,
     Insert, At
<1>2. ASSUME NEW c \in Calls, LockSetup(c) PROVE LockHeld'
  BY <1>2 DEF LockSetup, Acquire, Goto, LockHeld
<1>3. ASSUME NEW d \in Teardowns, LockTeardown(d) PROVE LockHeld'
  BY <1>3 DEF LockTeardown, Acquire, Goto, LockHeld
<1>4. ASSUME NEW d \in Teardowns,
             \/ StartDisconnect(d) \/ Drain(d) \/ Register(d) \/ PreDisconnectHooks(d)
             \/ TakeKeys(d) \/ DispatchShutdown(d) \/ SessionsShut(d) \/ PostDisconnectHooks(d)
      PROVE  LockHeld'
  BY <1>4, <1>m DEF StartDisconnect, Drain, Register, PreDisconnectHooks, TakeKeys,
     DispatchShutdown, SessionsShut, PostDisconnectHooks, NextKey, At
<1>5. ASSUME NEW d \in Teardowns, ClearProcesses(d) \/ FinishDisconnect(d) PROVE LockHeld'
  BY <1>5, <1>m DEF ClearProcesses, FinishDisconnect, Finish, At
<1>6. ASSUME NEW t \in Tasks, HooksReturn(t) PROVE LockHeld'
  BY <1>6, <1>m DEF HooksReturn, Running
<1>7. CASE BeginShutdown \/ AddProcessIds \/ TimeOut \/ Cleanup
  BY <1>7, <1>m DEF BeginShutdown, AddProcessIds, TimeOut, Cleanup, Overdue, CleanupDrain,
     CleanupRegister, CleanupTake, CleanupDispatch, CleanupProcesses, SweepTake, SweepDispatch,
     SweepProcesses
<1>8. ASSUME NEW p \in Profiles, NextProfile(p) PROVE LockHeld'
  <2>1. pc'[Main] \in {"lock", "overdue"} /\ \A t \in Tasks \ {Main} : pc'[t] = pc[t]
    BY <1>8 DEF NextProfile, Goto
  <2>2. \A d \in Teardowns \ {Main} : profile'[d] = profile[d]
    BY <1>8 DEF NextProfile
  <2> QED BY <1>8, <2>1, <2>2 DEF NextProfile, LockHeld
<1>9. ASSUME UNCHANGED <<pc, key, profile, setup>> PROVE LockHeld'
  BY <1>9 DEF LockHeld
<1> QED
  BY <1>1, <1>2, <1>3, <1>4, <1>5, <1>6, <1>7, <1>8, <1>9 DEF Next, CallStep, DisconnectStep,
     Prompt, vars, LateArrives, CloseLateConnection, Expire, HookStartsProcess

\* Every step keeps disconnect_all and the phase of the server together.
LEMMA MainPhaseStep ==
    ASSUME TypeOK, MainPhase, [Next]_vars
    PROVE  MainPhase'
<1> USE Basics DEF connVars, endVars, pendVars, MainPhase, Goto, At
<1>0. ASSUME UNCHANGED phase,
             pc'[Main] = pc[Main] \/ {pc[Main], pc'[Main]} \intersect {"idle", "done"} = {}
      PROVE  MainPhase'
  BY <1>0
<1>1. ASSUME NEW c \in Calls, CallStep(c) PROVE MainPhase'
  BY <1>1, <1>0 DEF CallStep, LookUp, LockSetup, LookUpAgain, PreConnectHooksPass,
     PreConnectHooksFail, ConnectFails, DriverConnects, DriverTimesOut, LateArrives,
     CloseLateConnection, PostConnectHooksPass, PostConnectHooksFail, CloseRejected, Insert
<1>2. ASSUME NEW d \in Discs, StartDisconnect(d) PROVE MainPhase'
  BY <1>2, <1>0 DEF StartDisconnect
<1>3. ASSUME NEW d \in Teardowns, DisconnectStep(d) PROVE MainPhase'
  BY <1>3, <1>0 DEF DisconnectStep, LockTeardown, Drain, Prompt, Register, ClearProcesses,
     PreDisconnectHooks, TakeKeys, DispatchShutdown, SessionsShut, PostDisconnectHooks,
     FinishDisconnect, Finish, NextKey
<1>4. ASSUME NEW t \in Tasks, HookStartsProcess(t) \/ HooksReturn(t) PROVE MainPhase'
  BY <1>4, <1>0 DEF HookStartsProcess, HooksReturn, Running
<1>5. CASE BeginShutdown \/ AddProcessIds \/ Expire \/ TimeOut \/ Cleanup
           \/ \E p \in Profiles : NextProfile(p)
  BY <1>5 DEF BeginShutdown, AddProcessIds, Expire, TimeOut, Awaiting, Cleanup, Overdue,
     CleanupDrain, CleanupRegister, CleanupTake, CleanupDispatch, CleanupProcesses, SweepTake,
     SweepDispatch, SweepProcesses, NextProfile
<1>6. CASE UNCHANGED vars
  BY <1>6 DEF vars
<1> QED BY <1>1, <1>2, <1>3, <1>4, <1>5, <1>6 DEF Next

\* Every step keeps connects and disconnects of a profile apart: two that
\* meet on a key would both hold its profile's lock.
LEMMA SetupExclusiveStep ==
    ASSUME TypeOK, LockHeld, SetupExclusive, [Next]_vars
    PROVE  SetupExclusive'
<1> USE Basics DEF connVars, endVars, pendVars, Goto, At
\* The cache only shrinks, and no task enters a step that wants a key free.
<1>0. ASSUME \A k \in Keys : cache'[k] \in {cache[k], Nobody}, key' = key,
             \A c \in Calls : pc'[c] \in Connecting => pc[c] \in Connecting,
             \A d \in Teardowns : pc'[d] \in PastDrain =>
                                     pc[d] \in PastDrain /\ profile'[d] = profile[d]
      PROVE  SetupExclusive'
  <2>1. ASSUME NEW d \in Teardowns, pc'[d] \in PastDrain,
               NEW k \in Keys, ProfileOf[k] = profile'[d]
        PROVE  cache'[k] = Nobody
    BY <1>0, <2>1 DEF SetupExclusive, KeysOf
  <2>2. ASSUME NEW c \in Calls, pc'[c] \in Connecting PROVE cache'[key'[c]] = Nobody
    BY <1>0, <2>2 DEF SetupExclusive
  <2> QED BY <2>1, <2>2 DEF SetupExclusive, KeysOf
<1>1. ASSUME NEW c \in Calls,
             \/ LookUp(c) \/ LockSetup(c) \/ PreConnectHooksPass(c) \/ PreConnectHooksFail(c)
             \/ ConnectFails(c) \/ DriverConnects(c) \/ DriverTimesOut(c) \/ LateArrives(c)
             \/ CloseLateConnection(c) \/ PostConnectHooksPass(c) \/ PostConnectHooksFail(c)
             \/ CloseRejected(c)
      PROVE  SetupExclusive'
  BY <1>1, <1>0 DEF LookUp, LockSetup, PreConnectHooksPass, PreConnectHooksFail, ConnectFails,
     DriverConnects, DriverTimesOut, LateArrives, CloseLateConnection, PostConnectHooksPass,
     PostConnectHooksFail, CloseRejected, Connecting
<1>2. ASSUME NEW c \in Calls, LookUpAgain(c) PROVE SetupExclusive'
  BY <1>2 DEF LookUpAgain, SetupExclusive, Connecting
<1>3. ASSUME NEW c \in Calls, Insert(c) PROVE SetupExclusive'
  <2>1. setup[ProfileOf[key[c]]] = c /\ key' = key /\ profile' = profile
    BY <1>3 DEF Insert, LockHeld, LockedCall, Connecting
  <2>2. \A k \in Keys : k # key[c] => cache'[k] = cache[k]
    BY <1>3 DEF Insert
  <2>3. \A t \in Tasks : t # c => pc'[t] = pc[t]
    BY <1>3 DEF Insert
  <2>4. pc'[c] \notin Connecting
    BY <1>3 DEF Insert, Connecting
  <2>5. ASSUME NEW d \in Teardowns, pc'[d] \in PastDrain,
               NEW k \in Keys, ProfileOf[k] = profile'[d]
        PROVE  cache'[k] = Nobody
    <3>1. pc[d] \in PastDrain /\ d # c
      BY <2>3, <2>5
    <3>2. setup[profile[d]] = d
      BY <3>1 DEF LockHeld, LockedTeardown
    <3>3. k # key[c]
      BY <2>1, <2>5, <3>1, <3>2
    <3> QED BY <2>1, <2>2, <2>5, <3>1, <3>3 DEF SetupExclusive, KeysOf
  <2>6. ASSUME NEW b \in Calls, pc'[b] \in Connecting PROVE cache'[key'[b]] = Nobody
    <3>1. b # c /\ pc[b] \in Connecting
      BY <2>3, <2>4, <2>6
    <3>2. setup[ProfileOf[key[b]]] = b
      BY <3>1 DEF LockHeld, LockedCall
    <3>3. key[b] # key[c]
      BY <2>1, <3>1, <3>2
    <3> QED BY <2>1, <2>2, <3>1, <3>3 DEF SetupExclusive
  <2> QED BY <2>5, <2>6 DEF SetupExclusive, KeysOf
<1>4. ASSUME NEW d \in Teardowns,
             \/ StartDisconnect(d) \/ LockTeardown(d) \/ Register(d) \/ ClearProcesses(d)
             \/ PreDisconnectHooks(d) \/ TakeKeys(d) \/ DispatchShutdown(d) \/ SessionsShut(d)
             \/ PostDisconnectHooks(d) \/ FinishDisconnect(d)
      PROVE  SetupExclusive'
  BY <1>4, <1>0 DEF StartDisconnect, LockTeardown, Register, ClearProcesses, PreDisconnectHooks,
     TakeKeys, DispatchShutdown, SessionsShut, PostDisconnectHooks, FinishDisconnect, Finish,
     NextKey, PastDrain
<1>5. ASSUME NEW d \in Teardowns, Drain(d) PROVE SetupExclusive'
  <2>1. \A k \in Keys : cache'[k] = IF ProfileOf[k] = profile[d] THEN Nobody ELSE cache[k]
    BY <1>5 DEF Drain, TakeCached
  <2>2. /\ key' = key /\ profile' = profile
        /\ \A t \in Tasks \ {d} : pc'[t] = pc[t]
    BY <1>5 DEF Drain
  <2> QED BY <2>1, <2>2 DEF SetupExclusive, KeysOf
<1>6. ASSUME NEW t \in Tasks, HookStartsProcess(t) \/ HooksReturn(t) PROVE SetupExclusive'
  BY <1>6, <1>0 DEF HookStartsProcess, HooksReturn, Running, Connecting, PastDrain
<1>7. CASE BeginShutdown \/ AddProcessIds \/ Expire \/ TimeOut \/ Cleanup
  <2>1. \A k \in Keys : cache'[k] \in {cache[k], Nobody}
    BY <1>7 DEF BeginShutdown, AddProcessIds, Expire, TimeOut, Cleanup, Overdue, CleanupDrain,
       TakeCached, CleanupRegister, CleanupTake, CleanupDispatch, CleanupProcesses, SweepTake,
       SweepDispatch, SweepProcesses
  <2> QED BY <1>7, <1>0, <2>1 DEF BeginShutdown, AddProcessIds, Expire, TimeOut, Cleanup, Overdue,
       CleanupDrain, CleanupRegister, CleanupTake, CleanupDispatch, CleanupProcesses, SweepTake,
       SweepDispatch, SweepProcesses, PastDrain
<1>8. ASSUME NEW p \in Profiles, NextProfile(p) PROVE SetupExclusive'
  <2>1. pc'[Main] \in {"lock", "overdue"} /\ \A t \in Tasks \ {Main} : pc'[t] = pc[t]
    BY <1>8 DEF NextProfile
  <2>2. \A d \in Teardowns \ {Main} : profile'[d] = profile[d]
    BY <1>8 DEF NextProfile
  <2> QED BY <1>8, <1>0, <2>1, <2>2 DEF NextProfile, PastDrain
<1>9. CASE UNCHANGED vars
  BY <1>9, <1>0 DEF vars
<1> QED
  BY <1>1, <1>2, <1>3, <1>4, <1>5, <1>6, <1>7, <1>8, <1>9 DEF Next, CallStep, DisconnectStep, Prompt

(***************************************************************************)
(* Where a connection is                                                   *)
(***************************************************************************)
\* What a step means for the places a connection can be in. One task moves;
\* Quiet and Leave steps move no connection, the others from one place on to
\* the next.
Only(t) == \A u \in Tasks \ {t} : pc'[u] = pc[u]

Holding == {"register", "cleanRegister"}
Dispatching == {"dispatch", "cleanDispatch", "sweepDispatch"}
Claiming == {"clear", "preRun", "preSettle", "take"}
Reaching == {"lock", "drain", "overdue", "cleanDrain"}

QuietCall(c) ==
    /\ Only(c) /\ UNCHANGED <<key, profile, cache, drained, pendVars, endVars>>
    /\ pc[c] = "done" => pc'[c] = "done"
    /\ \A b \in Calls : late'[b] # "none" => late[b] # "none" \/ pc'[b] = "done"

QuietTeardown(d) ==
    /\ Only(d) /\ UNCHANGED <<key, profile, cache, connVars, drained, pendVars, endVars>>
    /\ pc[d] \notin Holding \union Dispatching \union {"sweepLast"}
    /\ pc'[d] \notin Holding \union Dispatching \union {"sweepLast"}
    /\ pc[d] \in PastDrain => pc'[d] \in PastDrain
    /\ pc[d] \in Claiming => pc'[d] \in Claiming
    /\ pc[d] \in Reaching => pc'[d] \in Reaching

Leave(d) ==
    /\ Only(d) /\ UNCHANGED <<key, profile, cache, connVars, pendVars, endVars>>
    /\ drained' = [drained EXCEPT ![d] = {}]
    /\ pc[d] \notin Holding \union Dispatching \union {"sweepLast"}
    /\ pc'[d] \notin Holding \union Dispatching \union {"sweepLast"}
    /\ d # Main /\ pc[d] \in Claiming => drained[d] = {}
    /\ d = Main /\ pc[d] \in Reaching => pc'[d] \in Reaching

CacheToHand(d) ==
    /\ Only(d) /\ UNCHANGED <<key, profile, connVars, pendVars, endVars>>
    /\ TakeCached(d)
    /\ \/ pc[d] = "drain" /\ pc'[d] = "register"
       \/ pc[d] = "cleanDrain" /\ pc'[d] = "cleanRegister"

HandToRegistry(d) ==
    /\ Only(d) /\ UNCHANGED <<key, profile, cache, connVars, taken, shut, endVars>>
    /\ Publish(d)
    /\ \/ pc[d] = "register" /\ pc'[d] = "clear" /\ UNCHANGED drained
       \/ /\ pc[d] = "cleanRegister" /\ pc'[d] = "cleanTake" /\ d = Main
          /\ drained' = [drained EXCEPT ![d] = {}]

RegistryToHand(d, S) ==
    /\ Only(d) /\ UNCHANGED <<key, profile, cache, connVars, drained, shut, endVars>>
    /\ TakeEntries(d, S)
    /\ \/ pc[d] = "take" /\ pc'[d] = "dispatch" /\ S = RetiredKeys(d)
       \/ pc[d] = "cleanTake" /\ pc'[d] = "cleanDispatch" /\ d = Main
       \/ /\ pc[d] = "next" /\ pc'[d] = "sweepDispatch" /\ d = Main
          /\ S = Keys /\ todo = {}

HandToShut(d) ==
    /\ Only(d) /\ UNCHANGED <<key, profile, cache, connVars, drained, endVars>>
    /\ Dispatch(d)
    /\ \/ pc[d] = "dispatch" /\ pc'[d] = "shutting"
       \/ pc[d] = "cleanDispatch" /\ pc'[d] = "cleanLast"
       \/ pc[d] = "sweepDispatch" /\ pc'[d] = "sweepLast"

\* Every step is of one of these kinds, or one of the few that only
\* disconnect_all takes.
LEMMA StepKinds ==
    ASSUME TypeOK, [Next]_vars
    PROVE  \/ \E c \in Calls : QuietCall(c) \/ Insert(c)
           \/ \E d \in Teardowns : \/ QuietTeardown(d) \/ Leave(d) \/ CacheToHand(d)
                                   \/ HandToRegistry(d) \/ HandToShut(d)
                                   \/ \E S \in SUBSET Keys : RegistryToHand(d, S)
           \/ BeginShutdown \/ AddProcessIds \/ Expire \/ SweepProcesses
           \/ \E p \in Profiles : NextProfile(p)
           \/ UNCHANGED vars
<1> USE Basics DEF Goto, At, Only, Holding, Dispatching, Claiming, Reaching, PastDrain,
                   connVars, endVars, pendVars
<1>1. ASSUME NEW c \in Calls,
             \/ LookUp(c) \/ LockSetup(c) \/ LookUpAgain(c) \/ PreConnectHooksPass(c)
             \/ PreConnectHooksFail(c) \/ ConnectFails(c) \/ DriverConnects(c)
             \/ PostConnectHooksPass(c) \/ PostConnectHooksFail(c) \/ CloseRejected(c)
      PROVE  QuietCall(c)
  BY <1>1 DEF LookUp, LockSetup, LookUpAgain, PreConnectHooksPass, PreConnectHooksFail,
     ConnectFails, DriverConnects, PostConnectHooksPass, PostConnectHooksFail, CloseRejected,
     QuietCall
<1>2. ASSUME NEW c \in Calls, DriverTimesOut(c) \/ LateArrives(c) \/ CloseLateConnection(c)
      PROVE  QuietCall(c)
  BY <1>2 DEF DriverTimesOut, LateArrives, CloseLateConnection, QuietCall
<1>3. ASSUME NEW d \in Teardowns,
             \/ StartDisconnect(d) \/ LockTeardown(d) \/ PreDisconnectHooks(d)
             \/ SessionsShut(d) \/ PostDisconnectHooks(d)
      PROVE  QuietTeardown(d)
  BY <1>3 DEF StartDisconnect, LockTeardown, PreDisconnectHooks, SessionsShut,
     PostDisconnectHooks, NextKey, QuietTeardown
<1>4. ASSUME NEW d \in Teardowns, ClearProcesses(d) PROVE QuietTeardown(d) \/ Leave(d)
  <2>1. CASE drained[d] = {}
    BY <1>4, <2>1 DEF ClearProcesses, Finish, Leave
  <2>2. CASE drained[d] # {}
    BY <1>4, <2>2 DEF ClearProcesses, QuietTeardown
  <2> QED BY <2>1, <2>2
<1>5. ASSUME NEW d \in Teardowns, FinishDisconnect(d) PROVE Leave(d)
  BY <1>5 DEF FinishDisconnect, Finish, Leave
<1>6. ASSUME NEW d \in Teardowns, Drain(d) PROVE CacheToHand(d)
  <2>1. Only(d) /\ pc[d] = "drain" /\ pc'[d] = "register"
    BY <1>6 DEF Drain
  <2>2. TakeCached(d) /\ UNCHANGED <<key, profile, connVars, pendVars, endVars>>
    BY <1>6 DEF Drain
  <2> QED BY <2>1, <2>2 DEF CacheToHand
<1>7. ASSUME NEW d \in Teardowns, Register(d) PROVE HandToRegistry(d)
  BY <1>7 DEF Register, HandToRegistry
<1>8. ASSUME NEW d \in Teardowns, TakeKeys(d) PROVE \E S \in SUBSET Keys : RegistryToHand(d, S)
  <2>1. RetiredKeys(d) \in SUBSET Keys
    BY DEF RetiredKeys
  <2>2. RegistryToHand(d, RetiredKeys(d))
    BY <1>8 DEF TakeKeys, RegistryToHand
  <2> QED BY <2>1, <2>2
<1>9. ASSUME NEW d \in Teardowns, DispatchShutdown(d) PROVE HandToShut(d)
  BY <1>9 DEF DispatchShutdown, HandToShut
<1>10. ASSUME NEW t \in Tasks, HookStartsProcess(t) \/ HooksReturn(t)
       PROVE  (t \in Calls /\ QuietCall(t)) \/ (t \in Teardowns /\ QuietTeardown(t))
  <2>1. /\ pc[t] \in Running
        /\ \/ pc'[t] = pc[t]
           \/ pc[t] = "preRun" /\ pc'[t] = "preSettle"
           \/ pc[t] = "postRun" /\ pc'[t] = "postSettle"
    <3>1. /\ pc[t] \in Running
          /\ \/ pc' = pc
             \/ pc' = [pc EXCEPT ![t] = IF pc[t] = "preRun" THEN "preSettle" ELSE "postSettle"]
      BY <1>10 DEF HookStartsProcess, HooksReturn
    <3>2. pc'[t] = pc[t] \/ pc'[t] = IF pc[t] = "preRun" THEN "preSettle" ELSE "postSettle"
      BY <3>1
    <3>3. pc[t] = "preRun" \/ pc[t] = "postRun"
      BY <3>1 DEF Running
    <3> QED BY <3>1, <3>2, <3>3
  <2>2. Only(t) /\ UNCHANGED <<key, profile, cache, connVars, drained, pendVars, endVars>>
    <3>1. UNCHANGED <<key, profile, cache, connVars, drained, pendVars, endVars>>
      BY <1>10 DEF HookStartsProcess, HooksReturn
    <3>2. Only(t)
      BY <1>10 DEF HookStartsProcess, HooksReturn
    <3> QED BY <3>1, <3>2
  <2>3. CASE t \in Calls
    BY <2>1, <2>2, <2>3 DEF Running, QuietCall
  <2>4. CASE t \in Teardowns
    BY <2>1, <2>2, <2>4 DEF Running, QuietTeardown
  <2> QED BY <2>3, <2>4
<1>11. CASE TimeOut
  <2>1. Leave(Main)
    BY <1>11 DEF TimeOut, Awaiting, Leave
  <2> QED BY <2>1
<1>12. CASE Overdue \/ CleanupProcesses
  <2>1. QuietTeardown(Main)
    BY <1>12 DEF Overdue, CleanupProcesses, QuietTeardown
  <2> QED BY <2>1
<1>13. CASE CleanupDrain
  <2>1. CacheToHand(Main)
    BY <1>13 DEF CleanupDrain, CacheToHand
  <2> QED BY <2>1
<1>14. CASE CleanupRegister
  <2>1. HandToRegistry(Main)
    BY <1>14 DEF CleanupRegister, HandToRegistry
  <2> QED BY <2>1
<1>15. CASE CleanupTake
  <2>1. KeysOf(profile[Main]) \in SUBSET Keys
    BY DEF KeysOf
  <2>2. RegistryToHand(Main, KeysOf(profile[Main]))
    BY <1>15 DEF CleanupTake, RegistryToHand
  <2> QED BY <2>1, <2>2
<1>16. CASE SweepTake
  <2>1. RegistryToHand(Main, Keys)
    BY <1>16 DEF SweepTake, RegistryToHand
  <2> QED BY <2>1
<1>17. CASE CleanupDispatch \/ SweepDispatch
  <2>1. HandToShut(Main)
    BY <1>17 DEF CleanupDispatch, SweepDispatch, HandToShut
  <2> QED BY <2>1
<1> QED
  BY <1>1, <1>2, <1>3, <1>4, <1>5, <1>6, <1>7, <1>8, <1>9, <1>10, <1>11, <1>12, <1>13, <1>14,
     <1>15, <1>16, <1>17 DEF Next, CallStep, DisconnectStep, Prompt, Cleanup

\* Every step keeps connections in their places.
LEMMA PlacedStep ==
    ASSUME TypeOK, MainPhase, Placed, [Next]_vars
    PROVE  Placed'
<1> USE Basics DEF connVars, endVars, pendVars
\* Places only lose connections, and nobody leaves a step that matters.
<1>0. ASSUME UNCHANGED key,
             \A k \in Keys : cache'[k] \in {cache[k], Nobody} /\ registry'[k] \subseteq registry[k],
             \A d \in Teardowns :
                /\ taken'[d] = {} \/ (taken'[d] = taken[d] /\ pc'[d] = pc[d])
                /\ \/ drained'[d] = {}
                   \/ drained'[d] = drained[d] /\ profile'[d] = profile[d]
                      /\ (pc[d] \in PastDrain \union {"cleanRegister"} =>
                            pc'[d] \in PastDrain \union {"cleanRegister"}),
             \A c \in shut' \union atEnd' : pc[c] = "done",
             \A c \in Calls : pc[c] = "done" => pc'[c] = "done",
             \A c \in Calls : late'[c] # "none" => late[c] # "none" \/ pc'[c] = "done",
             shut' \union atEnd' \subseteq Calls
      PROVE  Placed'
  <2>1. \A k \in Keys, c \in Calls : cache'[k] = c => key'[c] = k /\ pc'[c] = "done"
    BY <1>0 DEF Placed
  <2>2. \A k \in Keys : \A c \in registry'[k] : key'[c] = k /\ pc'[c] = "done"
    BY <1>0 DEF Placed
  <2>3. ASSUME NEW d \in Teardowns, NEW c \in drained'[d]
        PROVE  /\ pc'[c] = "done" /\ ProfileOf[key'[c]] = profile'[d]
               /\ pc'[d] \in PastDrain \union {"cleanRegister"}
    BY <1>0, <2>3 DEF Placed
  <2>4. ASSUME NEW d \in Teardowns, NEW c \in taken'[d]
        PROVE  pc'[c] = "done" /\ pc'[d] \in {"dispatch", "cleanDispatch", "sweepDispatch"}
    BY <1>0, <2>4 DEF Placed
  <2>5. \A c \in Calls : late'[c] # "none" => pc'[c] = "done"
    BY <1>0 DEF Placed
  <2> QED BY <1>0, <2>1, <2>2, <2>3, <2>4, <2>5 DEF Placed
\* Only those that dispatch have taken anything, so other moves are free.
<1>t. \A d \in Teardowns : pc[d] \notin Dispatching => taken[d] = {}
  BY DEF Placed, Dispatching
<1>d. \A d \in Teardowns : pc[d] \notin PastDrain \union {"cleanRegister"} => drained[d] = {}
  BY DEF Placed
<1>s. shut \union atEnd \subseteq Calls /\ \A c \in shut \union atEnd : pc[c] = "done"
  BY DEF Placed
<1>1. ASSUME NEW c \in Calls, QuietCall(c) PROVE Placed'
  BY <1>1, <1>0, <1>s DEF QuietCall, Only
<1>2. ASSUME NEW c \in Calls, Insert(c) PROVE Placed'
  <2>1. \A k \in Keys : cache'[k] = cache[k] \/ (k = key[c] /\ cache'[k] = c)
    BY <1>2 DEF Insert
  <2>2. \A t \in Tasks : t # c => pc'[t] = pc[t]
    BY <1>2 DEF Insert, Goto
  <2>3. pc[c] = "insert" /\ pc'[c] = "done"
    BY <1>2 DEF Insert, Goto, At
  <2>4. UNCHANGED <<key, profile, registry, drained, taken, shut, atEnd, late>>
    BY <1>2 DEF Insert
  <2>5. \A k \in Keys, b \in Calls : cache'[k] = b => key'[b] = k /\ pc'[b] = "done"
    BY <2>1, <2>2, <2>3, <2>4 DEF Placed
  <2>6. \A b \in Calls : pc[b] = "done" => pc'[b] = "done"
    BY <2>2, <2>3
  <2>7. \A d \in Teardowns : pc'[d] = pc[d]
    BY <2>2
  <2> QED BY <1>s, <2>4, <2>5, <2>6, <2>7 DEF Placed
<1>3. ASSUME NEW d \in Teardowns, QuietTeardown(d) PROVE Placed'
  BY <1>3, <1>0, <1>s, <1>t, <1>d DEF QuietTeardown, Only, Holding
<1>4. ASSUME NEW d \in Teardowns, Leave(d) PROVE Placed'
  BY <1>4, <1>0, <1>s, <1>t, <1>d DEF Leave, Only
<1>5. ASSUME NEW d \in Teardowns, CacheToHand(d) PROVE Placed'
  <2>1. /\ \A k \in Keys : cache'[k] \in {cache[k], Nobody}
        /\ UNCHANGED <<key, profile, registry, taken, shut, atEnd, late>> /\ Only(d)
        /\ pc[d] \notin Dispatching
    BY <1>5 DEF CacheToHand, TakeCached, Dispatching
  <2>2. \A c \in CachedOf(profile[d]) :
           c \in Calls /\ pc[c] = "done" /\ ProfileOf[key[c]] = profile[d]
    BY DEF CachedOf, KeysOf, Placed
  <2>3. ASSUME NEW e \in Teardowns, NEW c \in drained'[e]
        PROVE  /\ pc'[c] = "done" /\ ProfileOf[key'[c]] = profile'[e]
               /\ pc'[e] \in PastDrain \union {"cleanRegister"}
    <3>1. CASE e = d
      <4>1. drained'[d] = CachedOf(profile[d]) /\ pc'[d] \in {"register", "cleanRegister"}
        BY <1>5 DEF CacheToHand, TakeCached
      <4> QED BY <2>1, <2>2, <2>3, <3>1, <4>1 DEF Only, PastDrain
    <3>2. CASE e # d
      <4>1. drained'[e] = drained[e]
        BY <1>5, <3>2 DEF CacheToHand, TakeCached
      <4> QED BY <2>1, <2>3, <3>2, <4>1 DEF Only, Placed
    <3> QED BY <3>1, <3>2
  <2> QED BY <1>s, <1>t, <2>1, <2>3 DEF Placed, Only
<1>6. ASSUME NEW d \in Teardowns, HandToRegistry(d) PROVE Placed'
  <2>1. /\ \A k \in Keys : \A c \in registry'[k] :
              c \in registry[k] \/ (c \in drained[d] /\ key[c] = k)
        /\ UNCHANGED <<key, profile, cache, taken, shut, atEnd, late>> /\ Only(d)
        /\ pc[d] \notin Dispatching
    BY <1>6 DEF HandToRegistry, Publish, Dispatching
  <2>2. \A k \in Keys : \A c \in registry'[k] : key'[c] = k /\ pc'[c] = "done"
    BY <2>1 DEF Placed, Only
  <2>3. ASSUME NEW e \in Teardowns, NEW c \in drained'[e]
        PROVE  /\ pc'[c] = "done" /\ ProfileOf[key'[c]] = profile'[e]
               /\ pc'[e] \in PastDrain \union {"cleanRegister"}
    <3>1. CASE e = d
      <4>1. drained'[d] = drained[d] /\ pc'[d] = "clear"
        BY <1>6, <2>3, <3>1 DEF HandToRegistry
      <4> QED BY <2>1, <2>3, <3>1, <4>1 DEF Only, Placed, PastDrain
    <3>2. CASE e # d
      <4>1. drained'[e] = drained[e]
        BY <1>6, <3>2 DEF HandToRegistry
      <4> QED BY <2>1, <2>3, <3>2, <4>1 DEF Only, Placed
    <3> QED BY <3>1, <3>2
  <2>4. ASSUME NEW e \in Teardowns, NEW c \in taken'[e]
        PROVE  pc'[c] = "done" /\ pc'[e] \in {"dispatch", "cleanDispatch", "sweepDispatch"}
    <3>1. e # d
      BY <1>t, <2>1, <2>4
    <3> QED BY <2>1, <2>4, <3>1 DEF Placed, Only
  <2>5. \A c \in Calls : pc'[c] = pc[c]
    BY <2>1 DEF Only
  <2> QED BY <1>s, <2>1, <2>2, <2>3, <2>4, <2>5 DEF Placed
<1>7. ASSUME NEW d \in Teardowns, NEW S \in SUBSET Keys, RegistryToHand(d, S) PROVE Placed'
  <2>1. /\ \A k \in Keys : registry'[k] \subseteq registry[k]
        /\ UNCHANGED <<key, profile, cache, drained, shut, atEnd, late>> /\ Only(d)
        /\ pc'[d] \in Dispatching
        /\ pc[d] \in PastDrain => pc'[d] \in PastDrain
        /\ pc[d] # "cleanRegister"
    BY <1>7 DEF RegistryToHand, TakeEntries, Dispatching, PastDrain
  <2>2. \A c \in taken'[d] : \E k \in Keys : c \in registry[k]
    BY <1>7 DEF RegistryToHand, TakeEntries
  <2>3. \A e \in Teardowns \ {d} : taken'[e] = taken[e]
    BY <1>7 DEF RegistryToHand, TakeEntries
  <2>4. ASSUME NEW e \in Teardowns, NEW c \in taken'[e]
        PROVE  pc'[c] = "done" /\ pc'[e] \in {"dispatch", "cleanDispatch", "sweepDispatch"}
    <3>1. CASE e = d
      BY <2>1, <2>2, <2>4, <3>1 DEF Placed, Only, Dispatching
    <3>2. CASE e # d
      BY <2>1, <2>3, <2>4, <3>2 DEF Placed, Only
    <3> QED BY <3>1, <3>2
  <2> QED BY <1>s, <2>1, <2>4 DEF Placed, Only
<1>8. ASSUME NEW d \in Teardowns, HandToShut(d) PROVE Placed'
  <2>1. /\ UNCHANGED <<key, profile, cache, drained, registry, atEnd, late>> /\ Only(d)
        /\ pc[d] \in PastDrain => pc'[d] \in PastDrain
        /\ pc[d] # "cleanRegister"
        /\ taken'[d] = {} /\ \A e \in Teardowns \ {d} : taken'[e] = taken[e]
        /\ shut' = shut \union taken[d]
    BY <1>8 DEF HandToShut, Dispatch, PastDrain
  <2>2. \A c \in taken[d] : c \in Calls /\ pc[c] = "done"
    BY DEF Placed
  <2> QED BY <1>0, <1>s, <2>1, <2>2 DEF Only
<1>9. CASE BeginShutdown
  <2>1. /\ UNCHANGED <<key, profile, cache, drained, registry, taken, shut, late>>
        /\ pc[Main] = "idle" /\ \A t \in Tasks \ {Main} : pc'[t] = pc[t]
        /\ atEnd' = Cached \union Registered
    BY <1>9 DEF BeginShutdown, MainPhase, Goto
  <2>2. \A c \in Cached \union Registered : c \in Calls /\ pc[c] = "done"
    BY DEF Cached, Registered, Placed
  <2>3. taken[Main] = {} /\ drained[Main] = {}
    BY <1>t, <1>d, <2>1 DEF Dispatching, PastDrain
  <2> QED BY <1>0, <1>s, <2>1, <2>2, <2>3
<1>10. CASE AddProcessIds \/ SweepProcesses \/ \E p \in Profiles : NextProfile(p)
  <2>1. /\ UNCHANGED <<key, cache, drained, registry, taken, shut, atEnd, late>>
        /\ pc[Main] \in {"ids", "sweepLast", "next"}
        /\ \A t \in Tasks \ {Main} : pc'[t] = pc[t]
        /\ \A d \in Teardowns \ {Main} : profile'[d] = profile[d]
    BY <1>10 DEF AddProcessIds, SweepProcesses, NextProfile, Goto, At
  <2>2. taken[Main] = {} /\ drained[Main] = {}
    BY <1>t, <1>d, <2>1 DEF Dispatching, PastDrain
  <2> QED BY <1>0, <1>s, <2>1, <2>2
<1>11. CASE Expire \/ UNCHANGED vars
  BY <1>11, <1>0, <1>s DEF Expire, vars
<1> QED
  BY <1>1, <1>2, <1>3, <1>4, <1>5, <1>6, <1>7, <1>8, <1>9, <1>10, <1>11, StepKinds

\* Hands that are not at one of these steps are empty.
LEMMA EmptyHands ==
    ASSUME TypeOK, Placed, NEW d \in Teardowns, pc[d] \notin Holding \union Dispatching
    PROVE  InHand(d) = {}
BY Basics DEF Placed, InHand, Holding, Dispatching

\* Who moves a connection on: nobody, a call into the cache, or a teardown by
\* one place.
Stay == UNCHANGED <<Cached, Registered, shut>> /\ \A e \in Teardowns : InHand(e)' = InHand(e)

Arrive(c) ==
    /\ Cached' = Cached \union {c}
    /\ UNCHANGED <<Registered, shut>> /\ \A e \in Teardowns : InHand(e)' = InHand(e)

MoveOn(d) ==
    /\ \A e \in Teardowns \ {d} : InHand(e)' = InHand(e)
    /\ \/ /\ InHand(d) = {} /\ InHand(d)' \subseteq Cached
          /\ Cached' = Cached \ InHand(d)' /\ UNCHANGED <<Registered, shut>>
       \/ /\ InHand(d)' = {} /\ Registered' = Registered \union InHand(d)
          /\ UNCHANGED <<Cached, shut>>
       \/ /\ InHand(d) = {} /\ InHand(d)' \subseteq Registered
          /\ Registered' = Registered \ InHand(d)' /\ UNCHANGED <<Cached, shut>>
       \/ /\ InHand(d)' = {} /\ shut' = shut \union InHand(d)
          /\ UNCHANGED <<Cached, Registered>>

\* Hands whose owner and contents stay as they are stay the same.
LEMMA OtherHands ==
    ASSUME TypeOK, NEW d \in Teardowns, Only(d),
           \A e \in Teardowns \ {d} : drained'[e] = drained[e] /\ taken'[e] = taken[e]
    PROVE  \A e \in Teardowns \ {d} : InHand(e)' = InHand(e)
BY Basics DEF Only, InHand

\* Every step moves connections in one of these ways.
LEMMA Moves ==
    ASSUME TypeOK, TypeOK', MainPhase, SetupExclusive, Placed, Placed', [Next]_vars
    PROVE  \/ Stay
           \/ \E c \in Calls : Insert(c) /\ Arrive(c)
           \/ \E d \in Teardowns : MoveOn(d)
<1> USE Basics DEF connVars, endVars, pendVars
<1>c. ASSUME UNCHANGED <<cache, registry>> PROVE UNCHANGED <<Cached, Registered>>
  BY <1>c DEF Cached, Registered
<1>1. ASSUME NEW c \in Calls, QuietCall(c) PROVE Stay
  BY <1>1, <1>c DEF QuietCall, Only, Stay, InHand
<1>2. ASSUME NEW c \in Calls, Insert(c) PROVE Arrive(c)
  <2>1. cache[key[c]] = Nobody
    BY <1>2 DEF Insert, At, SetupExclusive, Connecting
  <2>2. /\ cache' = [cache EXCEPT ![key[c]] = c]
        /\ UNCHANGED <<registry, drained, taken, shut>> /\ \A e \in Teardowns : pc'[e] = pc[e]
    BY <1>2, <2>1 DEF Insert, Goto
  <2>3. Cached' = Cached \union {c}
    BY <2>1, <2>2 DEF Cached
  <2> QED BY <2>2, <2>3 DEF Arrive, Registered, InHand
<1>3. ASSUME NEW d \in Teardowns, QuietTeardown(d) \/ Leave(d) PROVE Stay
  <2>1. /\ UNCHANGED <<cache, registry, shut, taken>>
        /\ \A e \in Teardowns \ {d} : drained'[e] = drained[e]
        /\ Only(d) /\ pc[d] \notin Holding /\ pc'[d] \notin Holding
    BY <1>3 DEF QuietTeardown, Leave
  <2>2. InHand(d)' = InHand(d)
    BY <2>1 DEF InHand, Holding
  <2> QED BY <1>c, <2>1, <2>2, OtherHands DEF Stay
<1>4. ASSUME NEW d \in Teardowns, CacheToHand(d) PROVE MoveOn(d)
  <2>1. /\ pc[d] \notin Holding \union Dispatching /\ pc'[d] \in Holding
        /\ UNCHANGED <<registry, shut, taken>> /\ Only(d)
        /\ \A e \in Teardowns \ {d} : drained'[e] = drained[e]
        /\ drained'[d] = CachedOf(profile[d])
        /\ \A k \in Keys : cache'[k] = IF ProfileOf[k] = profile[d] THEN Nobody ELSE cache[k]
    BY <1>4 DEF CacheToHand, TakeCached, Holding, Dispatching
  <2>2. InHand(d) = {} /\ taken[d] = {}
    BY <2>1, EmptyHands DEF InHand
  <2>3. InHand(d)' = CachedOf(profile[d])
    BY <2>1, <2>2 DEF InHand, Holding
  <2>4. CachedOf(profile[d]) \subseteq Cached /\ Cached' = Cached \ CachedOf(profile[d])
    BY <2>1 DEF Cached, CachedOf, KeysOf, Placed
  <2>5. UNCHANGED Registered
    BY <2>1 DEF Registered
  <2> QED BY <2>1, <2>2, <2>3, <2>4, <2>5, OtherHands DEF MoveOn
<1>5. ASSUME NEW d \in Teardowns, HandToRegistry(d) PROVE MoveOn(d)
  <2>1. /\ pc[d] \in Holding /\ pc'[d] \notin Holding \union Dispatching
        /\ UNCHANGED <<cache, shut, taken>> /\ Only(d)
        /\ \A e \in Teardowns \ {d} : drained'[e] = drained[e]
        /\ \A k \in Keys : registry'[k] = registry[k] \union {c \in drained[d] : key[c] = k}
    BY <1>5 DEF HandToRegistry, Publish, Holding, Dispatching
  <2>2. InHand(d)' = {}
    <3>1. taken[d] = {}
      BY <2>1 DEF Placed, Holding
    <3> QED BY <2>1, <3>1 DEF InHand, Holding
  <2>3. InHand(d) = drained[d]
    BY <2>1 DEF InHand, Holding, Placed
  <2>4. Registered' = Registered \union drained[d]
    BY <2>1 DEF Registered
  <2>5. UNCHANGED Cached
    BY <2>1 DEF Cached
  <2> QED BY <2>1, <2>2, <2>3, <2>4, <2>5, OtherHands DEF MoveOn
<1>6. ASSUME NEW d \in Teardowns, NEW S \in SUBSET Keys, RegistryToHand(d, S) PROVE MoveOn(d)
  <2>1. /\ pc[d] \notin Holding \union Dispatching /\ pc'[d] \notin Holding
        /\ UNCHANGED <<cache, shut, drained>> /\ Only(d)
        /\ \A e \in Teardowns \ {d} : taken'[e] = taken[e]
        /\ \A k \in Keys : registry'[k] = IF k \in S THEN {} ELSE registry[k]
        /\ taken'[d] = UNION {registry[k] : k \in S}
    BY <1>6 DEF RegistryToHand, TakeEntries, Holding, Dispatching
  <2>2. InHand(d) = {}
    BY <2>1, EmptyHands
  <2>3. InHand(d)' = UNION {registry[k] : k \in S}
    BY <2>1 DEF InHand, Holding
  <2>4. /\ UNION {registry[k] : k \in S} \subseteq Registered
        /\ Registered' = Registered \ UNION {registry[k] : k \in S}
    BY <2>1 DEF Registered, Placed
  <2>5. UNCHANGED Cached
    BY <2>1 DEF Cached
  <2> QED BY <2>1, <2>2, <2>3, <2>4, <2>5, OtherHands DEF MoveOn
<1>7. ASSUME NEW d \in Teardowns, HandToShut(d) PROVE MoveOn(d)
  <2>1. /\ pc[d] \notin Holding /\ pc'[d] \notin Holding
        /\ UNCHANGED <<cache, registry, drained>> /\ Only(d)
        /\ \A e \in Teardowns \ {d} : taken'[e] = taken[e]
        /\ taken'[d] = {} /\ shut' = shut \union taken[d]
    BY <1>7 DEF HandToShut, Dispatch, Holding
  <2>2. InHand(d) = taken[d] /\ InHand(d)' = {}
    BY <2>1 DEF InHand, Holding
  <2> QED BY <1>c, <2>1, <2>2, OtherHands DEF MoveOn
<1>8. CASE \/ BeginShutdown \/ AddProcessIds \/ SweepProcesses \/ (\E p \in Profiles : NextProfile(p))
           \/ Expire \/ UNCHANGED vars
  <2>1. /\ UNCHANGED <<cache, registry, shut, taken, drained>>
        /\ \/ Only(Main) /\ {pc[Main], pc'[Main]} \intersect Holding = {}
           \/ UNCHANGED pc
    BY <1>8 DEF BeginShutdown, AddProcessIds, SweepProcesses, NextProfile, Expire, vars, MainPhase,
       Only, Holding, Goto, At
  <2>2. \A e \in Teardowns : InHand(e)' = InHand(e)
    BY <2>1 DEF InHand, Holding, Only
  <2> QED BY <1>c, <2>1, <2>2 DEF Stay
<1> QED BY <1>1, <1>2, <1>3, <1>4, <1>5, <1>6, <1>7, <1>8, StepKinds

\* Every step keeps a connection in one place at a time.
LEMMA ApartStep ==
    ASSUME TypeOK, TypeOK', MainPhase, SetupExclusive, Placed, Placed', Apart, [Next]_vars
    PROVE  Apart'
<1>1. CASE Stay
  BY <1>1 DEF Stay, Apart
<1>2. ASSUME NEW c \in Calls, Insert(c), Arrive(c) PROVE Apart'
  <2>1. pc[c] = "insert"
    BY <1>2 DEF Insert, At
  <2>2. c \notin Registered \union shut /\ \A d \in Teardowns : c \notin InHand(d)
    BY <2>1, Basics DEF Registered, InHand, Placed
  <2> QED BY <1>2, <2>2 DEF Arrive, Apart
<1>3. ASSUME NEW d \in Teardowns, MoveOn(d) PROVE Apart'
  <2>1. ASSUME NEW c \in Cached'
        PROVE  c \notin Registered' \union shut' /\ \A e \in Teardowns : c \notin InHand(e)'
    BY <1>3, <2>1 DEF MoveOn, Apart
  <2>2. ASSUME NEW c \in Registered'
        PROVE  c \notin shut' /\ \A e \in Teardowns : c \notin InHand(e)'
    BY <1>3, <2>2 DEF MoveOn, Apart
  <2>3. ASSUME NEW e \in Teardowns, NEW c \in InHand(e)'
        PROVE  c \notin shut' /\ \A f \in Teardowns \ {e} : c \notin InHand(f)'
    BY <1>3, <2>3 DEF MoveOn, Apart
  <2> QED BY <2>1, <2>2, <2>3 DEF Apart
<1> QED BY <1>1, <1>2, <1>3, Moves

(***************************************************************************)
(* No connection is forgotten                                              *)
(***************************************************************************)
\* Where a connection is once it left its call.
Somewhere(c) ==
    c \in Cached \union Registered \union shut \/ \E d \in Teardowns : c \in InHand(d)

\* A connection is accounted for by its call, its closing, or its place.
Accounted(c) ==
    \/ pc[c] \in {"postRun", "postSettle", "reject", "insert"}
    \/ late[c] = "open"
    \/ c \in closed
    \/ Somewhere(c)

\* ConnectionAccounted, connection by connection.
AllAccounted == \A c \in opened : Accounted(c)

LEMMA AccountedEquiv == TypeOK => (ConnectionAccounted <=> AllAccounted)
<1> SUFFICES ASSUME TypeOK PROVE ConnectionAccounted <=> \A c \in opened : Accounted(c)
  BY DEF AllAccounted
<1>1. \A c : c \in UNION {InHand(d) : d \in Teardowns} <=> \E d \in Teardowns : c \in InHand(d)
  OBVIOUS
<1>2. opened \subseteq Calls
  BY DEF TypeOK
<1>3. \A c \in opened : c \in InCall <=> pc[c] \in {"postRun", "postSettle", "reject", "insert"}
  BY <1>2 DEF InCall
<1>4. \A c \in opened : c \in Late <=> late[c] = "open"
  BY <1>2 DEF Late
<1> DEFINE Hands == UNION {InHand(d) : d \in Teardowns}
           All == InCall \union Late \union Cached \union Registered
                         \union shut \union closed \union Hands
<1>5. ASSUME NEW c \in opened PROVE c \in All <=> Accounted(c)
  <2> HIDE DEF Hands
  <2>1. c \in Hands <=> \E d \in Teardowns : c \in InHand(d)
    BY <1>1 DEF Hands
  <2> QED BY <1>3, <1>4, <2>1 DEF Accounted, Somewhere
<1>6. ConnectionAccounted <=> \A c \in opened : c \in All
  <2>1. ConnectionAccounted <=> opened \subseteq All
    BY Zenon DEF ConnectionAccounted
  <2> HIDE DEF All
  <2> QED BY <2>1
<1> HIDE DEF All
<1> QED BY <1>5, <1>6

\* A connection that is in a place stays in one.
LEMMA SomewhereStep ==
    ASSUME TypeOK, TypeOK', MainPhase, SetupExclusive, Placed, Placed', [Next]_vars,
           NEW c, Somewhere(c)
    PROVE  Somewhere(c)'
<1>1. CASE Stay
  BY <1>1 DEF Stay, Somewhere
<1>2. ASSUME NEW b \in Calls, Arrive(b) PROVE Somewhere(c)'
  BY <1>2 DEF Arrive, Somewhere
<1>3. ASSUME NEW d \in Teardowns, MoveOn(d) PROVE Somewhere(c)'
  BY <1>3 DEF MoveOn, Somewhere
<1> QED BY <1>1, <1>2, <1>3, Moves

\* Every step keeps the connections accounted for.
LEMMA AccountedStep ==
    ASSUME TypeOK, TypeOK', MainPhase, SetupExclusive, Placed, Placed', [Next]_vars,
           \A c \in opened : Accounted(c)
    PROVE  \A c \in opened' : Accounted(c)'
<1> USE Basics DEF connVars, endVars, pendVars, Goto, At
<1>x. opened \subseteq Calls
  BY DEF TypeOK
\* Only a step of its own call changes what the call has of a connection.
<1>0. ASSUME UNCHANGED connVars, \A c \in Calls : pc'[c] = pc[c]
      PROVE  \A c \in opened' : Accounted(c)'
  <2> SUFFICES ASSUME NEW c \in opened PROVE Accounted(c)'
    BY <1>0
  <2>1. Accounted(c) /\ c \in Calls
    BY <1>x
  <2>2. CASE Somewhere(c)
    BY <2>2, SomewhereStep DEF Accounted
  <2>3. CASE ~Somewhere(c)
    BY <1>0, <2>1, <2>3 DEF Accounted
  <2> QED BY <2>2, <2>3
<1>1. ASSUME NEW c \in Calls, CallStep(c) PROVE \A b \in opened' : Accounted(b)'
  <2>1. /\ \A b \in Calls \ {c} : /\ b \in opened' => b \in opened
                                  /\ pc'[b] = pc[b] /\ late'[b] = late[b]
                                  /\ b \in closed => b \in closed'
        /\ closed \subseteq closed'
    BY <1>1 DEF CallStep, LookUp, LockSetup, LookUpAgain, PreConnectHooksPass,
       PreConnectHooksFail, ConnectFails, DriverConnects, DriverTimesOut, LateArrives,
       CloseLateConnection, PostConnectHooksPass, PostConnectHooksFail, CloseRejected, Insert
  <2>2. ASSUME NEW b \in opened', b # c PROVE Accounted(b)'
    <3>1. b \in Calls /\ b \in opened
      BY <2>1, <2>2 DEF TypeOK
    <3>2. CASE Somewhere(b)
      BY <3>2, SomewhereStep DEF Accounted
    <3>3. CASE ~Somewhere(b)
      BY <2>1, <2>2, <3>1, <3>3 DEF Accounted
    <3> QED BY <3>2, <3>3
  <2>3. ASSUME c \in opened' PROVE Accounted(c)'
    <3>1. CASE c \in opened /\ Somewhere(c)
      BY <3>1, SomewhereStep DEF Accounted
    <3>2. CASE Insert(c)
      <4>1. pc[c] = "insert" /\ cache[key[c]] = Nobody
        BY <3>2 DEF Insert, SetupExclusive, Connecting
      <4>2. cache'[key[c]] = c
        BY <3>2, <4>1 DEF Insert
      <4>3. c \in Cached'
        BY <4>2 DEF Cached
      <4> QED BY <4>3 DEF Accounted, Somewhere
    <3>3. CASE DriverConnects(c)
      BY <3>3 DEF DriverConnects, Accounted
    <3>4. CASE DriverTimesOut(c) \/ LateArrives(c) \/ CloseLateConnection(c)
      <4>1. c \in opened => \/ pc[c] \in {"postRun", "postSettle", "reject", "insert"}
                            \/ late[c] = "open" \/ c \in closed \/ Somewhere(c)
        BY DEF Accounted
      <4>2. late[c] # "none" => pc[c] = "done"
        BY DEF Placed
      <4>3. CASE DriverTimesOut(c)
        <5>1. pc[c] = "dialing" /\ c \in opened /\ closed' = closed
          BY <2>3, <4>3 DEF DriverTimesOut
        <5>2. c \in closed \/ Somewhere(c)
          BY <4>1, <4>2, <5>1
        <5> QED BY <3>1, <5>1, <5>2 DEF Accounted
      <4>4. CASE LateArrives(c)
        <5>1. late[c] = "dialing" /\ pc' = pc /\ closed' = closed
              /\ (late'[c] = "open" \/ c \in opened)
          BY <2>3, <4>4 DEF LateArrives
        <5> QED BY <3>1, <4>1, <5>1 DEF Accounted
      <4>5. CASE CloseLateConnection(c)
        BY <4>5 DEF CloseLateConnection, Accounted
      <4> QED BY <3>4, <4>3, <4>4, <4>5
    <3>5. CASE CloseRejected(c)
      BY <3>5 DEF CloseRejected, Accounted
    <3>6. CASE \/ LookUp(c) \/ LockSetup(c) \/ LookUpAgain(c)
               \/ PreConnectHooksPass(c) \/ PreConnectHooksFail(c) \/ ConnectFails(c)
               \/ PostConnectHooksPass(c) \/ PostConnectHooksFail(c)
      <4>1. /\ c \in opened /\ UNCHANGED <<late, closed>>
            /\ pc[c] \in {"postRun", "postSettle", "reject", "insert"} =>
                 pc'[c] \in {"postRun", "postSettle", "reject", "insert"}
        BY <2>3, <3>6 DEF LookUp, LockSetup, LookUpAgain, PreConnectHooksPass,
           PreConnectHooksFail, ConnectFails, PostConnectHooksPass, PostConnectHooksFail
      <4> QED BY <3>1, <4>1 DEF Accounted
    <3> QED BY <1>1, <3>2, <3>3, <3>4, <3>5, <3>6 DEF CallStep
  <2> QED BY <2>2, <2>3
<1>2. ASSUME NEW d \in Teardowns, StartDisconnect(d) \/ DisconnectStep(d)
      PROVE  \A c \in opened' : Accounted(c)'
  <2>1. UNCHANGED connVars
    BY <1>2 DEF StartDisconnect, DisconnectStep, LockTeardown, Drain, Prompt, Register,
       ClearProcesses, PreDisconnectHooks, TakeKeys, DispatchShutdown, SessionsShut,
       PostDisconnectHooks, FinishDisconnect
  <2>2. \A c \in Calls : pc'[c] = pc[c]
    BY <1>2 DEF StartDisconnect, DisconnectStep, LockTeardown, Drain, Prompt, Register,
       ClearProcesses, PreDisconnectHooks, TakeKeys, DispatchShutdown, SessionsShut,
       PostDisconnectHooks, FinishDisconnect, Finish, NextKey
  <2> QED BY <2>1, <2>2, <1>0
<1>3. ASSUME NEW t \in Tasks, HookStartsProcess(t) \/ HooksReturn(t)
      PROVE  \A c \in opened' : Accounted(c)'
  <2>1. /\ UNCHANGED connVars
        /\ \A c \in Calls : pc'[c] = pc[c] \/ (pc[c] = "postRun" /\ pc'[c] = "postSettle")
                                           \/ (pc[c] = "preRun" /\ pc'[c] = "preSettle")
    BY <1>3 DEF HookStartsProcess, HooksReturn, Running
  <2> SUFFICES ASSUME NEW c \in opened PROVE Accounted(c)'
    BY <2>1
  <2>2. Accounted(c) /\ c \in Calls
    BY <1>x
  <2>3. CASE Somewhere(c)
    BY <2>3, SomewhereStep DEF Accounted
  <2>4. CASE ~Somewhere(c)
    BY <2>1, <2>2, <2>4 DEF Accounted
  <2> QED BY <2>3, <2>4
<1>4. CASE BeginShutdown \/ AddProcessIds \/ Expire \/ TimeOut \/ Cleanup
           \/ \E p \in Profiles : NextProfile(p)
  <2>1. UNCHANGED connVars /\ \A c \in Calls : pc'[c] = pc[c]
    BY <1>4 DEF BeginShutdown, AddProcessIds, Expire, TimeOut, Cleanup, Overdue, CleanupDrain,
       CleanupRegister, CleanupTake, CleanupDispatch, CleanupProcesses, SweepTake, SweepDispatch,
       SweepProcesses, NextProfile
  <2> QED BY <2>1, <1>0
<1>5. CASE UNCHANGED vars
  BY <1>5, <1>0 DEF vars
<1> QED BY <1>1, <1>2, <1>3, <1>4, <1>5 DEF Next

\* Every step leaves each registered connection with a claimant.
LEMMA ClaimantStep ==
    ASSUME TypeOK, MainPhase, Placed, TypeOK', ShutdownHasClaimant, [Next]_vars
    PROVE  ShutdownHasClaimant'
<1> USE Basics DEF connVars, endVars, pendVars, Only
<1> DEFINE Main0 == phase = "draining" /\ pc[Main] \notin {"sweepDispatch", "sweepLast"}
<1>x. phase \in {"serving", "draining", "done"}
  BY DEF TypeOK
<1>r. \A c : c \in Registered <=> \E k \in Keys : c \in registry[k]
  BY DEF Registered
\* The registry only shrinks, what a disconnect will claim it still will, and
\* disconnect_all does not get to its sweep.
<1>0. ASSUME Registered' \subseteq Registered, Main0 => Main0',
             \A d \in Discs : pc[d] \in Claiming =>
                \A c \in drained[d] : pc'[d] \in Claiming /\ c \in drained'[d]
      PROVE  ShutdownHasClaimant'
  BY <1>0 DEF ShutdownHasClaimant, Claiming
<1>1. ASSUME NEW c \in Calls, QuietCall(c) \/ Insert(c) PROVE ShutdownHasClaimant'
  <2>1. UNCHANGED <<registry, drained, phase>> /\ \A d \in Teardowns : pc'[d] = pc[d]
    BY <1>1 DEF QuietCall, Insert, Goto
  <2> QED BY <1>0, <2>1 DEF Registered
<1>2. ASSUME NEW d \in Teardowns, QuietTeardown(d) PROVE ShutdownHasClaimant'
  <2>1. UNCHANGED <<registry, drained, phase>> /\ \A e \in Teardowns \ {d} : pc'[e] = pc[e]
    BY <1>2 DEF QuietTeardown
  <2>2. pc'[d] \notin {"sweepDispatch", "sweepLast"} /\ (pc[d] \in Claiming => pc'[d] \in Claiming)
    BY <1>2 DEF QuietTeardown, Dispatching
  <2> QED BY <1>0, <2>1, <2>2 DEF Registered
<1>3. ASSUME NEW d \in Teardowns, Leave(d) PROVE ShutdownHasClaimant'
  <2>1. /\ UNCHANGED <<registry, phase>>
        /\ \A e \in Teardowns \ {d} : pc'[e] = pc[e] /\ drained'[e] = drained[e]
        /\ d # Main /\ pc[d] \in Claiming => drained[d] = {}
    BY <1>3 DEF Leave
  <2>2. pc'[d] \notin {"sweepDispatch", "sweepLast"}
    BY <1>3 DEF Leave, Dispatching
  <2> QED BY <1>0, <2>1, <2>2 DEF Registered
<1>4. ASSUME NEW d \in Teardowns, CacheToHand(d) PROVE ShutdownHasClaimant'
  <2>1. /\ UNCHANGED <<registry, phase>>
        /\ \A e \in Teardowns \ {d} : pc'[e] = pc[e] /\ drained'[e] = drained[e]
        /\ pc[d] \notin Claiming /\ pc'[d] \notin {"sweepDispatch", "sweepLast"}
    BY <1>4 DEF CacheToHand, TakeCached, Claiming
  <2> QED BY <1>0, <2>1 DEF Registered
<1>5. ASSUME NEW d \in Teardowns, HandToRegistry(d) PROVE ShutdownHasClaimant'
  <2>1. /\ phase' = phase
        /\ \A e \in Teardowns \ {d} : pc'[e] = pc[e] /\ drained'[e] = drained[e]
        /\ pc[d] \notin Claiming /\ pc'[d] \notin {"sweepDispatch", "sweepLast"}
    BY <1>5 DEF HandToRegistry, Claiming
  <2>2. CASE d = Main
    <3>1. phase = "draining"
      BY <1>5, <1>x, <2>2 DEF HandToRegistry, MainPhase
    <3> QED BY <2>1, <2>2, <3>1 DEF ShutdownHasClaimant
  <2>3. CASE d # Main
    <3>1. d \in Discs /\ pc'[d] \in Claiming /\ drained' = drained /\ pc'[Main] = pc[Main]
      BY <1>5, <2>1, <2>3 DEF HandToRegistry, Claiming
    <3>2. \A c \in Registered' : c \in Registered \/ c \in drained[d]
      BY <1>5 DEF HandToRegistry, Publish, Registered
    <3>3. ASSUME NEW c \in Registered'
          PROVE  \/ phase' = "draining" /\ pc'[Main] \notin {"sweepDispatch", "sweepLast"}
                 \/ \E e \in Discs : c \in drained'[e] /\ pc'[e] \in Claiming
      BY <2>1, <3>1, <3>2, <3>3 DEF ShutdownHasClaimant, Claiming
    <3> QED BY <3>3 DEF ShutdownHasClaimant, Claiming
  <2> QED BY <2>2, <2>3
<1>6. ASSUME NEW d \in Teardowns, NEW S \in SUBSET Keys, RegistryToHand(d, S)
      PROVE  ShutdownHasClaimant'
  <2>1. /\ UNCHANGED <<phase, drained>>
        /\ \A e \in Teardowns \ {d} : pc'[e] = pc[e]
        /\ \A k \in Keys : registry'[k] = IF k \in S THEN {} ELSE registry[k]
    BY <1>6 DEF RegistryToHand, TakeEntries
  <2>2. Registered' \subseteq Registered
    BY <2>1 DEF Registered
  <2>3. CASE pc[d] = "take"
    <3>1. S = RetiredKeys(d) /\ pc'[d] = "dispatch"
      BY <1>6, <2>3 DEF RegistryToHand
    <3>2. ASSUME NEW c \in Registered' PROVE c \notin drained[d]
      <4>1. PICK k \in Keys : c \in registry'[k]
        BY <3>2 DEF Registered
      <4>2. k \notin S /\ c \in registry[k]
        BY <2>1, <4>1
      <4>3. key[c] = k
        BY <4>2 DEF Placed
      <4> QED BY <3>1, <4>2, <4>3 DEF RetiredKeys
    <3>3. pc'[Main] = pc[Main] \/ pc'[Main] = "dispatch"
      BY <2>1, <3>1
    <3>4. ASSUME NEW c \in Registered'
          PROVE  \/ phase' = "draining" /\ pc'[Main] \notin {"sweepDispatch", "sweepLast"}
                 \/ \E e \in Discs : c \in drained'[e] /\ pc'[e] \in Claiming
      BY <2>1, <2>2, <3>2, <3>3, <3>4 DEF ShutdownHasClaimant, Claiming
    <3> QED BY <3>4 DEF ShutdownHasClaimant, Claiming
  <2>4. CASE pc[d] = "cleanTake"
    <3>1. d = Main /\ pc'[d] = "cleanDispatch"
      BY <1>6, <2>4 DEF RegistryToHand
    <3> QED BY <1>0, <2>1, <2>2, <3>1
  <2>5. CASE pc[d] = "next"
    <3>1. S = Keys
      BY <1>6, <2>5 DEF RegistryToHand
    <3>2. Registered' = {}
      BY <2>1, <3>1 DEF Registered
    <3> QED BY <3>2 DEF ShutdownHasClaimant
  <2> QED BY <1>6, <2>3, <2>4, <2>5 DEF RegistryToHand
<1>7. ASSUME NEW d \in Teardowns, HandToShut(d) PROVE ShutdownHasClaimant'
  <2>1. /\ UNCHANGED <<registry, phase, drained>>
        /\ \A e \in Teardowns \ {d} : pc'[e] = pc[e]
        /\ pc[d] \notin Claiming
        /\ pc'[d] \in {"sweepDispatch", "sweepLast"} => pc[d] \in {"sweepDispatch", "sweepLast"}
    BY <1>7 DEF HandToShut, Dispatch, Claiming
  <2> QED BY <1>0, <2>1 DEF Registered
<1>8. CASE BeginShutdown \/ AddProcessIds \/ Expire \/ (\E p \in Profiles : NextProfile(p))
           \/ UNCHANGED vars
  <2>1. /\ UNCHANGED <<registry, drained>> /\ \A d \in Discs : pc'[d] = pc[d]
        /\ Main0 => Main0'
    BY <1>8 DEF BeginShutdown, AddProcessIds, Expire, NextProfile, vars, Goto, At
  <2> QED BY <1>0, <2>1 DEF Registered
<1>9. CASE SweepProcesses
  <2>1. /\ UNCHANGED <<registry, drained>> /\ \A d \in Discs : pc'[d] = pc[d]
        /\ pc[Main] = "sweepLast"
    BY <1>9 DEF SweepProcesses, Goto, At
  <2> QED BY <1>0, <2>1 DEF Registered
<1> QED
  BY <1>1, <1>2, <1>3, <1>4, <1>5, <1>6, <1>7, <1>8, <1>9, StepKinds

(***************************************************************************)
(* The end of the server                                                   *)
(***************************************************************************)
\* What disconnect_all has still to empty the cache of.
Reaches(k) ==
    \/ ProfileOf[k] \in todo
    \/ ProfileOf[k] = profile[Main] /\ pc[Main] \in Reaching

\* A connection disconnect_all owes a session shutdown is in its reach.
Reached(c) ==
    \/ c \in shut \union Registered
    \/ \E d \in Teardowns : c \in InHand(d)
    \/ \E k \in Keys : cache[k] = c /\ Reaches(k)

BeforeSweep == phase = "draining" /\ pc[Main] \notin {"sweepDispatch", "sweepLast"}

\* Every step keeps what disconnect_all owes in its reach.
LEMMA EndStep ==
    ASSUME TypeOK, TypeOK', MainPhase, SetupExclusive, Placed, Placed', EndInv, [Next]_vars
    PROVE  EndInv'
<1> USE Basics DEF connVars, endVars, pendVars, Only
<1>e. /\ BeforeSweep => \A c \in atEnd : Reached(c)
      /\ (BeforeSweep' => \A c \in atEnd' : Reached(c)') => EndInv'
  BY DEF EndInv, BeforeSweep, Reached, Reaches, Reaching
\* What was reached past the cache still is.
<1>p. ASSUME NEW c, c \in shut \union Registered \/ \E d \in Teardowns : c \in InHand(d)
      PROVE  Reached(c)'
  <2>1. CASE Stay
    BY <1>p, <2>1 DEF Stay, Reached
  <2>2. ASSUME NEW b \in Calls, Arrive(b) PROVE Reached(c)'
    BY <1>p, <2>2 DEF Arrive, Reached
  <2>3. ASSUME NEW d \in Teardowns, MoveOn(d) PROVE Reached(c)'
    BY <1>p, <2>3 DEF MoveOn, Reached
  <2> QED BY <2>1, <2>2, <2>3, Moves
\* What is reached in the cache stays there, or goes to the hands of one.
<1>0. ASSUME UNCHANGED atEnd, BeforeSweep' => BeforeSweep,
             \A k \in Keys : cache[k] # Nobody => cache'[k] = cache[k],
             \A k \in Keys : Reaches(k) => Reaches(k)'
      PROVE  EndInv'
  <2> SUFFICES ASSUME BeforeSweep, NEW c \in atEnd PROVE Reached(c)'
    BY <1>0, <1>e
  <2>1. Reached(c)
    BY <1>e
  <2>2. ASSUME NEW k \in Keys, cache[k] = c, Reaches(k) PROVE Reached(c)'
    BY <1>0, <2>2 DEF Reached
  <2> QED BY <1>p, <2>1, <2>2 DEF Reached
<1>1. ASSUME NEW c \in Calls, QuietCall(c) \/ Insert(c) PROVE EndInv'
  <2>1. UNCHANGED <<profile, endVars>> /\ pc'[Main] = pc[Main]
    BY <1>1 DEF QuietCall, Insert, Goto
  <2>2. \A k \in Keys : cache[k] # Nobody => cache'[k] = cache[k]
    BY <1>1 DEF QuietCall, Insert
  <2> QED BY <1>0, <2>1, <2>2 DEF BeforeSweep, Reaches
<1>2. ASSUME NEW d \in Teardowns, QuietTeardown(d) \/ Leave(d) PROVE EndInv'
  <2>1. /\ UNCHANGED <<cache, profile, endVars>>
        /\ pc[Main] \in Reaching => pc'[Main] \in Reaching
        /\ pc[Main] \in {"sweepDispatch", "sweepLast"} =>
              pc'[Main] \in {"sweepDispatch", "sweepLast"}
    BY <1>2 DEF QuietTeardown, Leave, Dispatching
  <2> QED BY <1>0, <2>1 DEF BeforeSweep, Reaches
<1>3. ASSUME NEW d \in Teardowns, CacheToHand(d) PROVE EndInv'
  <2>1. /\ UNCHANGED <<profile, endVars>>
        /\ \A e \in Teardowns \ {d} : pc'[e] = pc[e]
        /\ pc[d] \notin {"sweepDispatch", "sweepLast"}
        /\ pc'[d] \in Holding /\ drained'[d] = CachedOf(profile[d])
        /\ \A k \in Keys : cache'[k] = IF ProfileOf[k] = profile[d] THEN Nobody ELSE cache[k]
    BY <1>3 DEF CacheToHand, TakeCached, Holding
  <2> SUFFICES ASSUME BeforeSweep, NEW c \in atEnd PROVE Reached(c)'
    BY <1>e, <2>1 DEF BeforeSweep
  <2>2. Reached(c)
    BY <1>e
  <2>3. ASSUME NEW k \in Keys, cache[k] = c, Reaches(k) PROVE Reached(c)'
    <3>1. CASE ProfileOf[k] = profile[d]
      <4>1. c \in CachedOf(profile[d])
        BY <2>3, <3>1 DEF CachedOf, KeysOf
      <4>2. c \in InHand(d)'
        BY <2>1, <4>1 DEF InHand, Holding
      <4> QED BY <4>2 DEF Reached
    <3>2. CASE ProfileOf[k] # profile[d]
      <4>1. cache'[k] = c
        BY <2>1, <2>3, <3>2
      <4>2. Reaches(k)'
        BY <2>1, <2>3, <3>2 DEF Reaches
      <4> QED BY <4>1, <4>2 DEF Reached
    <3> QED BY <3>1, <3>2
  <2> QED BY <1>p, <2>2, <2>3 DEF Reached
<1>4. ASSUME NEW d \in Teardowns,
             \/ HandToRegistry(d) \/ HandToShut(d)
             \/ \E S \in SUBSET Keys : RegistryToHand(d, S)
      PROVE  EndInv'
  <2>1. /\ UNCHANGED <<cache, profile, endVars>>
        /\ \A e \in Teardowns \ {d} : pc'[e] = pc[e]
        /\ pc[d] \notin Reaching
        /\ pc[d] \in {"sweepDispatch", "sweepLast"} => pc'[d] \in {"sweepDispatch", "sweepLast"}
    BY <1>4 DEF HandToRegistry, HandToShut, RegistryToHand, Reaching
  <2> QED BY <1>0, <2>1 DEF BeforeSweep, Reaches
<1>5. CASE BeginShutdown
  <2>1. /\ todo' = {p \in Profiles : \E k \in KeysOf(p) : cache[k] # Nobody}
        /\ UNCHANGED <<cache, registry>> /\ atEnd' = Cached \union Registered
    BY <1>5 DEF BeginShutdown
  <2>2. ASSUME NEW c \in atEnd' PROVE Reached(c)'
    <3>1. CASE c \in Registered
      BY <2>1, <3>1 DEF Reached, Registered
    <3>2. CASE c \in Cached
      <4>1. PICK k \in Keys : cache[k] = c
        BY <3>2 DEF Cached
      <4>2. c # Nobody
        BY <3>2 DEF Cached
      <4>3. ProfileOf[k] \in todo'
        BY <2>1, <4>1, <4>2 DEF KeysOf
      <4> QED BY <2>1, <4>1, <4>3 DEF Reached, Reaches
    <3> QED BY <2>1, <2>2, <3>1, <3>2
  <2> QED BY <1>e, <2>2
<1>6. CASE AddProcessIds \/ Expire \/ UNCHANGED vars
  <2>1. /\ UNCHANGED <<cache, profile, atEnd, phase>> /\ todo \subseteq todo'
        /\ \/ UNCHANGED pc
           \/ pc[Main] = "ids" /\ pc'[Main] = "next"
    BY <1>6 DEF AddProcessIds, Expire, vars, Goto, At
  <2> QED BY <1>0, <2>1 DEF BeforeSweep, Reaches, Reaching
<1>7. ASSUME NEW p \in Profiles, NextProfile(p) PROVE EndInv'
  <2>1. /\ UNCHANGED <<cache, atEnd, phase>>
        /\ todo' = todo \ {p} /\ profile'[Main] = p
        /\ pc[Main] = "next" /\ pc'[Main] \in Reaching
    BY <1>7 DEF NextProfile, Goto, At, Reaching
  <2> QED BY <1>0, <2>1 DEF BeforeSweep, Reaches, Reaching
<1>8. CASE SweepProcesses
  <2>1. phase' = "done"
    BY <1>8 DEF SweepProcesses
  <2> QED BY <1>e, <2>1 DEF BeforeSweep
<1> QED BY <1>1, <1>2, <1>3, <1>4, <1>5, <1>6, <1>7, <1>8, StepKinds

(***************************************************************************)
(* Detached hook processes                                                 *)
(***************************************************************************)
\* Every step keeps the hooks of a disconnect to the keys of what it drained.
LEMMA HookKeysStep ==
    ASSUME TypeOK, MainPhase, Placed, HookKeys, [Next]_vars
    PROVE  HookKeys'
<1> USE Basics DEF connVars, endVars, pendVars, Goto, At, HookSteps
<1> DEFINE Fine(d) == /\ left[d] \subseteq KeysOf(profile[d])
                      /\ pc[d] \in HookSteps <=> left[d] # {}
                      /\ pc[d] \in HookSteps \union {"take", "dispatch", "shutting"} => drained[d] # {}
<1>f. (\A d \in Teardowns : Fine(d)) /\ ((\A d \in Teardowns : Fine(d)') => HookKeys')
  BY DEF HookKeys, KeysOf
<1>k. ASSUME NEW d \in Teardowns
      PROVE  RetiredKeys(d) \subseteq KeysOf(profile[d]) /\ (drained[d] # {} => RetiredKeys(d) # {})
  BY DEF RetiredKeys, KeysOf, Placed
<1>o. ASSUME NEW d \in Teardowns, profile'[d] = profile[d], left'[d] = left[d], drained'[d] = drained[d],
             pc'[d] = pc[d]
      PROVE  Fine(d)'
  BY <1>f, <1>o DEF KeysOf
\* Another task moves.
<1>0. ASSUME NEW d \in Teardowns, Only(d),
             \A e \in Teardowns \ {d} :
                profile'[e] = profile[e] /\ left'[e] = left[e] /\ drained'[e] = drained[e],
             Fine(d)'
      PROVE  HookKeys'
  <2>1. \A e \in Teardowns \ {d} : Fine(e)'
    BY <1>0, <1>o DEF Only
  <2> QED BY <1>0, <1>f, <2>1
<1>1. ASSUME NEW c \in Calls, CallStep(c) PROVE HookKeys'
  <2>1. UNCHANGED <<profile, left, drained>> /\ \A d \in Teardowns : pc'[d] = pc[d]
    BY <1>1 DEF CallStep, LookUp, LockSetup, LookUpAgain, PreConnectHooksPass,
       PreConnectHooksFail, ConnectFails, DriverConnects, DriverTimesOut, LateArrives,
       CloseLateConnection, PostConnectHooksPass, PostConnectHooksFail, CloseRejected, Insert
  <2> QED BY <1>f, <1>o, <2>1
<1>2. ASSUME NEW d \in Teardowns, StartDisconnect(d) \/ LockTeardown(d) \/ DispatchShutdown(d)
                                  \/ TakeKeys(d) \/ Register(d)
      PROVE  HookKeys'
  <2>1. /\ UNCHANGED <<profile, left, drained>> /\ Only(d)
        /\ pc[d] \notin HookSteps /\ pc'[d] \notin HookSteps
        /\ pc'[d] \in {"take", "dispatch", "shutting"} => pc[d] \in {"take", "dispatch", "shutting"}
    BY <1>2 DEF StartDisconnect, LockTeardown, DispatchShutdown, TakeKeys, Register, Only
  <2>2. Fine(d)'
    BY <1>f, <2>1 DEF KeysOf
  <2> QED BY <1>0, <2>1, <2>2
<1>3. ASSUME NEW d \in Teardowns, Drain(d) PROVE HookKeys'
  <2>1. /\ UNCHANGED <<profile, left>> /\ Only(d)
        /\ pc[d] = "drain" /\ pc'[d] = "register"
        /\ \A e \in Teardowns \ {d} : drained'[e] = drained[e]
    BY <1>3 DEF Drain, TakeCached, Only
  <2>2. Fine(d)'
    BY <1>f, <2>1 DEF KeysOf
  <2> QED BY <1>0, <2>1, <2>2
<1>4. ASSUME NEW d \in Teardowns, ClearProcesses(d) PROVE HookKeys'
  <2>1. CASE drained[d] = {}
    <3>1. /\ UNCHANGED <<profile, left>> /\ Only(d) /\ pc[d] = "clear" /\ pc'[d] \in {"next", "done"}
          /\ \A e \in Teardowns \ {d} : drained'[e] = drained[e]
      BY <1>4, <2>1 DEF ClearProcesses, Finish, Only
    <3>2. Fine(d)'
      BY <1>f, <3>1 DEF KeysOf
    <3> QED BY <1>0, <3>1, <3>2
  <2>2. CASE drained[d] # {}
    <3>1. /\ UNCHANGED <<profile, drained>> /\ Only(d) /\ pc'[d] = "preRun"
          /\ \A e \in Teardowns \ {d} : left'[e] = left[e]
          /\ left'[d] = RetiredKeys(d)
      BY <1>4, <2>2 DEF ClearProcesses, Only
    <3>2. Fine(d)'
      BY <1>k, <2>2, <3>1 DEF KeysOf
    <3> QED BY <1>0, <3>1, <3>2
  <2> QED BY <2>1, <2>2
<1>5. ASSUME NEW d \in Teardowns, SessionsShut(d) PROVE HookKeys'
  <2>1. /\ UNCHANGED <<profile, drained>> /\ Only(d) /\ pc[d] = "shutting" /\ pc'[d] = "postRun"
        /\ \A e \in Teardowns \ {d} : left'[e] = left[e]
        /\ left'[d] = RetiredKeys(d)
    BY <1>5 DEF SessionsShut, Only
  <2>2. Fine(d)'
    BY <1>f, <1>k, <2>1 DEF KeysOf
  <2> QED BY <1>0, <2>1, <2>2
<1>6. ASSUME NEW d \in Teardowns, PreDisconnectHooks(d) \/ PostDisconnectHooks(d) PROVE HookKeys'
  <2>1. /\ UNCHANGED <<profile, drained>> /\ Only(d)
        /\ \A e \in Teardowns \ {d} : left'[e] = left[e]
        /\ left'[d] = left[d] \ {HookKey(d)}
        /\ pc[d] \in HookSteps
    BY <1>6 DEF PreDisconnectHooks, PostDisconnectHooks, NextKey, Only
  <2>2. IF left[d] = {HookKey(d)} THEN pc'[d] \in {"take", "last"} ELSE pc'[d] \in HookSteps
    BY <1>6 DEF PreDisconnectHooks, PostDisconnectHooks, NextKey
  <2>3. HookKey(d) \in left[d]
    BY <2>1, HookKeyType
  <2>4. left'[d] # {} <=> left[d] # {HookKey(d)}
    BY <2>1, <2>3
  <2>5. Fine(d)'
    BY <1>f, <2>1, <2>2, <2>4 DEF KeysOf
  <2> QED BY <1>0, <2>1, <2>5
<1>7. ASSUME NEW d \in Teardowns, FinishDisconnect(d) PROVE HookKeys'
  <2>1. /\ UNCHANGED <<profile, left>> /\ Only(d) /\ pc[d] = "last" /\ pc'[d] \in {"next", "done"}
        /\ \A e \in Teardowns \ {d} : drained'[e] = drained[e]
    BY <1>7 DEF FinishDisconnect, Finish, Only
  <2>2. Fine(d)'
    BY <1>f, <2>1 DEF KeysOf
  <2> QED BY <1>0, <2>1, <2>2
<1>8. ASSUME NEW t \in Tasks, HookStartsProcess(t) \/ HooksReturn(t) PROVE HookKeys'
  <2>1. /\ UNCHANGED <<profile, left, drained>>
        /\ \A d \in Teardowns : pc'[d] = pc[d] \/ (pc[d] \in HookSteps /\ pc'[d] \in HookSteps)
    BY <1>8 DEF HookStartsProcess, HooksReturn, Running
  <2>2. \A d \in Teardowns : Fine(d)'
    BY <1>f, <2>1 DEF KeysOf
  <2> QED BY <1>f, <2>2
<1>9. CASE TimeOut
  <2>1. /\ UNCHANGED profile /\ Only(Main) /\ pc'[Main] = "overdue" /\ left'[Main] = {}
        /\ \A e \in Teardowns \ {Main} : drained'[e] = drained[e] /\ left'[e] = left[e]
    BY <1>9 DEF TimeOut, Only
  <2>2. Fine(Main)'
    BY <2>1 DEF KeysOf
  <2> QED BY <1>0, <2>1, <2>2
<1>10. CASE BeginShutdown \/ AddProcessIds \/ Expire \/ Cleanup \/ \E p \in Profiles : NextProfile(p)
  <2>1. /\ UNCHANGED left /\ Only(Main)
        /\ \A e \in Teardowns \ {Main} : drained'[e] = drained[e] /\ profile'[e] = profile[e]
    BY <1>10 DEF BeginShutdown, AddProcessIds, Expire, Cleanup, Overdue, CleanupDrain, TakeCached,
       CleanupRegister, CleanupTake, CleanupDispatch, CleanupProcesses, SweepTake, SweepDispatch,
       SweepProcesses, NextProfile, Only
  <2>2. \/ UNCHANGED <<pc, profile, drained>>
        \/ /\ pc[Main] \notin HookSteps
           /\ pc'[Main] \notin HookSteps \union {"take", "dispatch", "shutting"}
    BY <1>10 DEF BeginShutdown, MainPhase, AddProcessIds, Expire, Cleanup, Overdue, CleanupDrain,
       CleanupRegister, CleanupTake, CleanupDispatch, CleanupProcesses, SweepTake, SweepDispatch,
       SweepProcesses, NextProfile
  <2>3. Fine(Main)'
    BY <1>f, <2>1, <2>2 DEF KeysOf
  <2> QED BY <1>0, <2>1, <2>3
<1>11. CASE UNCHANGED vars
  BY <1>11, <1>f, <1>o DEF vars
<1> QED
  BY <1>1, <1>2, <1>3, <1>4, <1>5, <1>6, <1>7, <1>8, <1>9, <1>10, <1>11 DEF Next, DisconnectStep, Prompt

\* Who may own the processes registered under a key.
OwnerCall(c, k) == key[c] = k /\ pc[c] \in (Connecting \ {"preRun"}) \union {"reject"}
OwnerTeardown(d, k) == ProfileOf[k] = profile[d] /\ pc[d] \in PastDrain \union CleanSteps
Owned(k) ==
    \/ cache[k] # Nobody
    \/ \E c \in Calls : OwnerCall(c, k)
    \/ \E d \in Teardowns : OwnerTeardown(d, k)

\* Who may hold the handle of a process that is not registered.
Held(k) == \E t \in Tasks : pc[t] \in Running /\ HookKey(t) = k

\* No process that matters appears under k.
NoNew(k) == \A s \in {"started", "running", "adrift"} : s \in procs'[k] => s \in procs[k]

\* What the helpers do to the processes of a key.
LEMMA ProcessEffects ==
    ASSUME TypeOK
    PROVE  /\ \A S, L : Reclaim(S, L) =>
                 \A k \in Keys : /\ NoNew(k)
                                 /\ k \in S /\ "started" \in L => "started" \notin procs'[k]
                                 /\ k \in S /\ "running" \in L => "running" \notin procs'[k]
           /\ \A S : Terminate(S) =>
                 \A k \in Keys : NoNew(k) /\ (k \in S => "running" \notin procs'[k])
           /\ \A j \in Keys : SupervisionFails(j) =>
                 /\ \A k \in Keys : NoNew(k)
                 /\ "started" \notin procs'[j] /\ "running" \notin procs'[j]
           /\ \A j \in Keys : FailsEarly(j) =>
                 (\A k \in Keys : NoNew(k)) /\ "started" \notin procs'[j]
           /\ \A j \in Keys : FailsLate(j) =>
                 (\A k \in Keys : NoNew(k)) /\ "running" \notin procs'[j]
<1> USE Basics
<1>1. ASSUME NEW S, NEW L, Reclaim(S, L), NEW k \in Keys
      PROVE  /\ NoNew(k)
             /\ k \in S /\ "started" \in L => "started" \notin procs'[k]
             /\ k \in S /\ "running" \in L => "running" \notin procs'[k]
  <2>1. PICK F \in SUBSET S :
          procs' = [j \in Keys |->
                      IF j \notin S \/ procs[j] \intersect L = {} THEN procs[j]
                      ELSE (procs[j] \ L) \union (IF j \in F THEN {"stuck"} ELSE {})]
    BY <1>1 DEF Reclaim
  <2>2. \/ procs'[k] = procs[k] /\ (k \notin S \/ procs[k] \intersect L = {})
        \/ procs'[k] \subseteq (procs[k] \ L) \union {"stuck"}
    BY <2>1
  <2> QED BY <2>2 DEF NoNew
<1>2. ASSUME NEW j \in Keys, SupervisionFails(j)
      PROVE  /\ \A k \in Keys : NoNew(k)
             /\ "started" \notin procs'[j] /\ "running" \notin procs'[j]
  <2>1. PICK F \in SUBSET {"stuck"} :
          procs' = [procs EXCEPT ![j] = (procs[j] \ ({"started"} \union InRegistry))
                                          \union F \union {"unsupervised"}]
    BY <1>2 DEF SupervisionFails
  <2>2. procs'[j] = (procs[j] \ ({"started"} \union InRegistry)) \union F \union {"unsupervised"}
    BY <2>1
  <2>3. "started" \notin procs'[j] /\ "running" \notin procs'[j] /\ NoNew(j)
    BY <2>2 DEF InRegistry, NoNew
  <2>4. \A k \in Keys \ {j} : procs'[k] = procs[k]
    BY <2>1
  <2> QED BY <2>3, <2>4 DEF NoNew
<1>3. \A S : Terminate(S) => \A k \in Keys : NoNew(k) /\ (k \in S => "running" \notin procs'[k])
  BY <1>1 DEF Terminate, InRegistry
<1>4. \A j \in Keys : FailsEarly(j) => (\A k \in Keys : NoNew(k)) /\ "started" \notin procs'[j]
  <2>1. ASSUME NEW j \in Keys, Reclaim({j}, {"started"})
        PROVE  (\A k \in Keys : NoNew(k)) /\ "started" \notin procs'[j]
    BY <1>1, <2>1
  <2> QED BY <1>2, <2>1 DEF FailsEarly
<1>5. \A j \in Keys : FailsLate(j) => (\A k \in Keys : NoNew(k)) /\ "running" \notin procs'[j]
  BY <1>3 DEF FailsLate
<1> QED BY <1>1, <1>2, <1>3, <1>4, <1>5

\* Every step leaves a process with its owner.
LEMMA ProcessesStep ==
    ASSUME TypeOK, TypeOK', MainPhase, HookKeys, ProcessesOwned, [Next]_vars
    PROVE  ProcessesOwned'
<1> USE Basics DEF connVars, endVars, pendVars
<1> DEFINE Fine(k) == /\ "started" \in procs[k] => Held(k)
                      /\ "running" \in procs[k] => Owned(k)
                      /\ "adrift" \in procs[k] => expired
<1>e. (\A k \in Keys : Fine(k)) /\ ((\A k \in Keys : Fine(k)') => ProcessesOwned')
  BY DEF ProcessesOwned, Held, Owned, OwnerCall, OwnerTeardown
<1> HIDE DEF Fine
\* A phase that does not end keeps its handles.
<1>h. ASSUME NEW t \in Tasks, Only(t), UNCHANGED key,
             \A d \in Teardowns \ {t} : left'[d] = left[d],
             NEW k \in Keys, "started" \in procs[k],
             pc[t] \in Running => HookKey(t) # k
      PROVE  Held(k)'
  <2>1. PICK u \in Tasks : pc[u] \in Running /\ HookKey(u) = k
    BY <1>e, <1>h DEF Fine, Held
  <2>2. u # t
    BY <1>h, <2>1
  <2>3. pc'[u] = pc[u] /\ key' = key /\ (u \in Teardowns => left'[u] = left[u])
    BY <1>h, <2>2 DEF Only
  <2>4. HookKey(u)' = HookKey(u)
    <3>1. CASE u \in Calls
      BY <2>3, <3>1 DEF HookKey
    <3>2. CASE u \notin Calls
      <4>1. u \in Teardowns
        BY <3>2
      <4>2. left'[u] = left[u]
        BY <2>3, <4>1
      <4>3. HookKey(u) = CHOOSE j \in left[u] : TRUE
        BY <3>2 DEF HookKey
      <4>4. HookKey(u)' = CHOOSE j \in left'[u] : TRUE
        BY <3>2 DEF HookKey
      <4> QED BY <4>2, <4>3, <4>4, Zenon
    <3> QED BY <3>1, <3>2
  <2> QED BY <2>1, <2>3, <2>4 DEF Held
\* Owners other than the one that moves stay.
<1>o. ASSUME NEW t \in Tasks, Only(t), UNCHANGED key,
             \A d \in Teardowns \ {t} : profile'[d] = profile[d],
             NEW k \in Keys, "running" \in procs[k],
             cache[k] # Nobody => cache'[k] # Nobody,
             t \in Calls => ~OwnerCall(t, k), t \in Teardowns => ~OwnerTeardown(t, k)
      PROVE  Owned(k)'
  <2>1. Owned(k)
    BY <1>e, <1>o DEF Fine
  <2>2. ASSUME NEW c \in Calls, OwnerCall(c, k) PROVE OwnerCall(c, k)'
    BY <1>o, <2>2 DEF OwnerCall, Only
  <2>3. ASSUME NEW d \in Teardowns, OwnerTeardown(d, k) PROVE OwnerTeardown(d, k)'
    BY <1>o, <2>3 DEF OwnerTeardown, Only
  <2> QED BY <1>o, <2>1, <2>2, <2>3 DEF Owned
\* So a step of t that starts no process is fine if what it leaves has gone.
<1>0. ASSUME NEW t \in Tasks, Only(t), UNCHANGED key,
             \A d \in Teardowns \ {t} : left'[d] = left[d] /\ profile'[d] = profile[d],
             \A k \in Keys : NoNew(k), expired => expired',
             pc[t] \in Running => "started" \notin procs'[HookKey(t)] \/ (pc'[t] = pc[t] /\ HookKey(t)' = HookKey(t)),
             \A k \in Keys : cache[k] # Nobody => cache'[k] # Nobody \/ Owned(k)',
             \A k \in Keys : t \in Calls /\ OwnerCall(t, k) => "running" \notin procs'[k] \/ Owned(k)',
             \A k \in Keys : t \in Teardowns /\ OwnerTeardown(t, k) => "running" \notin procs'[k] \/ Owned(k)'
      PROVE  ProcessesOwned'
  <2> SUFFICES ASSUME NEW k \in Keys PROVE Fine(k)'
    BY <1>e
  <2>0. Fine(k)
    BY <1>e
  <2>1. ASSUME "started" \in procs'[k] PROVE Held(k)'
    <3>1. "started" \in procs[k]
      BY <1>0, <2>1 DEF NoNew
    <3>2. CASE pc[t] \in Running /\ HookKey(t) = k
      BY <1>0, <2>1, <3>2 DEF Held
    <3> QED BY <1>0, <1>h, <3>1, <3>2
  <2>2. ASSUME "running" \in procs'[k] PROVE Owned(k)'
    <3>1. "running" \in procs[k]
      BY <1>0, <2>2 DEF NoNew
    <3> QED BY <1>0, <1>o, <2>2, <3>1
  <2>3. ASSUME "adrift" \in procs'[k] PROVE expired'
    <3>1. "adrift" \in procs[k]
      BY <1>0, <2>3 DEF NoNew
    <3> QED BY <1>0, <2>0, <3>1 DEF Fine
  <2> QED BY <2>1, <2>2, <2>3 DEF Fine
<1>n. ASSUME UNCHANGED procs PROVE \A k \in Keys : NoNew(k)
  BY <1>n DEF NoNew
<1>q. Nobody \notin Calls
  OBVIOUS
\* Steps of a call.
<1>1. ASSUME NEW c \in Calls,
             \/ LookUp(c) \/ LockSetup(c) \/ LookUpAgain(c) \/ PreConnectHooksPass(c)
             \/ DriverConnects(c) \/ LateArrives(c) \/ CloseLateConnection(c)
             \/ PostConnectHooksPass(c)
      PROVE  ProcessesOwned'
  <2>1. UNCHANGED <<key, profile, cache, left, procs, expired>> /\ Only(c)
    BY <1>1 DEF LookUp, LockSetup, LookUpAgain, PreConnectHooksPass, DriverConnects, LateArrives,
       CloseLateConnection, PostConnectHooksPass, Goto, Only
  <2>2. pc[c] \in Running => pc'[c] = pc[c]
    BY <1>1 DEF LookUp, LockSetup, LookUpAgain, PreConnectHooksPass, DriverConnects, LateArrives,
       CloseLateConnection, PostConnectHooksPass, Goto, At, Running
  <2>3. \A k \in Keys : OwnerCall(c, k) => OwnerCall(c, k)'
    BY <1>1 DEF LookUp, LockSetup, LookUpAgain, PreConnectHooksPass, DriverConnects, LateArrives,
       CloseLateConnection, PostConnectHooksPass, Goto, At, OwnerCall, Connecting
  <2>4. HookKey(c)' = HookKey(c)
    BY <2>1 DEF HookKey
  <2>5. \A k \in Keys : OwnerCall(c, k) => Owned(k)'
    BY <2>3 DEF Owned
  <2> QED BY <1>0, <1>n, <2>1, <2>2, <2>4, <2>5
<1>2. ASSUME NEW c \in Calls,
             \/ PreConnectHooksFail(c) \/ ConnectFails(c) \/ DriverTimesOut(c)
             \/ PostConnectHooksFail(c) \/ CloseRejected(c)
      PROVE  ProcessesOwned'
  <2>1. UNCHANGED <<key, profile, cache, left, expired>> /\ Only(c)
    BY <1>2 DEF PreConnectHooksFail, ConnectFails, DriverTimesOut, PostConnectHooksFail,
       CloseRejected, Goto, Only
  <2>2. \A k \in Keys : NoNew(k)
    BY <1>2, ProcessEffects DEF PreConnectHooksFail, ConnectFails, DriverTimesOut,
       PostConnectHooksFail, CloseRejected
  <2>3. pc[c] \in Running => "started" \notin procs'[HookKey(c)]
    <3>1. HookKey(c) = key[c]
      BY DEF HookKey
    <3> QED BY <1>2, <3>1, ProcessEffects DEF PreConnectHooksFail, ConnectFails, DriverTimesOut,
       PostConnectHooksFail, CloseRejected, At, Running
  <2>4. ASSUME NEW k \in Keys, OwnerCall(c, k) PROVE "running" \notin procs'[k] \/ Owned(k)'
    <3>1. k = key[c] /\ pc[c] # "preRun"
      BY <2>4 DEF OwnerCall, Connecting
    <3>2. CASE PostConnectHooksFail(c)
      <4>1. OwnerCall(c, k)'
        BY <2>1, <3>1, <3>2 DEF PostConnectHooksFail, Goto, OwnerCall
      <4> QED BY <4>1 DEF Owned
    <3>3. CASE ~PostConnectHooksFail(c)
      <4>1. Terminate({key[c]})
        BY <1>2, <3>1, <3>3 DEF PreConnectHooksFail, ConnectFails, DriverTimesOut, CloseRejected,
           At, FailsLate
      <4> QED BY <3>1, <4>1, ProcessEffects
    <3> QED BY <3>2, <3>3
  <2> QED BY <1>0, <2>1, <2>2, <2>3, <2>4
<1>3. ASSUME NEW c \in Calls, Insert(c) PROVE ProcessesOwned'
  <2>1. /\ UNCHANGED <<key, profile, left, procs, expired>> /\ Only(c) /\ pc[c] \notin Running
        /\ cache'[key[c]] # Nobody /\ \A k \in Keys : cache[k] # Nobody => cache'[k] # Nobody
    BY <1>3, <1>q DEF Insert, Goto, At, Only, Running
  <2>2. \A k \in Keys : OwnerCall(c, k) => Owned(k)'
    BY <2>1 DEF OwnerCall, Owned
  <2> QED BY <1>0, <1>n, <2>1, <2>2
\* Steps of a disconnect.
<1>4. ASSUME NEW d \in Teardowns,
             \/ StartDisconnect(d) \/ LockTeardown(d) \/ Register(d) \/ TakeKeys(d)
             \/ DispatchShutdown(d) \/ SessionsShut(d)
      PROVE  ProcessesOwned'
  <2>1. /\ UNCHANGED <<key, profile, cache, procs, expired>> /\ Only(d) /\ pc[d] \notin Running
        /\ \A e \in Teardowns \ {d} : left'[e] = left[e]
        /\ pc[d] \in PastDrain \union CleanSteps => pc'[d] \in PastDrain \union CleanSteps
    BY <1>4 DEF StartDisconnect, LockTeardown, Register, TakeKeys, DispatchShutdown, SessionsShut,
       Goto, At, Only, Running, PastDrain, CleanSteps
  <2>2. \A k \in Keys : OwnerTeardown(d, k) => Owned(k)'
    BY <2>1 DEF OwnerTeardown, Owned
  <2> QED BY <1>0, <1>n, <2>1, <2>2
<1>c. ASSUME NEW d \in Teardowns, TakeCached(d), Only(d), UNCHANGED <<key, profile, left, procs, expired>>,
             pc[d] \notin Running, pc'[d] \in PastDrain \union CleanSteps
      PROVE  ProcessesOwned'
  <2>1. \A k \in Keys : cache[k] # Nobody => cache'[k] # Nobody \/ ProfileOf[k] = profile[d]
    BY <1>c DEF TakeCached
  <2>2. \A k \in Keys : ProfileOf[k] = profile[d] => Owned(k)'
    BY <1>c DEF Owned, OwnerTeardown
  <2>3. \A k \in Keys : OwnerTeardown(d, k) => Owned(k)'
    BY <2>2 DEF OwnerTeardown
  <2> QED BY <1>0, <1>n, <1>c, <2>1, <2>2, <2>3
<1>5. ASSUME NEW d \in Teardowns, Drain(d) PROVE ProcessesOwned'
  <2>1. Only(d) /\ pc[d] \notin Running /\ pc'[d] \in PastDrain \union CleanSteps
    BY <1>5 DEF Drain, Goto, At, Only, Running, PastDrain
  <2> QED BY <1>5, <1>c, <2>1 DEF Drain
\* A teardown that is over has terminated the processes of its profile.
<1>t. ASSUME NEW d \in Teardowns, Only(d), Terminate(KeysOf(profile[d])), pc[d] \notin Running,
             UNCHANGED <<key, profile, cache, expired>>,
             \A e \in Teardowns \ {d} : left'[e] = left[e]
      PROVE  ProcessesOwned'
  <2>1. \A k \in Keys : NoNew(k) /\ (OwnerTeardown(d, k) => "running" \notin procs'[k])
    BY <1>t, ProcessEffects DEF OwnerTeardown, KeysOf
  <2> QED BY <1>0, <1>t, <2>1
<1>6. ASSUME NEW d \in Teardowns, ClearProcesses(d) \/ FinishDisconnect(d) PROVE ProcessesOwned'
  <2>1. Terminate(KeysOf(profile[d])) /\ UNCHANGED <<key, profile, cache, expired>>
    BY <1>6 DEF ClearProcesses, FinishDisconnect
  <2>2. Only(d) /\ pc[d] \notin Running
    BY <1>6 DEF ClearProcesses, FinishDisconnect, Finish, Goto, At, Only, Running
  <2>3. \A e \in Teardowns \ {d} : left'[e] = left[e]
    BY <1>6 DEF ClearProcesses, FinishDisconnect
  <2> QED BY <1>t, <2>1, <2>2, <2>3
<1>7. ASSUME NEW d \in Teardowns, PreDisconnectHooks(d) \/ PostDisconnectHooks(d)
      PROVE  ProcessesOwned'
  <2>1. /\ UNCHANGED <<key, profile, cache, expired>> /\ Only(d)
        /\ \A e \in Teardowns \ {d} : left'[e] = left[e]
        /\ pc[d] \in HookSteps /\ pc'[d] \in PastDrain
    BY <1>7 DEF PreDisconnectHooks, PostDisconnectHooks, NextKey, Goto, At, Only, HookSteps,
       PastDrain
  <2>2. HookKey(d) \in Keys
    BY <2>1, HookKeyType
  <2>3. \A k \in Keys : NoNew(k)
    BY <1>7, <1>n, <2>2, ProcessEffects DEF PreDisconnectHooks, PostDisconnectHooks
  <2>4. pc[d] \in Running => "started" \notin procs'[HookKey(d)]
    <3>1. Reclaim({HookKey(d)}, {"started"} \union InRegistry) => "started" \notin procs'[HookKey(d)]
      BY <2>2, ProcessEffects
    <3> QED BY <1>7, <2>2, <3>1, ProcessEffects DEF PreDisconnectHooks, PostDisconnectHooks, At, Running
  <2>5. \A k \in Keys : OwnerTeardown(d, k) => Owned(k)'
    BY <2>1 DEF OwnerTeardown, Owned
  <2> QED BY <1>0, <2>1, <2>3, <2>4, <2>5
\* Steps of hooks.
<1>8. ASSUME NEW t \in Tasks, HookStartsProcess(t) PROVE ProcessesOwned'
  <2>1. UNCHANGED <<pc, key, profile, cache, left, expired>> /\ pc[t] \in Running
    BY <1>8 DEF HookStartsProcess
  <2>2. HookKey(t) \in Keys
    BY <2>1, HookKeyType DEF Running, HookSteps
  <2>3. /\ \A k \in Keys \ {HookKey(t)} : procs'[k] = procs[k]
        /\ procs'[HookKey(t)] = procs[HookKey(t)] \union {"started"}
    BY <1>8, <2>2 DEF HookStartsProcess
  <2> SUFFICES ASSUME NEW k \in Keys PROVE Fine(k)'
    BY <1>e
  <2>4. \A j : (Held(j) => Held(j)') /\ (Owned(j) => Owned(j)')
    BY <2>1 DEF Held, HookKey, Owned, OwnerCall, OwnerTeardown
  <2>5. Held(HookKey(t))
    BY <2>1 DEF Held
  <2>6. "started" \in procs'[k] => Held(k)'
    BY <1>e, <2>3, <2>4, <2>5 DEF Fine
  <2>7. "running" \in procs'[k] => Owned(k)'
    BY <1>e, <2>3, <2>4 DEF Fine
  <2>8. "adrift" \in procs'[k] => expired'
    BY <1>e, <2>1, <2>3 DEF Fine
  <2> QED BY <2>6, <2>7, <2>8 DEF Fine
<1>9. ASSUME NEW t \in Tasks, HooksReturn(t) PROVE ProcessesOwned'
  <2>1. /\ UNCHANGED <<key, profile, cache, left, expired>> /\ Only(t) /\ pc[t] \in Running
        /\ pc'[t] \in {"preSettle", "postSettle"}
    BY <1>9 DEF HooksReturn, Goto, Only
  <2>2. PICK h \in Keys : h = HookKey(t) /\ (t \in Teardowns => ProfileOf[h] = profile[t])
    BY <2>1, HookKeyType DEF Running, HookSteps
  <2>3. /\ \A k \in Keys \ {h} : procs'[k] = procs[k]
        /\ procs'[h] = IF "started" \in procs[h] THEN (procs[h] \ {"started"}) \union {"running"}
                       ELSE procs[h]
    BY <1>9, <2>2 DEF HooksReturn
  <2>4. Owned(h)'
    <3>1. CASE t \in Calls
      <4>1. OwnerCall(t, h)'
        BY <2>1, <2>2, <3>1 DEF OwnerCall, Connecting, HookKey
      <4> QED BY <3>1, <4>1 DEF Owned
    <3>2. CASE t \in Teardowns
      <4>1. OwnerTeardown(t, h)'
        BY <2>1, <2>2, <3>2 DEF OwnerTeardown, PastDrain
      <4> QED BY <3>2, <4>1 DEF Owned
    <3> QED BY <3>1, <3>2
  <2>5. ASSUME NEW k \in Keys PROVE Fine(k)'
    <3>1. ASSUME "started" \in procs'[k] PROVE Held(k)'
      <4>1. "started" \in procs[k] /\ k # h
        BY <2>3, <3>1
      <4> QED BY <1>h, <2>1, <2>2, <4>1
    <3>2. ASSUME "running" \in procs'[k] PROVE Owned(k)'
      <4>1. CASE k = h
        BY <2>4, <4>1
      <4>2. CASE k # h
        <5>1. "running" \in procs[k]
          BY <2>3, <3>2, <4>2
        <5>2. Owned(k)
          BY <1>e, <5>1 DEF Fine
        <5>3. \A c \in Calls : OwnerCall(c, k) => OwnerCall(c, k)'
          BY <2>1 DEF OwnerCall, Only, Connecting, Running
        <5>4. \A d \in Teardowns : OwnerTeardown(d, k) => OwnerTeardown(d, k)'
          BY <2>1 DEF OwnerTeardown, Only, PastDrain, Running
        <5> QED BY <2>1, <5>2, <5>3, <5>4 DEF Owned
      <4> QED BY <4>1, <4>2
    <3>3. "adrift" \in procs'[k] => expired'
      <4>1. "adrift" \in procs'[k] => "adrift" \in procs[k]
        BY <2>3
      <4> QED BY <1>e, <2>1, <4>1 DEF Fine
    <3> QED BY <3>1, <3>2, <3>3 DEF Fine
  <2> QED BY <1>e, <2>5
\* Steps of disconnect_all.
<1>10. CASE TimeOut
  <2>1. /\ UNCHANGED <<key, profile, cache, expired>> /\ Only(Main) /\ pc'[Main] \in CleanSteps
        /\ \A e \in Teardowns \ {Main} : left'[e] = left[e]
    BY <1>10 DEF TimeOut, Goto, Only, CleanSteps
  <2>2. expired' = TRUE
    BY <1>10, Zenon DEF TimeOut
  <2>3. ASSUME NEW k \in Keys, OwnerTeardown(Main, k) PROVE Owned(k)'
    BY <2>1, <2>3 DEF OwnerTeardown, Owned
  <2>4. CASE pc[Main] \in Running
    <3>1. PICK h \in Keys : h = HookKey(Main)
      BY <2>4, HookKeyType DEF Running, HookSteps
    <3>2. /\ \A k \in Keys \ {h} : procs'[k] = procs[k]
          /\ procs'[h] = (procs[h] \ {"started"}) \union {"adrift"}
      BY <1>10, <2>4, <3>1 DEF TimeOut
    <3>3. ASSUME NEW k \in Keys PROVE Fine(k)'
      <4>1. ASSUME "started" \in procs'[k] PROVE Held(k)'
        <5>1. "started" \in procs[k] /\ k # h
          BY <3>2, <4>1
        <5> QED BY <1>h, <2>1, <3>1, <5>1
      <4>2. ASSUME "running" \in procs'[k] PROVE Owned(k)'
        <5>1. "running" \in procs[k]
          BY <3>2, <4>2
        <5> QED BY <1>o, <2>1, <2>3, <5>1
      <4> QED BY <2>2, <4>1, <4>2 DEF Fine
    <3> QED BY <1>e, <3>3
  <2>5. CASE pc[Main] \notin Running
    <3>1. UNCHANGED procs
      BY <1>10, <2>5 DEF TimeOut
    <3> QED BY <1>0, <1>n, <2>1, <2>3, <2>5, <3>1
  <2> QED BY <2>4, <2>5
<1>11. CASE Overdue \/ CleanupProcesses
  <2>1. /\ Terminate(KeysOf(profile[Main])) /\ UNCHANGED <<key, profile, cache, left, expired>>
        /\ Only(Main) /\ pc[Main] \notin Running
    BY <1>11 DEF Overdue, CleanupProcesses, Goto, At, Only, Running
  <2> QED BY <1>t, <2>1
<1>12. CASE CleanupDrain
  <2>1. Only(Main) /\ pc[Main] \notin Running /\ pc'[Main] \in PastDrain \union CleanSteps
    BY <1>12 DEF CleanupDrain, Goto, At, Only, Running, CleanSteps
  <2> QED BY <1>12, <1>c, <2>1 DEF CleanupDrain
<1>13. CASE CleanupRegister \/ CleanupTake \/ CleanupDispatch \/ SweepTake \/ SweepDispatch
            \/ BeginShutdown \/ AddProcessIds
  <2>1. /\ UNCHANGED <<key, profile, cache, left, procs, expired>>
        /\ Only(Main) /\ pc[Main] \notin Running
        /\ pc[Main] \in PastDrain \union CleanSteps => pc'[Main] \in PastDrain \union CleanSteps
    BY <1>13 DEF CleanupRegister, CleanupTake, CleanupDispatch, SweepTake, SweepDispatch,
       BeginShutdown, AddProcessIds, MainPhase, Goto, At, Only, Running, PastDrain, CleanSteps
  <2>2. \A k \in Keys : OwnerTeardown(Main, k) => Owned(k)'
    BY <2>1 DEF OwnerTeardown, Owned
  <2> QED BY <1>0, <1>n, <2>1, <2>2
<1>14. CASE SweepProcesses
  <2>1. /\ Terminate(Keys) /\ UNCHANGED <<key, profile, cache, left, expired>>
        /\ Only(Main) /\ pc[Main] \notin Running
    BY <1>14 DEF SweepProcesses, Goto, At, Only, Running
  <2>2. \A k \in Keys : NoNew(k) /\ "running" \notin procs'[k]
    BY <2>1, ProcessEffects
  <2> QED BY <1>0, <2>1, <2>2
<1>15. ASSUME NEW p \in Profiles, NextProfile(p) PROVE ProcessesOwned'
  <2>1. /\ UNCHANGED <<key, cache, left, procs, expired>> /\ Only(Main) /\ pc[Main] = "next"
        /\ \A d \in Teardowns \ {Main} : profile'[d] = profile[d]
    BY <1>15 DEF NextProfile, Goto, At, Only
  <2>2. pc[Main] \notin Running /\ \A k \in Keys : ~OwnerTeardown(Main, k)
    BY <2>1 DEF Running, OwnerTeardown, PastDrain, CleanSteps
  <2> QED BY <1>0, <1>n, <2>1, <2>2
<1>16. CASE Expire \/ UNCHANGED vars
  <2>1. UNCHANGED <<pc, key, profile, cache, left, procs>>
    BY <1>16 DEF Expire, vars
  <2>2. expired => expired'
    BY <1>16, Zenon DEF Expire, vars
  <2>3. \A k : (Held(k) => Held(k)') /\ (Owned(k) => Owned(k)')
    BY <2>1 DEF Held, HookKey, Owned, OwnerCall, OwnerTeardown
  <2>4. \A k \in Keys : Fine(k)'
    BY <1>e, <2>1, <2>2, <2>3 DEF Fine
  <2> QED BY <1>e, <2>4
<1> QED
  BY <1>1, <1>2, <1>3, <1>4, <1>5, <1>6, <1>7, <1>8, <1>9, <1>10, <1>11, <1>12, <1>13, <1>14,
     <1>15, <1>16 DEF Next, CallStep, DisconnectStep, Prompt, Cleanup

(***************************************************************************)
(* The invariant                                                           *)
(***************************************************************************)
\* Init establishes the invariant.
LEMMA McpInvInit == Init => McpInv
<1> SUFFICES ASSUME Init PROVE McpInv
  OBVIOUS
<1>1. TypeOK
  BY TypeCorrectInit
<1>2. \A t \in Tasks : pc[t] = "idle"
  BY DEF Init
<1>3. \A k \in Keys : cache[k] = Nobody /\ registry[k] = {} /\ procs[k] = {}
  BY DEF Init
<1>4. \A d \in Teardowns : drained[d] = {} /\ left[d] = {} /\ taken[d] = {}
  BY DEF Init
<1>5. phase = "serving" /\ atEnd = {} /\ shut = {} /\ opened = {} /\ \A c \in Calls : late[c] = "none"
  BY DEF Init
<1>6. LockHeld /\ MainPhase
  BY <1>1, <1>2, <1>5, Basics DEF LockHeld, LockedCall, LockedTeardown, Connecting, PastDrain, MainPhase
<1>7. SetupExclusive
  BY <1>1, <1>2, <1>3, Basics DEF SetupExclusive, KeysOf, Connecting, PastDrain
<1>8. HookKeys
  BY <1>1, <1>2, <1>4, Basics DEF HookKeys, HookSteps
<1>9. Placed
  BY <1>1, <1>2, <1>3, <1>4, <1>5, Basics DEF Placed
<1>10. Cached = {} /\ Registered = {} /\ \A d \in Teardowns : InHand(d) = {}
  BY <1>1, <1>3, <1>4, Basics DEF Cached, Registered, InHand
<1>11. Apart
  BY <1>10 DEF Apart
<1>12. ConnectionAccounted /\ ShutdownHasClaimant
  BY <1>5, <1>10 DEF ConnectionAccounted, ShutdownHasClaimant
<1>13. EndInv /\ ProcessesOwned
  BY <1>3, <1>5 DEF EndInv, ProcessesOwned
<1> QED BY <1>1, <1>6, <1>7, <1>8, <1>9, <1>11, <1>12, <1>13 DEF McpInv

\* Every step keeps it.
LEMMA McpInvStep == McpInv /\ [Next]_vars => McpInv'
<1> SUFFICES ASSUME McpInv, [Next]_vars PROVE McpInv'
  OBVIOUS
<1>1. TypeOK'
  BY TypeCorrectStep DEF McpInv
<1>2. LockHeld' /\ MainPhase' /\ SetupExclusive' /\ Placed' /\ HookKeys'
  BY LockHeldStep, MainPhaseStep, SetupExclusiveStep, PlacedStep, HookKeysStep DEF McpInv
<1>3. Apart'
  BY <1>1, <1>2, ApartStep DEF McpInv
<1>4. ConnectionAccounted'
  <2>1. \A c \in opened : Accounted(c)
    BY AccountedEquiv DEF McpInv, AllAccounted
  <2>2. \A c \in opened' : Accounted(c)'
    BY <1>1, <1>2, <2>1, AccountedStep DEF McpInv
  <2>3. AllAccounted'
    BY <2>2 DEF AllAccounted
  <2> QED BY <1>1, <2>3, AccountedEquiv, PTL
<1>5. ShutdownHasClaimant'
  BY <1>1, ClaimantStep DEF McpInv
<1>6. EndInv'
  BY <1>1, <1>2, EndStep DEF McpInv
<1>7. ProcessesOwned'
  BY <1>1, ProcessesStep DEF McpInv
<1> QED BY <1>1, <1>2, <1>3, <1>4, <1>5, <1>6, <1>7 DEF McpInv

\* The invariant holds of every reachable state, for any number of calls,
\* disconnects, profiles and keys.
THEOREM McpInvariant == Spec => []McpInv
BY McpInvInit, McpInvStep, PTL DEF Spec

\* The type invariant holds of every reachable state.
THEOREM TypeCorrect == Spec => []TypeOK
<1>1. McpInv => TypeOK
  BY DEF McpInv
<1> QED BY <1>1, McpInvariant, PTL

\* The setup lock keeps connects of a profile apart from each other and from
\* its disconnects (lock_connection_setup).
THEOREM SetupExclusiveHolds == Spec => []SetupExclusive
<1>1. McpInv => SetupExclusive
  BY DEF McpInv
<1> QED BY <1>1, McpInvariant, PTL

\* No connection a driver returned is forgotten, even if the deadline of
\* disconnect_all drops a disconnect between two of its steps.
THEOREM ConnectionAccountedHolds == Spec => []ConnectionAccounted
<1>1. McpInv => ConnectionAccounted
  BY DEF McpInv
<1> QED BY <1>1, McpInvariant, PTL

\* A connection that awaits its session shutdown has someone who will take it
\* out of the registry.
THEOREM ShutdownHasClaimantHolds == Spec => []ShutdownHasClaimant
<1>1. McpInv => ShutdownHasClaimant
  BY DEF McpInv
<1> QED BY <1>1, McpInvariant, PTL

\* No session shutdown is dispatched twice: what a teardown holds to dispatch
\* is nowhere else (SessionShutdownRegistry).
THEOREM DispatchedOnceHolds == Spec => []DispatchedOnce
<1>1. ASSUME McpInv PROVE DispatchedOnce
  <2>1. \A d \in Teardowns : taken[d] \subseteq InHand(d)
    BY DEF InHand
  <2>2. Apart
    BY <1>1 DEF McpInv
  <2>3. \A d \in Teardowns : \A c \in taken[d] :
           /\ c \notin shut /\ c \notin Cached /\ c \notin Registered
           /\ \A e \in Teardowns \ {d} : c \notin InHand(e)
    BY <2>1, <2>2 DEF Apart
  <2> QED BY <2>3 DEF DispatchedOnce
<1> QED BY <1>1, McpInvariant, PTL

\* When disconnect_all takes what the registry still holds, every connection
\* that was cached or registered at its start is claimed, among those taken,
\* or in the hands of a disconnect on another thread.
THEOREM NoneLeftBehindHolds == Spec => NoneLeftBehind
<1>1. ASSUME McpInv, McpInv', [Next]_vars, At(Main, "next"), pc'[Main] = "sweepDispatch",
             NEW c \in atEnd
      PROVE  c \in shut \union taken'[Main] \/ \E d \in Discs : c \in InHand(d)
  <2> USE Basics, <1>1 DEF McpInv
  <2>1. pc[Main] = "next" /\ phase = "draining"
    BY Zenon DEF At, MainPhase, TypeOK
  <2>2. todo = {} /\ taken'[Main] = Registered
    <3>1. CASE SweepTake
      BY <3>1 DEF SweepTake, TakeEntries, Registered
    <3>2. CASE ~SweepTake
      <4>1. \A c1 \in Calls : ~(QuietCall(c1) \/ Insert(c1))
        BY <2>1 DEF QuietCall, Insert, Goto, Only
      <4>2. \A d \in Teardowns : ~(\/ QuietTeardown(d) \/ Leave(d) \/ CacheToHand(d)
                                   \/ HandToRegistry(d) \/ HandToShut(d))
        BY <2>1 DEF QuietTeardown, Leave, CacheToHand, HandToRegistry, HandToShut, Only, Dispatching
      <4>3. ~(\/ BeginShutdown \/ AddProcessIds \/ Expire \/ SweepProcesses
              \/ (\E p \in Profiles : NextProfile(p)) \/ UNCHANGED vars)
        BY <2>1 DEF BeginShutdown, AddProcessIds, Expire, SweepProcesses, NextProfile, vars, Goto, At
      <4>4. PICK d \in Teardowns, S \in SUBSET Keys : RegistryToHand(d, S)
        BY <4>1, <4>2, <4>3, StepKinds
      <4>5. d = Main /\ S = Keys /\ todo = {}
        BY <2>1, <4>4 DEF RegistryToHand, Only
      <4> QED BY <4>4, <4>5 DEF RegistryToHand, TakeEntries, Registered
    <3> QED BY <3>1, <3>2
  <2>3. InHand(Main) = {}
    BY <2>1, EmptyHands DEF Holding, Dispatching
  <2>4. \/ c \in shut \union Registered
        \/ \E d \in Teardowns : c \in InHand(d)
    BY <2>1, <2>2 DEF EndInv
  <2> QED BY <2>2, <2>3, <2>4
<1>2. ASSUME McpInv, McpInv', [Next]_vars
      PROVE  [At(Main, "next") /\ pc'[Main] = "sweepDispatch" =>
                atEnd \subseteq shut \union taken'[Main]
                                  \union UNION {InHand(d) : d \in Discs}]_vars
  BY <1>1, <1>2
<1> QED BY <1>2, McpInvariant, PTL DEF Spec, NoneLeftBehind

\* No failed connect, ended disconnect or end of the server leaves a hook
\* process it could reach unowned: those it cannot reach are the ones of a
\* phase that the deadline dropped or whose supervision failed.
THEOREM ProcessesOwnedHolds == Spec => []ProcessesOwned
<1>1. McpInv => ProcessesOwned
  BY DEF McpInv
<1> QED BY <1>1, McpInvariant, PTL
=============================================================================
