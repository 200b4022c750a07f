---------------------- MODULE ApprovalRefinementProofs ----------------------
(***************************************************************************)
(* With one app, the table shared by all processes implements              *)
(* ApprovalSpec: each step of a process is one step of the promise, or     *)
(* none.                                                                   *)
(***************************************************************************)
EXTENDS ApprovalQueueProofs

\* The table starts empty, as the promise does.
LEMMA RefineInit == Init => Abstract!Init
  BY ApprovalAssumption DEF Init, Abstract!Init, AbstractState, RowState, Held

\* Requests that only disappear are a Lose step (or a stutter).
LEMMA LoseStep ==
    ASSUME \A id \in Ids :
              \/ AbstractState(id)' = AbstractState(id)
              \/ /\ AbstractState(id) \in {"waiting", "granted", "claimed"}
                 /\ AbstractState(id)' = "gone"
    PROVE  [Abstract!Next]_(Abstract!vars)
<1> DEFINE S == {id \in Ids : AbstractState(id)' # AbstractState(id)}
<1>1. CASE S = {}
  BY <1>1 DEF Abstract!vars
<1>2. CASE S # {}
  <2>1. Abstract!Lose(S)
    BY <1>2 DEF Abstract!Lose
  <2>2. S \in SUBSET Ids
    OBVIOUS
  <2>3. QED
    BY <2>1, <2>2 DEF Abstract!Next
<1>3. QED
  BY <1>1, <1>2

\* One request moves along an arrow of the promise, the others stand still.
LEMMA MoveStep ==
    ASSUME NEW id \in Ids,
           \A other \in Ids \ {id} : AbstractState(other)' = AbstractState(other),
           <<AbstractState(id), AbstractState(id)'>> \in
              {<<"none", "waiting">>, <<"waiting", "granted">>, <<"waiting", "refused">>,
               <<"granted", "claimed">>, <<"claimed", "ran">>}
    PROVE  Abstract!Next
  BY DEF Abstract!Next, Abstract!Ask, Abstract!Approve, Abstract!Reject,
         Abstract!Claim, Abstract!Run

\* A step that leaves rows, decisions, approvals held and runs alone is a stutter.
LEMMA StutterStep ==
    ASSUME UNCHANGED <<status, everRejected, grant, runs>>
    PROVE  [Abstract!Next]_(Abstract!vars)
<1>1. \A id \in Ids : AbstractState(id)' = AbstractState(id)
  BY DEF AbstractState, Held, RowState
<1>2. QED
  BY <1>1, LoseStep

\* Nobody holds, has decided or has run a request that waits or does not exist.
LEMMA FreshRow ==
    ASSUME QueueInv, NEW id \in Ids, status[id] \in {"absent", "pending"}
    PROVE  ~Held(id) /\ id \notin everRejected /\ runs[id] = 0
<1>1. id \notin everRejected /\ runs[id] = 0
  BY DEF QueueInv, RowHistory
<1>2. ~Held(id)
  <2> SUFFICES ASSUME NEW c \in Calls, grant[c] = id PROVE FALSE
    BY DEF Held
  <2>1. grant[c] # NoId
    BY ApprovalAssumption
  <2>2. status[id] \in {"consumed", "deleted"}
    BY <2>1 DEF QueueInv, GrantHistory
  <2>3. QED
    BY <2>2
<1>3. QED
  BY <1>1, <1>2

\* Every step of the queue is a step of the promise or a stutter.
LEMMA RefineStep ==
    ASSUME TypeOK, QueueInv, [Next]_vars
    PROVE  [Abstract!Next]_(Abstract!vars)
<1> USE DEF db, server, call, gui, history
<1>1. ASSUME UNCHANGED <<everRejected, runs>>, purge_terminal_and_expired,
             \A c \in Calls : grant'[c] \in {grant[c], NoId}
      PROVE  [Abstract!Next]_(Abstract!vars)
  <2>1. \A id \in Ids :
            \/ AbstractState(id)' = AbstractState(id)
            \/ /\ AbstractState(id) \in {"waiting", "granted", "claimed"}
               /\ AbstractState(id)' = "gone"
    <3> SUFFICES ASSUME NEW id \in Ids
                 PROVE  \/ AbstractState(id)' = AbstractState(id)
                        \/ /\ AbstractState(id) \in {"waiting", "granted", "claimed"}
                           /\ AbstractState(id)' = "gone"
      OBVIOUS
    <3>1. status[id] \in Statuses /\ status'[id] \in {status[id], "deleted"}
      BY <1>1 DEF purge_terminal_and_expired, TypeOK, DbType
    <3>2. status[id] = "absent" => status'[id] = "absent"
      BY <1>1, <3>1 DEF purge_terminal_and_expired, Purgeable
    <3>3. Held(id)' => Held(id)
      BY <1>1, ApprovalAssumption DEF Held
    <3>4. Held(id) => id \in everApproved /\ status[id] \in {"consumed", "deleted"}
      BY ApprovalAssumption DEF Held, QueueInv, GrantHistory
    <3>5. id \in everRejected => id \notin everApproved
      BY DEF QueueInv, RowHistory
    <3>6. QED
      BY <1>1, <3>1, <3>2, <3>3, <3>4, <3>5 DEF AbstractState, RowState, Statuses
  <2>2. QED
    BY <2>1, LoseStep
<1>2. ASSUME NEW c \in Calls, EndCall(c) PROVE [Abstract!Next]_(Abstract!vars)
  BY <1>1, <1>2 DEF EndCall, Return, purge_terminal_and_expired
<1>3. ASSUME NEW c \in Calls, NEW id \in Ids, ConsumeUpdate(c, id)
      PROVE  [Abstract!Next]_(Abstract!vars)
  <2>1. grant[c] = NoId
    BY <1>3 DEF ConsumeUpdate, QueueInv, GrantHistory
  <2>2. \A other \in Ids \ {id} : AbstractState(other)' = AbstractState(other)
    BY <1>3, <2>1, ApprovalAssumption
       DEF ConsumeUpdate, AbstractState, Held, TypeOK, DbType, CallType, RowState
  <2>3. AbstractState(id) = "granted"
    BY <1>3, ApprovalAssumption
       DEF ConsumeUpdate, AbstractState, Held, RowState, QueueInv, RowHistory, GrantHistory
  <2>4. AbstractState(id)' = "claimed"
    BY <1>3, ApprovalAssumption
       DEF ConsumeUpdate, AbstractState, Held, TypeOK, CallType, QueueInv, RowHistory
  <2>5. QED
    BY <2>2, <2>3, <2>4, MoveStep
<1>4. ASSUME NEW id \in Ids, NEW p, create_pending(id, p),
             UNCHANGED <<everRejected, grant, runs>>
      PROVE  [Abstract!Next]_(Abstract!vars)
  <2>1. \A other \in Ids \ {id} : AbstractState(other)' = AbstractState(other)
    BY <1>4 DEF create_pending, AbstractState, Held, TypeOK, DbType, RowState
  <2>2. ~Held(id) /\ id \notin everRejected /\ runs[id] = 0
    BY <1>4, FreshRow DEF create_pending
  <2>3. AbstractState(id) = "none"
    BY <1>4, <2>2 DEF create_pending, AbstractState, RowState
  <2>4. AbstractState(id)' = "waiting"
    BY <1>4, <2>2 DEF create_pending, AbstractState, Held, RowState, TypeOK, DbType
  <2>5. QED
    BY <2>1, <2>3, <2>4, MoveStep
<1>5. ASSUME NEW c \in Calls, RunHandler(c) PROVE [Abstract!Next]_(Abstract!vars)
  <2>1. CASE grant[c] \notin Ids
    BY <1>5, <2>1, StutterStep DEF RunHandler, TypeOK, HistoryType
  <2>2. ASSUME NEW id \in Ids, grant[c] = id PROVE [Abstract!Next]_(Abstract!vars)
    <3>1. \A other \in Ids \ {id} : AbstractState(other)' = AbstractState(other)
      BY <1>5, <2>2 DEF RunHandler, AbstractState, Held, RowState
    <3>2. pc[c] = "run" /\ grant[c] # NoId
      BY <1>5, <2>2, ApprovalAssumption DEF RunHandler
    <3>3. runs[id] = 0
      BY <2>2, <3>2 DEF QueueInv, GrantHistory
    <3>4. AbstractState(id) = "claimed"
      BY <2>2, <3>3 DEF AbstractState, Held
    <3>5. runs'[id] = 1
      BY <1>5, <2>2, <3>3 DEF RunHandler
    <3>6. AbstractState(id)' = "ran"
      BY <3>5 DEF AbstractState
    <3>7. QED
      BY <3>1, <3>4, <3>6, MoveStep
  <2>3. QED
    BY <2>1, <2>2
<1>6. ASSUME NEW g \in GUIs, NEW id \in Ids, id = gid[g], ApproveUpdate(g) \/ RejectUpdate(g)
      PROVE  [Abstract!Next]_(Abstract!vars)
  <2>1. status[id] = "pending"
    BY <1>6 DEF ApproveUpdate, RejectUpdate, QueueInv, DecidingHistory
  <2>2. ~Held(id) /\ id \notin everRejected /\ runs[id] = 0
    BY <2>1, FreshRow
  <2>3. \A other \in Ids \ {id} : AbstractState(other)' = AbstractState(other)
    BY <1>6 DEF ApproveUpdate, RejectUpdate, AbstractState, Held, RowState, TypeOK, DbType
  <2>4. AbstractState(id) = "waiting"
    BY <2>1, <2>2 DEF AbstractState, RowState
  <2>5. ASSUME ApproveUpdate(g) PROVE AbstractState(id)' = "granted"
    BY <1>6, <2>2, <2>5 DEF ApproveUpdate, AbstractState, Held, RowState, TypeOK, DbType
  <2>6. ASSUME RejectUpdate(g) PROVE AbstractState(id)' = "refused"
    BY <1>6, <2>2, <2>6 DEF RejectUpdate, AbstractState, Held, RowState, TypeOK, DbType
  <2>7. QED
    BY <1>6, <2>3, <2>4, <2>5, <2>6, MoveStep
<1>7. ASSUME NEW g \in GUIs, ApproveUpdate(g) \/ RejectUpdate(g)
      PROVE  [Abstract!Next]_(Abstract!vars)
  <2>1. gid[g] \in Ids
    BY <1>7 DEF ApproveUpdate, RejectUpdate, TypeOK, HistoryType
  <2>2. QED
    BY <1>6, <1>7, <2>1
<1>8. ASSUME NEW g \in GUIs, GuiRestart(g) PROVE [Abstract!Next]_(Abstract!vars)
  BY <1>1, <1>8 DEF GuiRestart
<1>9. ASSUME NEW s \in Servers, ServerRestart(s) PROVE [Abstract!Next]_(Abstract!vars)
  BY <1>1, <1>9 DEF ServerRestart, Return
<1>10. ASSUME NEW c \in Calls, AuditAuthorize(c) PROVE [Abstract!Next]_(Abstract!vars)
  <2>1. CASE outcome[c] = "allowed"
    BY <1>10, <2>1, StutterStep DEF AuditAuthorize
  <2>2. CASE outcome[c] # "allowed"
    BY <1>1, <1>10, <2>2 DEF AuditAuthorize, Return, purge_terminal_and_expired
  <2>3. QED
    BY <2>1, <2>2
<1>11. ASSUME NEW c \in Calls, NEW id \in Ids, QueueCall(c, id) \/ RunRequest(c, id)
       PROVE  [Abstract!Next]_(Abstract!vars)
  BY <1>4, <1>11 DEF QueueCall, RunRequest
<1>12. ASSUME NEW c \in Calls,
              AuthorizeError(c) \/ GateError(c) \/ AuditAuthorizeError(c) \/ AuditExecution(c)
       PROVE  [Abstract!Next]_(Abstract!vars)
  BY <1>2, <1>12 DEF AuthorizeError, GateError, AuditAuthorizeError, AuditExecution
<1>13. CASE \/ \E c \in Calls : \E p \in PlansOf[ServerOf[c]] : \E t \in Targets : StartCall(c, t, p)
            \/ \E c \in Calls : AuthorizeCheck(c) \/ ConsumeSelect(c) \/ RunRequestError(c)
            \/ \E c \in Calls, id \in Ids : ConsumeMiss(c, id)
            \/ Tick
            \/ UNCHANGED vars
  BY <1>13, StutterStep
     DEF StartCall, AuthorizeCheck, ConsumeSelect, RunRequestError, ConsumeMiss, Tick, vars
<1>14. CASE \/ \E g \in GUIs, id \in Ids : BeginApprove(g, id) \/ BeginReject(g, id)
            \/ \E g \in GUIs : ApproveGet(g) \/ RejectGet(g)
            \/ \E g \in GUIs : ApproveAudit(g) \/ RejectAudit(g)
            \/ \E g \in GUIs : DecisionError(g)
  BY <1>14, StutterStep
     DEF BeginApprove, BeginReject, BeginDecision, ApproveGet, RejectGet, GetPending,
         ApproveAudit, RejectAudit, AuditDecision, DecisionError
<1>15. QED
  BY NextSteps, <1>3, <1>5, <1>7, <1>8, <1>9, <1>10, <1>11, <1>12, <1>13, <1>14

\* The queue implements its promise: the table, the servers and the app
\* together never multiply an approval or revive a decided request.
THEOREM Refinement == ASSUME SingleApp PROVE Spec => RefinesApprovalSpec
<1>1. TypeOK /\ QueueInv /\ [Next]_vars => [Abstract!Next]_(Abstract!vars)
  BY RefineStep
<1>2. QED
  BY <1>1, RefineInit, TypeCorrect, QueueInvariant, PTL
     DEF Spec, RefinesApprovalSpec, Abstract!Spec
=============================================================================
