------------------------ MODULE ApprovalQueueProofs ------------------------
(***************************************************************************)
(* The approval queue is correct for any number of servers, calls, rows    *)
(* and plans: one approval authorizes one run and a decision is final as   *)
(* long as one app at a time decides; what a run may do and that it and    *)
(* every rejection are audited hold for any number of apps.                *)
(***************************************************************************)
EXTENDS ApprovalQueue, TLAPS

\* One DBFlux app uses the database (the app-control socket keeps a second
\* instance of the same build profile from starting).
SingleApp == \A g, h \in GUIs : g = h

\* Every step of Next, by name: the case split of the proofs below.
LEMMA NextSteps ==
    ASSUME [Next]_vars
    PROVE  \/ \E c \in Calls : \E p \in PlansOf[ServerOf[c]] : \E t \in Targets : StartCall(c, t, p)
           \/ \E c \in Calls : AuthorizeCheck(c)
           \/ \E c \in Calls : AuthorizeError(c) \/ GateError(c) \/ AuditAuthorizeError(c)
                                  \/ AuditExecution(c)
           \/ \E c \in Calls : ConsumeSelect(c)
           \/ \E c \in Calls, id \in Ids : ConsumeUpdate(c, id)
           \/ \E c \in Calls, id \in Ids : ConsumeMiss(c, id)
           \/ \E c \in Calls, id \in Ids : QueueCall(c, id)
           \/ \E c \in Calls : AuditAuthorize(c)
           \/ \E c \in Calls : RunHandler(c)
           \/ \E c \in Calls, id \in Ids : RunRequest(c, id)
           \/ \E c \in Calls : RunRequestError(c)
           \/ \E s \in Servers : ServerRestart(s)
           \/ \E g \in GUIs, id \in Ids : BeginApprove(g, id) \/ BeginReject(g, id)
           \/ \E g \in GUIs : ApproveGet(g) \/ RejectGet(g)
           \/ \E g \in GUIs : ApproveUpdate(g)
           \/ \E g \in GUIs : RejectUpdate(g)
           \/ \E g \in GUIs : ApproveAudit(g) \/ RejectAudit(g)
           \/ \E g \in GUIs : DecisionError(g)
           \/ \E g \in GUIs : GuiRestart(g)
           \/ Tick
           \/ UNCHANGED vars
  BY Zenon DEF Next, Authorize, CallStep, LockedStep, GuiStep

-----------------------------------------------------------------------------

\* Init establishes the type invariant.
LEMMA InitTypeOK == Init => TypeOK
  BY ApprovalAssumption DEF Init, TypeOK, DbType, ServerType, CallType, GuiType, HistoryType,
     Statuses, CallSteps, GuiSteps, Outcomes

\* Type correctness: every variable stays in its declared set, in particular
\* an approval is only ever an id of the table.
THEOREM TypeCorrect == Spec => []TypeOK
<1>1. TypeOK /\ [Next]_vars => TypeOK'
  <2> SUFFICES ASSUME TypeOK, [Next]_vars PROVE TypeOK'
    OBVIOUS
  <2> USE DEF TypeOK, DbType, ServerType, CallType, GuiType, HistoryType,
              Statuses, CallSteps, GuiSteps, Outcomes,
              db, server, call, gui, history, GoTo, GuiGoTo
  <2>1. ASSUME NEW c \in Calls, NEW p \in PlansOf[ServerOf[c]], NEW t \in Targets,
               StartCall(c, t, p)
        PROVE  TypeOK'
    BY <2>1, ApprovalAssumption DEF StartCall, Targets
  <2>2. ASSUME NEW c \in Calls, AuthorizeCheck(c) PROVE TypeOK'
    BY <2>2, ApprovalAssumption DEF AuthorizeCheck
  <2>3. ASSUME NEW c \in Calls,
               AuthorizeError(c) \/ GateError(c) \/ AuditAuthorizeError(c) \/ AuditExecution(c)
        PROVE  TypeOK'
    BY <2>3 DEF AuthorizeError, GateError, AuditAuthorizeError, AuditExecution, EndCall, Return
  <2>4. ASSUME NEW c \in Calls, ConsumeSelect(c) PROVE TypeOK'
    BY <2>4 DEF ConsumeSelect, Consumable
  <2>5. ASSUME NEW c \in Calls, NEW id \in Ids, ConsumeUpdate(c, id) PROVE TypeOK'
    BY <2>5 DEF ConsumeUpdate
  <2>6. ASSUME NEW c \in Calls, NEW id \in Ids, ConsumeMiss(c, id) PROVE TypeOK'
    BY <2>6 DEF ConsumeMiss
  <2>7. ASSUME NEW c \in Calls, NEW id \in Ids, QueueCall(c, id) PROVE TypeOK'
    BY <2>7, ApprovalAssumption DEF QueueCall, create_pending
  <2>8. ASSUME NEW c \in Calls, AuditAuthorize(c) PROVE TypeOK'
    BY <2>8 DEF AuditAuthorize, Return
  <2>9. ASSUME NEW c \in Calls, RunHandler(c) PROVE TypeOK'
    BY <2>9 DEF RunHandler
  <2>10. ASSUME NEW c \in Calls, NEW id \in Ids, RunRequest(c, id) PROVE TypeOK'
    BY <2>10, ApprovalAssumption DEF RunRequest, create_pending
  <2>11. ASSUME NEW c \in Calls, RunRequestError(c) PROVE TypeOK'
    BY <2>11 DEF RunRequestError
  <2>12. ASSUME NEW s \in Servers, ServerRestart(s) PROVE TypeOK'
    BY <2>12, ApprovalAssumption DEF ServerRestart, Return, purge_terminal_and_expired
  <2>13. ASSUME NEW g \in GUIs, NEW id \in Ids, BeginApprove(g, id) \/ BeginReject(g, id)
         PROVE  TypeOK'
    BY <2>13 DEF BeginApprove, BeginReject, BeginDecision
  <2>14. ASSUME NEW g \in GUIs, ApproveGet(g) \/ RejectGet(g) PROVE TypeOK'
    BY <2>14 DEF ApproveGet, RejectGet, GetPending
  <2>15. ASSUME NEW g \in GUIs, ApproveUpdate(g) PROVE TypeOK'
    BY <2>15 DEF ApproveUpdate
  <2>16. ASSUME NEW g \in GUIs, RejectUpdate(g) PROVE TypeOK'
    BY <2>16 DEF RejectUpdate
  <2>17. ASSUME NEW g \in GUIs, ApproveAudit(g) \/ RejectAudit(g) PROVE TypeOK'
    BY <2>17 DEF ApproveAudit, RejectAudit, AuditDecision
  <2>18. ASSUME NEW g \in GUIs, DecisionError(g) PROVE TypeOK'
    BY <2>18 DEF DecisionError
  <2>19. ASSUME NEW g \in GUIs, GuiRestart(g) PROVE TypeOK'
    BY <2>19 DEF GuiRestart, purge_terminal_and_expired
  <2>20. CASE Tick
    BY <2>20 DEF Tick
  <2>21. CASE UNCHANGED vars
    BY <2>21 DEF vars
  <2>22. QED
    BY NextSteps, <2>1, <2>2, <2>3, <2>4, <2>5, <2>6, <2>7, <2>8, <2>9, <2>10, <2>11,
       <2>12, <2>13, <2>14, <2>15, <2>16, <2>17, <2>18, <2>19, <2>20, <2>21
<1>2. QED
  BY <1>1, InitTypeOK, PTL DEF Spec

-----------------------------------------------------------------------------

\* Init establishes the inductive invariant.
LEMMA InitQueueInv == Init => QueueInv
  BY ApprovalAssumption
     DEF Init, QueueInv, RowHistory, GrantExclusive, GrantHistory, DecidingHistory

\* A step that ends calls without touching rows or decisions keeps the invariant.
LEMMA ReturnQueueInv ==
    ASSUME TypeOK, QueueInv, NEW S \in SUBSET Calls, Return(S),
           UNCHANGED <<status, gpc, gid, everApproved, everRejected, runs>>
    PROVE  QueueInv'
  BY ApprovalAssumption
     DEF Return, TypeOK, CallType, QueueInv, RowHistory, GrantExclusive, GrantHistory,
         DecidingHistory

\* The inductive step: every action preserves the invariant when one app decides.
LEMMA QueueInvStep ==
    ASSUME SingleApp, TypeOK, QueueInv, [Next]_vars
    PROVE  QueueInv'
<1> USE DEF TypeOK, DbType, CallType, GuiType, HistoryType, Statuses,
            QueueInv, RowHistory, GrantExclusive, GrantHistory, DecidingHistory,
            db, server, call, gui, history, GoTo, GuiGoTo
<1>1. ASSUME NEW c \in Calls, NEW p \in PlansOf[ServerOf[c]], NEW t \in Targets,
             StartCall(c, t, p)
      PROVE  QueueInv'
  BY <1>1 DEF StartCall
<1>2. ASSUME NEW c \in Calls, AuthorizeCheck(c) PROVE QueueInv'
  BY <1>2 DEF AuthorizeCheck
<1>3. ASSUME NEW c \in Calls,
             AuthorizeError(c) \/ GateError(c) \/ AuditAuthorizeError(c) \/ AuditExecution(c)
      PROVE  QueueInv'
  BY <1>3, ReturnQueueInv
     DEF AuthorizeError, GateError, AuditAuthorizeError, AuditExecution, EndCall
<1>4. ASSUME NEW c \in Calls, ConsumeSelect(c) PROVE QueueInv'
  BY <1>4 DEF ConsumeSelect
<1>5. ASSUME NEW c \in Calls, NEW id \in Ids, ConsumeUpdate(c, id) PROVE QueueInv'
  BY <1>5, ApprovalAssumption DEF ConsumeUpdate
<1>6. ASSUME NEW c \in Calls, NEW id \in Ids, ConsumeMiss(c, id) PROVE QueueInv'
  BY <1>6 DEF ConsumeMiss
<1>7. ASSUME NEW c \in Calls, NEW id \in Ids, QueueCall(c, id) PROVE QueueInv'
  BY <1>7 DEF QueueCall, create_pending
<1>8. ASSUME NEW c \in Calls, AuditAuthorize(c) PROVE QueueInv'
  BY <1>8, ReturnQueueInv DEF AuditAuthorize
<1>9. ASSUME NEW c \in Calls, RunHandler(c) PROVE QueueInv'
  BY <1>9, ApprovalAssumption DEF RunHandler
<1>10. ASSUME NEW c \in Calls, NEW id \in Ids, RunRequest(c, id) PROVE QueueInv'
  BY <1>10 DEF RunRequest, create_pending
<1>11. ASSUME NEW c \in Calls, RunRequestError(c) PROVE QueueInv'
  BY <1>11 DEF RunRequestError
<1>12. ASSUME NEW s \in Servers, ServerRestart(s) PROVE QueueInv'
  BY <1>12, ApprovalAssumption DEF ServerRestart, Return, purge_terminal_and_expired, Purgeable
<1>13. ASSUME NEW g \in GUIs, NEW id \in Ids, BeginApprove(g, id) \/ BeginReject(g, id)
       PROVE  QueueInv'
  BY <1>13 DEF BeginApprove, BeginReject, BeginDecision, PendingRow
<1>14. ASSUME NEW g \in GUIs, ApproveGet(g) \/ RejectGet(g) PROVE QueueInv'
  BY <1>14 DEF ApproveGet, RejectGet, GetPending
<1>15. ASSUME NEW g \in GUIs, ApproveUpdate(g) PROVE QueueInv'
  BY <1>15 DEF ApproveUpdate, SingleApp
<1>16. ASSUME NEW g \in GUIs, RejectUpdate(g) PROVE QueueInv'
  BY <1>16 DEF RejectUpdate, SingleApp
<1>17. ASSUME NEW g \in GUIs, ApproveAudit(g) \/ RejectAudit(g) PROVE QueueInv'
  BY <1>17 DEF ApproveAudit, RejectAudit, AuditDecision
<1>18. ASSUME NEW g \in GUIs, DecisionError(g) PROVE QueueInv'
  BY <1>18 DEF DecisionError
<1>19. ASSUME NEW g \in GUIs, GuiRestart(g) PROVE QueueInv'
  BY <1>19 DEF GuiRestart, purge_terminal_and_expired, Purgeable
<1>20. CASE Tick
  BY <1>20 DEF Tick
<1>21. CASE UNCHANGED vars
  BY <1>21 DEF vars
<1>22. QED
  BY NextSteps, <1>1, <1>2, <1>3, <1>4, <1>5, <1>6, <1>7, <1>8, <1>9, <1>10, <1>11,
     <1>12, <1>13, <1>14, <1>15, <1>16, <1>17, <1>18, <1>19, <1>20, <1>21

\* The rows, the decisions and the calls agree in every reachable state.
THEOREM QueueInvariant == ASSUME SingleApp PROVE Spec => []QueueInv
<1>1. TypeOK /\ QueueInv /\ [Next]_vars => QueueInv'
  BY QueueInvStep
<1>2. QED
  BY <1>1, InitQueueInv, TypeCorrect, PTL DEF Spec

\* One approval authorizes at most one run, for any number of servers, calls,
\* retries, crashes and purges (consume_approved).
THEOREM OneRunPerApprovalHolds == ASSUME SingleApp PROVE Spec => []OneRunPerApproval
<1>1. TypeOK /\ QueueInv => OneRunPerApproval
  BY DEF TypeOK, HistoryType, QueueInv, RowHistory, OneRunPerApproval
<1>2. QED
  BY <1>1, QueueInvariant, TypeCorrect, PTL

\* No two calls ever hold the same approval.
THEOREM GrantExclusiveHolds == ASSUME SingleApp PROVE Spec => []GrantExclusive
<1>1. QueueInv => GrantExclusive
  BY DEF QueueInv
<1>2. QED
  BY <1>1, QueueInvariant, PTL

\* A request whose rejection reached the table never runs.
THEOREM RejectedNeverRunsHolds == ASSUME SingleApp PROVE Spec => []RejectedNeverRuns
<1>1. TypeOK /\ QueueInv => RejectedNeverRuns
  BY ApprovalAssumption
     DEF TypeOK, HistoryType, CallType, QueueInv, RowHistory, GrantHistory, RejectedNeverRuns
<1>2. QED
  BY <1>1, QueueInvariant, TypeCorrect, PTL

\* A rejected or consumed row never comes back: neither UPDATE without a status
\* guard can reach it while one app decides.
THEOREM DecisionIsFinalHolds == ASSUME SingleApp PROVE Spec => DecisionIsFinal
<1> DEFINE Final == \A id \in Ids : status[id] \in {"rejected", "consumed"} =>
                        status'[id] \in {status[id], "deleted"}
<1>1. TypeOK /\ QueueInv /\ [Next]_vars => [Final]_vars
  <2> SUFFICES ASSUME TypeOK, QueueInv, Next PROVE Final
    OBVIOUS
  <2>1. CASE UNCHANGED status
    BY <2>1
  <2>2. CASE purge_terminal_and_expired
    BY <2>2 DEF purge_terminal_and_expired
  <2>3. ASSUME NEW id \in Ids, status[id] \notin {"rejected", "consumed"}, NEW st,
               status' = [status EXCEPT ![id] = st]
        PROVE  Final
    BY <2>3 DEF TypeOK, DbType
  <2>4. ASSUME NEW c \in Calls, NEW id \in Ids,
               ConsumeUpdate(c, id) \/ QueueCall(c, id) \/ RunRequest(c, id)
        PROVE  Final
    BY <2>3, <2>4 DEF ConsumeUpdate, QueueCall, RunRequest, create_pending
  <2>5. ASSUME NEW g \in GUIs, ApproveUpdate(g) \/ RejectUpdate(g) PROVE Final
    <3>1. gid[g] \in Ids /\ status[gid[g]] \notin {"rejected", "consumed"}
      BY <2>5 DEF ApproveUpdate, RejectUpdate, QueueInv, DecidingHistory
    <3>2. QED
      BY <2>3, <2>5, <3>1 DEF ApproveUpdate, RejectUpdate
  <2>6. ASSUME NEW g \in GUIs, GuiRestart(g) PROVE Final
    BY <2>2, <2>6 DEF GuiRestart
  <2>7. ASSUME NEW s \in Servers, ServerRestart(s) PROVE Final
    BY <2>2, <2>7 DEF ServerRestart
  <2>8. \/ UNCHANGED status
        \/ \E c \in Calls, id \in Ids :
              ConsumeUpdate(c, id) \/ QueueCall(c, id) \/ RunRequest(c, id)
        \/ \E g \in GUIs : ApproveUpdate(g) \/ RejectUpdate(g) \/ GuiRestart(g)
        \/ \E s \in Servers : ServerRestart(s)
    BY DEF Next, Authorize, CallStep, LockedStep, GuiStep, StartCall, AuthorizeCheck,
           AuthorizeError, GateError, AuditAuthorizeError, AuditExecution, EndCall,
           ConsumeSelect, ConsumeMiss, AuditAuthorize, RunHandler, RunRequestError,
           BeginApprove, BeginReject, BeginDecision, ApproveGet, RejectGet, GetPending,
           ApproveAudit, RejectAudit, AuditDecision, DecisionError, Tick, db
  <2>9. QED
    BY <2>1, <2>4, <2>5, <2>6, <2>7, <2>8
<1>2. QED
  BY <1>1, QueueInvariant, TypeCorrect, PTL DEF Spec, DecisionIsFinal
-----------------------------------------------------------------------------
\* What follows does not depend on how many apps decide.

\* Init establishes the invariant of the gate.
LEMMA InitGateInv == Init => GateInv
  BY ApprovalAssumption
     DEF Init, GateInv, ApprovedRows, CandidatesMatch, GrantIsPastGate, GrantMatchesApproval

\* Ending calls keeps it: what they had selected or consumed is forgotten.
LEMMA ReturnGateInv ==
    ASSUME TypeOK, GateInv, NEW S \in SUBSET Calls, Return(S),
           UNCHANGED <<db, gpc, gid, everApproved>>
    PROVE  GateInv'
  BY ApprovalAssumption
     DEF Return, db, TypeOK, CallType, GateInv, ApprovedRows, CandidatesMatch,
         GrantIsPastGate, GrantMatchesApproval

\* The inductive step. A row's plan and expiry are written once, by INSERT, and
\* every row that a call or an app still refers to has been inserted.
LEMMA GateInvStep ==
    ASSUME TypeOK, GateInv, [Next]_vars
    PROVE  GateInv'
<1> USE DEF TypeOK, DbType, CallType, GuiType, HistoryType,
            GateInv, ApprovedRows, CandidatesMatch, GrantIsPastGate, GrantMatchesApproval,
            db, server, call, gui, history, GoTo, GuiGoTo
<1>1. ASSUME NEW c \in Calls, NEW p \in PlansOf[ServerOf[c]], NEW t \in Targets,
             StartCall(c, t, p)
      PROVE  GateInv'
  BY <1>1 DEF StartCall
<1>2. ASSUME NEW c \in Calls, AuthorizeCheck(c) PROVE GateInv'
  BY <1>2 DEF AuthorizeCheck
<1>3. ASSUME NEW c \in Calls,
             AuthorizeError(c) \/ GateError(c) \/ AuditAuthorizeError(c) \/ AuditExecution(c)
      PROVE  GateInv'
  BY <1>3, ReturnGateInv
     DEF AuthorizeError, GateError, AuditAuthorizeError, AuditExecution, EndCall
<1>4. ASSUME NEW c \in Calls, ConsumeSelect(c) PROVE GateInv'
  BY <1>4, ApprovalAssumption DEF ConsumeSelect, Consumable, Unexpired
<1>5. ASSUME NEW c \in Calls, NEW id \in Ids, ConsumeUpdate(c, id) PROVE GateInv'
  BY <1>5, ApprovalAssumption DEF ConsumeUpdate, Oldest
<1>6. ASSUME NEW c \in Calls, NEW id \in Ids, ConsumeMiss(c, id) PROVE GateInv'
  BY <1>6 DEF ConsumeMiss
<1>7. ASSUME NEW c \in Calls, NEW id \in Ids, QueueCall(c, id) PROVE GateInv'
  BY <1>7, ApprovalAssumption DEF QueueCall, create_pending
<1>8. ASSUME NEW c \in Calls, AuditAuthorize(c) PROVE GateInv'
  BY <1>8, ReturnGateInv DEF AuditAuthorize
<1>9. ASSUME NEW c \in Calls, RunHandler(c) PROVE GateInv'
  BY <1>9 DEF RunHandler
<1>10. ASSUME NEW c \in Calls, NEW id \in Ids, RunRequest(c, id) PROVE GateInv'
  BY <1>10, ApprovalAssumption DEF RunRequest, create_pending
<1>11. ASSUME NEW c \in Calls, RunRequestError(c) PROVE GateInv'
  BY <1>11 DEF RunRequestError
<1>12. ASSUME NEW s \in Servers, ServerRestart(s) PROVE GateInv'
  BY <1>12, ApprovalAssumption DEF ServerRestart, Return, purge_terminal_and_expired, Purgeable
<1>13. ASSUME NEW g \in GUIs, NEW id \in Ids, BeginApprove(g, id) \/ BeginReject(g, id)
       PROVE  GateInv'
  BY <1>13 DEF BeginApprove, BeginReject, BeginDecision, PendingRow
<1>14. ASSUME NEW g \in GUIs, ApproveGet(g) \/ RejectGet(g) PROVE GateInv'
  BY <1>14 DEF ApproveGet, RejectGet, GetPending
<1>15. ASSUME NEW g \in GUIs, ApproveUpdate(g) PROVE GateInv'
  BY <1>15 DEF ApproveUpdate
<1>16. ASSUME NEW g \in GUIs, RejectUpdate(g) PROVE GateInv'
  BY <1>16 DEF RejectUpdate
<1>17. ASSUME NEW g \in GUIs, ApproveAudit(g) \/ RejectAudit(g) PROVE GateInv'
  BY <1>17 DEF ApproveAudit, RejectAudit, AuditDecision
<1>18. ASSUME NEW g \in GUIs, DecisionError(g) PROVE GateInv'
  BY <1>18 DEF DecisionError
<1>19. ASSUME NEW g \in GUIs, GuiRestart(g) PROVE GateInv'
  BY <1>19 DEF GuiRestart, purge_terminal_and_expired, Purgeable
<1>20. CASE Tick
  BY <1>20 DEF Tick
<1>21. CASE UNCHANGED vars
  BY <1>21 DEF vars
<1>22. QED
  BY NextSteps, <1>1, <1>2, <1>3, <1>4, <1>5, <1>6, <1>7, <1>8, <1>9, <1>10, <1>11,
     <1>12, <1>13, <1>14, <1>15, <1>16, <1>17, <1>18, <1>19, <1>20, <1>21

\* A call that runs under an approval runs the plan a person approved, looked
\* up before it expired, for any number of apps, servers, calls and rows
\* (consume_approved compares the plan, and no later statement changes it).
THEOREM GrantMatchesApprovalHolds == Spec => []GrantMatchesApproval
<1>1. TypeOK /\ GateInv /\ [Next]_vars => GateInv'
  BY GateInvStep
<1>2. GateInv => GrantMatchesApproval
  BY DEF GateInv
<1>3. QED
  BY <1>1, <1>2, InitGateInv, TypeCorrect, PTL DEF Spec

-----------------------------------------------------------------------------

\* Init establishes the invariant of the audit log.
LEMMA InitAuditInv == Init => AuditInv
  BY DEF Init, AuditInv, RunIsAudited, RejectionIsAudited, RejectingIsAudited

\* Ending calls keeps it.
LEMMA ReturnAuditInv ==
    ASSUME TypeOK, AuditInv, NEW S \in SUBSET Calls, Return(S),
           UNCHANGED <<gpc, gid, everRejected, audited>>
    PROVE  AuditInv'
  BY DEF Return, TypeOK, CallType, AuditInv, RunIsAudited, RejectionIsAudited,
         RejectingIsAudited

\* The inductive step: an app reaches the UPDATE of a rejection, and a call its
\* handler, only through the step that records the event.
LEMMA AuditInvStep ==
    ASSUME TypeOK, AuditInv, [Next]_vars
    PROVE  AuditInv'
<1> USE DEF TypeOK, CallType, GuiType, HistoryType,
            AuditInv, RunIsAudited, RejectionIsAudited, RejectingIsAudited,
            db, server, call, gui, history, GoTo, GuiGoTo
<1>1. ASSUME NEW c \in Calls, NEW p \in PlansOf[ServerOf[c]], NEW t \in Targets,
             StartCall(c, t, p)
      PROVE  AuditInv'
  BY <1>1 DEF StartCall
<1>2. ASSUME NEW c \in Calls, AuthorizeCheck(c) PROVE AuditInv'
  BY <1>2 DEF AuthorizeCheck
<1>3. ASSUME NEW c \in Calls,
             AuthorizeError(c) \/ GateError(c) \/ AuditAuthorizeError(c) \/ AuditExecution(c)
      PROVE  AuditInv'
  BY <1>3, ReturnAuditInv
     DEF AuthorizeError, GateError, AuditAuthorizeError, AuditExecution, EndCall
<1>4. ASSUME NEW c \in Calls, ConsumeSelect(c) PROVE AuditInv'
  BY <1>4 DEF ConsumeSelect
<1>5. ASSUME NEW c \in Calls, NEW id \in Ids, ConsumeUpdate(c, id) PROVE AuditInv'
  BY <1>5 DEF ConsumeUpdate
<1>6. ASSUME NEW c \in Calls, NEW id \in Ids, ConsumeMiss(c, id) PROVE AuditInv'
  BY <1>6 DEF ConsumeMiss
<1>7. ASSUME NEW c \in Calls, NEW id \in Ids, QueueCall(c, id) PROVE AuditInv'
  BY <1>7 DEF QueueCall
<1>8. ASSUME NEW c \in Calls, AuditAuthorize(c) PROVE AuditInv'
  BY <1>8, ReturnAuditInv DEF AuditAuthorize
<1>9. ASSUME NEW c \in Calls, RunHandler(c) PROVE AuditInv'
  BY <1>9 DEF RunHandler
<1>10. ASSUME NEW c \in Calls, NEW id \in Ids, RunRequest(c, id) PROVE AuditInv'
  BY <1>10 DEF RunRequest
<1>11. ASSUME NEW c \in Calls, RunRequestError(c) PROVE AuditInv'
  BY <1>11 DEF RunRequestError
<1>12. ASSUME NEW s \in Servers, ServerRestart(s) PROVE AuditInv'
  BY <1>12 DEF ServerRestart, Return
<1>13. ASSUME NEW g \in GUIs, NEW id \in Ids, BeginApprove(g, id) \/ BeginReject(g, id)
       PROVE  AuditInv'
  BY <1>13 DEF BeginApprove, BeginReject, BeginDecision
<1>14. ASSUME NEW g \in GUIs, ApproveGet(g) \/ RejectGet(g) PROVE AuditInv'
  BY <1>14 DEF ApproveGet, RejectGet, GetPending
<1>15. ASSUME NEW g \in GUIs, ApproveUpdate(g) PROVE AuditInv'
  BY <1>15 DEF ApproveUpdate
<1>16. ASSUME NEW g \in GUIs, RejectUpdate(g) PROVE AuditInv'
  BY <1>16 DEF RejectUpdate
<1>17. ASSUME NEW g \in GUIs, ApproveAudit(g) \/ RejectAudit(g) PROVE AuditInv'
  BY <1>17 DEF ApproveAudit, RejectAudit, AuditDecision
<1>18. ASSUME NEW g \in GUIs, DecisionError(g) PROVE AuditInv'
  BY <1>18 DEF DecisionError
<1>19. ASSUME NEW g \in GUIs, GuiRestart(g) PROVE AuditInv'
  BY <1>19 DEF GuiRestart
<1>20. CASE Tick
  BY <1>20 DEF Tick
<1>21. CASE UNCHANGED vars
  BY <1>21 DEF vars
<1>22. QED
  BY NextSteps, <1>1, <1>2, <1>3, <1>4, <1>5, <1>6, <1>7, <1>8, <1>9, <1>10, <1>11,
     <1>12, <1>13, <1>14, <1>15, <1>16, <1>17, <1>18, <1>19, <1>20, <1>21

\* The audit log and the steps of calls and apps agree in every reachable state.
LEMMA AuditInvariant == Spec => []AuditInv
<1>1. TypeOK /\ AuditInv /\ [Next]_vars => AuditInv'
  BY AuditInvStep
<1>2. QED
  BY <1>1, InitAuditInv, TypeCorrect, PTL DEF Spec

\* No handler runs before its mcp_authorize event is in the audit log, whatever
\* fails, dies or restarts (authorize_request_with_approval).
THEOREM RunIsAuditedHolds == Spec => []RunIsAudited
<1>1. AuditInv => RunIsAudited
  BY DEF AuditInv
<1>2. QED
  BY <1>1, AuditInvariant, PTL

\* A rejection never reaches a row without its event in the audit log, however
\* many apps decide (reject_pending_execution_with_origin_mut records first).
THEOREM RejectionIsAuditedHolds == Spec => []RejectionIsAudited
<1>1. AuditInv => RejectionIsAudited
  BY DEF AuditInv
<1>2. QED
  BY <1>1, AuditInvariant, PTL
=============================================================================
