--------------------------- MODULE ApprovalQueue ---------------------------
(***************************************************************************)
(* The MCP approval queue: DBFlux GUIs and MCP server processes share the  *)
(* table app_pending_executions of one SQLite file. Each SQL statement is  *)
(* one atomic step; whatever a process read before it may be stale when    *)
(* its next statement runs. Every statement may fail, every audit record   *)
(* may fail, and every process may die between two steps.                  *)
(***************************************************************************)
EXTENDS Naturals, FiniteSets

CONSTANTS
    GUIs,          \* DBFlux app processes (a person decides in one of them)
    Servers,       \* `dbflux mcp` processes
    Calls,         \* concurrent tool calls
    ServerOf,      \* [Calls -> Servers]
    Ids,           \* pending execution ids; bounds the rows ever inserted
    Plans,         \* (actor, connection, tool, payload) of a governed call
    PlansOf,       \* [Servers -> SUBSET Plans]: the calls of its client id
    RequestTool,   \* the request_execution tool itself
    Governances,   \* governance settings a server may load at startup
    TTL,           \* DEFAULT_APPROVAL_TTL_MS
    MaxTime,       \* bound on the wall clock
    NoId, NoCall, NoPlan   \* Option::None

Targets == Plans \cup {RequestTool}
Verdicts == {"Allow", "RequireApproval", "Deny", "Error"}

ASSUME ApprovalAssumption ==
    /\ ServerOf \in [Calls -> Servers]
    /\ PlansOf \in [Servers -> SUBSET Plans]
    /\ RequestTool \notin Plans
    /\ Governances \subseteq [Targets -> Verdicts]
    /\ TTL \in Nat \ {0}
    /\ MaxTime \in Nat
    /\ NoId \notin Ids
    /\ NoCall \notin Calls
    /\ NoPlan \notin Targets

VARIABLES
    \* the shared database
    now,           \* wall clock
    status,        \* status column; "absent" before INSERT, "deleted" after DELETE
    planOf,        \* plan columns
    expires,       \* expires_at column
    \* MCP servers
    governance,    \* policies, roles, clients: loaded once at startup
    lock,          \* the write guard of ServerState.runtime
    \* tool calls
    pc, target, plan, outcome, grant, candidates, readAt,
    \* the people's app
    gpc, gid,
    \* history
    everApproved, everRejected,  \* ids whose decision reached the row
    audited,                     \* decision events in the audit log
    authAudited,                 \* calls whose mcp_authorize event is recorded
    runs                         \* handler runs authorized by each approval

db == <<now, status, planOf, expires>>
server == <<governance, lock>>
call == <<pc, target, plan, outcome, grant, candidates, readAt>>
gui == <<gpc, gid>>
history == <<everApproved, everRejected, audited, authAudited, runs>>
vars == <<db, server, call, gui, history>>

Statuses == {"absent", "pending", "approved", "rejected", "consumed", "deleted"}
CallSteps == {"idle", "authorize", "select", "consume", "audit", "run", "audit_exec"}
GuiSteps == {"idle", "approve_get", "approve_update", "approve_audit",
             "reject_audit", "reject_get", "reject_update"}
Outcomes == {"none", "allowed", "queued", "denied"}

\* expires_at > now
Unexpired(id) == expires[id] > now

\* Mutated form: the lookup forgets to filter on the status.
PendingRow_AnyStatus(id) == status[id] \notin {"absent", "deleted"} /\ Unexpired(id)

\* WHERE status = 'pending' AND expires_at > now (get_pending, list_pending)
PendingRow(id) == status[id] = "pending" /\ Unexpired(id)

\* The rows "DELETE ... status IN ('rejected','consumed') OR expires_at <= now" removes.
Purgeable(id) ==
    /\ status[id] \notin {"absent", "deleted"}
    /\ status[id] \in {"rejected", "consumed"} \/ ~Unexpired(id)

\* McpRuntime::new purges once; a failed purge is only logged.
purge_terminal_and_expired ==
    \/ status' = [id \in Ids |-> IF Purgeable(id) THEN "deleted" ELSE status[id]]
    \/ UNCHANGED status

Init ==
    /\ now = 0
    /\ status = [id \in Ids |-> "absent"]
    /\ planOf = [id \in Ids |-> NoPlan]
    /\ expires = [id \in Ids |-> 0]
    /\ governance \in [Servers -> Governances]
    /\ lock = [s \in Servers |-> NoCall]
    /\ pc = [c \in Calls |-> "idle"]
    /\ target = [c \in Calls |-> NoPlan]
    /\ plan = [c \in Calls |-> NoPlan]
    /\ outcome = [c \in Calls |-> "none"]
    /\ grant = [c \in Calls |-> NoId]
    /\ candidates = [c \in Calls |-> {}]
    /\ readAt = [c \in Calls |-> 0]
    /\ gpc = [g \in GUIs |-> "idle"]
    /\ gid = [g \in GUIs |-> NoId]
    /\ everApproved = {}
    /\ everRejected = {}
    /\ audited = {}
    /\ authAudited = {}
    /\ runs = [id \in Ids |-> 0]

-----------------------------------------------------------------------------
\* A tool call in a server process.

\* Mutated form: the runtime guard outlives the call that took it.
Return_GuardLeaked(S) ==
    /\ pc' = [c \in Calls |-> IF c \in S THEN "idle" ELSE pc[c]]
    /\ authAudited' = authAudited \ S
    /\ UNCHANGED <<target, plan, outcome, grant, candidates, readAt, lock>>

\* The calls of S end: their futures are dropped with everything they held.
Return(S) ==
    /\ pc' = [c \in Calls |-> IF c \in S THEN "idle" ELSE pc[c]]
    /\ target' = [c \in Calls |-> IF c \in S THEN NoPlan ELSE target[c]]
    /\ plan' = [c \in Calls |-> IF c \in S THEN NoPlan ELSE plan[c]]
    /\ outcome' = [c \in Calls |-> IF c \in S THEN "none" ELSE outcome[c]]
    /\ grant' = [c \in Calls |-> IF c \in S THEN NoId ELSE grant[c]]
    /\ candidates' = [c \in Calls |-> IF c \in S THEN {} ELSE candidates[c]]
    /\ readAt' = [c \in Calls |-> IF c \in S THEN 0 ELSE readAt[c]]
    /\ authAudited' = authAudited \ S
    /\ lock' = [s \in Servers |-> IF lock[s] \in S THEN NoCall ELSE lock[s]]

\* The call answers its client and drops its guard, if it holds it; every `?`
\* on an error does the same.
EndCall(c) ==
    /\ Return({c})
    /\ UNCHANGED <<db, governance, gui, everApproved, everRejected, audited, runs>>

GoTo(c, step) == pc' = [pc EXCEPT ![c] = step]

\* The agent calls tool t; request_execution also carries the plan it queues.
StartCall(c, t, p) ==
    /\ pc[c] = "idle"
    /\ t \in {p, RequestTool}
    /\ GoTo(c, "authorize")
    /\ target' = [target EXCEPT ![c] = t]
    /\ plan' = [plan EXCEPT ![c] = p]
    /\ UNCHANGED <<db, server, outcome, grant, candidates, readAt, gui, history>>

\* runtime.write().await, then the checks of authorize_request_with_approval.
\* A RequireApproval verdict goes to the gate, which exempts the queue tools.
AuthorizeCheck(c) ==
    LET s == ServerOf[c]
        verdict == governance[s][target[c]]
        exempt == verdict = "RequireApproval" /\ target[c] = RequestTool
        toQueue == verdict = "RequireApproval" /\ ~exempt
    IN  /\ pc[c] = "authorize"
        /\ lock[s] = NoCall
        /\ verdict # "Error"
        /\ lock' = [lock EXCEPT ![s] = c]
        /\ GoTo(c, IF toQueue THEN "select" ELSE "audit")
        /\ outcome' = [outcome EXCEPT ![c] =
              IF toQueue THEN "none" ELSE IF verdict = "Deny" THEN "denied" ELSE "allowed"]
        /\ UNCHANGED <<db, governance, target, plan, grant, candidates, readAt, gui, history>>

\* PolicyEngineError: the call fails before anything is audited.
AuthorizeError(c) ==
    /\ pc[c] = "authorize"
    /\ lock[ServerOf[c]] = NoCall
    /\ governance[ServerOf[c]][target[c]] = "Error"
    /\ EndCall(c)

\* Mutated form: the payload of the approved call is not compared.
Consumable_AnyPlan(c) ==
    {id \in Ids : status[id] = "approved" /\ Unexpired(id)}

\* The rows consume_approved tries: approved, unexpired, same plan.
Consumable(c) ==
    {id \in Ids : status[id] = "approved" /\ planOf[id] = plan[c] /\ Unexpired(id)}

\* consume_approved, its SELECT.
ConsumeSelect(c) ==
    /\ pc[c] = "select"
    /\ candidates' = [candidates EXCEPT ![c] = Consumable(c)]
    /\ readAt' = [readAt EXCEPT ![c] = now]
    /\ GoTo(c, "consume")
    /\ UNCHANGED <<db, server, target, plan, outcome, grant, gui, history>>

\* ORDER BY created_at; the TTL is the same for all rows.
Oldest(S) == {id \in S : \A other \in S : expires[id] <= expires[other]}

\* Mutated form: the UPDATE has no status guard.
ConsumeUpdate_Unguarded(c, id) ==
    /\ pc[c] = "consume"
    /\ id \in Oldest(candidates[c])
    /\ status' = [status EXCEPT ![id] = "consumed"]
    /\ grant' = [grant EXCEPT ![c] = id]
    /\ outcome' = [outcome EXCEPT ![c] = "allowed"]
    /\ candidates' = [candidates EXCEPT ![c] = {}]
    /\ GoTo(c, "audit")
    /\ UNCHANGED <<now, planOf, expires, server, target, plan, readAt, gui, history>>

\* consume_approved, one UPDATE ... WHERE id AND status = 'approved'.
ConsumeUpdate(c, id) ==
    /\ pc[c] = "consume"
    /\ id \in Oldest(candidates[c])
    /\ status[id] = "approved"
    /\ status' = [status EXCEPT ![id] = "consumed"]
    /\ grant' = [grant EXCEPT ![c] = id]
    /\ outcome' = [outcome EXCEPT ![c] = "allowed"]
    /\ candidates' = [candidates EXCEPT ![c] = {}]
    /\ GoTo(c, "audit")
    /\ UNCHANGED <<now, planOf, expires, server, target, plan, readAt, gui, history>>

\* Mutated form: the number of changed rows is not looked at.
ConsumeMiss_TakenAnyway(c, id) ==
    /\ pc[c] = "consume"
    /\ id \in Oldest(candidates[c])
    /\ grant' = [grant EXCEPT ![c] = id]
    /\ outcome' = [outcome EXCEPT ![c] = "allowed"]
    /\ GoTo(c, "audit")
    /\ UNCHANGED <<db, server, target, plan, candidates, readAt, gui, history>>

\* The same UPDATE changed no row: another process was faster.
ConsumeMiss(c, id) ==
    /\ pc[c] = "consume"
    /\ id \in Oldest(candidates[c])
    /\ status[id] # "approved"
    /\ candidates' = [candidates EXCEPT ![c] = @ \ {id}]
    /\ UNCHANGED <<db, server, pc, target, plan, outcome, grant, readAt, gui, history>>

\* Mutated form: the INSERT writes a status that status_from_str does not know.
create_pending_BadStatus(id, p) ==
    /\ status[id] = "absent"
    /\ status' = [status EXCEPT ![id] = "queued"]
    /\ planOf' = [planOf EXCEPT ![id] = p]
    /\ expires' = [expires EXCEPT ![id] = now + TTL]
    /\ UNCHANGED now

\* create_pending: INSERT with a fresh uuid and expires_at = now + ttl.
create_pending(id, p) ==
    /\ status[id] = "absent"
    /\ status' = [status EXCEPT ![id] = "pending"]
    /\ planOf' = [planOf EXCEPT ![id] = p]
    /\ expires' = [expires EXCEPT ![id] = now + TTL]
    /\ UNCHANGED now

\* Nothing was consumed: request_execution_mut queues the call itself.
QueueCall(c, id) ==
    /\ pc[c] = "consume"
    /\ candidates[c] = {}
    /\ create_pending(id, plan[c])
    /\ outcome' = [outcome EXCEPT ![c] = "queued"]
    /\ GoTo(c, "audit")
    /\ UNCHANGED <<server, target, plan, grant, candidates, readAt, gui, history>>

\* A statement of the approval gate fails: `?` ends the call.
GateError(c) ==
    /\ pc[c] \in {"select", "consume"}
    /\ EndCall(c)

\* The single mcp_authorize event; only an allowed call goes on to its handler.
AuditAuthorize(c) ==
    /\ pc[c] = "audit"
    /\ IF outcome[c] = "allowed"
       THEN /\ lock' = [lock EXCEPT ![ServerOf[c]] = NoCall]
            /\ authAudited' = authAudited \cup {c}
            /\ GoTo(c, "run")
            /\ UNCHANGED <<target, plan, outcome, grant, candidates, readAt>>
       ELSE Return({c})
    /\ UNCHANGED <<db, governance, gui, everApproved, everRejected, audited, runs>>

\* Mutated form: a failed audit record is logged and the call goes on.
AuditAuthorizeError_Swallowed(c) ==
    /\ pc[c] = "audit"
    /\ outcome[c] = "allowed"
    /\ GoTo(c, "run")
    /\ lock' = [lock EXCEPT ![ServerOf[c]] = NoCall]
    /\ UNCHANGED <<db, governance, target, plan, outcome, grant, candidates, readAt, gui, history>>

\* The event could not be recorded: the call is refused, what the gate did stays.
AuditAuthorizeError(c) ==
    /\ pc[c] = "audit"
    /\ EndCall(c)

\* The handler of an ordinary tool; the guard is no longer held.
RunHandler(c) ==
    /\ pc[c] = "run"
    /\ target[c] # RequestTool
    /\ runs' = [id \in Ids |-> IF id = grant[c] THEN runs[id] + 1 ELSE runs[id]]
    /\ GoTo(c, "audit_exec")
    /\ UNCHANGED <<db, server, target, plan, outcome, grant, candidates, readAt, gui,
                   everApproved, everRejected, audited, authAudited>>

\* The handler of request_execution takes the write guard again and inserts.
RunRequest(c, id) ==
    /\ pc[c] = "run"
    /\ target[c] = RequestTool
    /\ lock[ServerOf[c]] = NoCall
    /\ create_pending(id, plan[c])
    /\ GoTo(c, "audit_exec")
    /\ UNCHANGED <<server, target, plan, outcome, grant, candidates, readAt, gui, history>>

RunRequestError(c) ==
    /\ pc[c] = "run"
    /\ target[c] = RequestTool
    /\ lock[ServerOf[c]] = NoCall
    /\ GoTo(c, "audit_exec")
    /\ UNCHANGED <<db, server, target, plan, outcome, grant, candidates, readAt, gui, history>>

\* audit_execution_with_details under the read guard; a failed record changes
\* only the reply.
AuditExecution(c) ==
    /\ pc[c] = "audit_exec"
    /\ lock[ServerOf[c]] = NoCall
    /\ EndCall(c)

\* The process dies (its calls with it) and starts again: McpRuntime::new
\* purges the table, build_runtime loads the governance settings.
ServerRestart(s) ==
    /\ Return({c \in Calls : ServerOf[c] = s})
    /\ purge_terminal_and_expired
    /\ \E settings \in Governances : governance' = [governance EXCEPT ![s] = settings]
    /\ UNCHANGED <<now, planOf, expires, gui, everApproved, everRejected, audited, runs>>

-----------------------------------------------------------------------------
\* A person decides in the app: *_pending_execution_with_origin_mut.

GuiGoTo(g, step) ==
    /\ gpc' = [gpc EXCEPT ![g] = step]
    /\ gid' = IF step = "idle" THEN [gid EXCEPT ![g] = NoId] ELSE gid

\* approval_handler::get_pending_execution: list_pending, then find by id.
BeginDecision(g, id, step) ==
    /\ gpc[g] = "idle"
    /\ PendingRow(id)
    /\ gpc' = [gpc EXCEPT ![g] = step]
    /\ gid' = [gid EXCEPT ![g] = id]
    /\ UNCHANGED <<db, server, call, history>>

BeginApprove(g, id) == BeginDecision(g, id, "approve_get")

\* Mutated form: the rejection is written before it is audited.
BeginReject_AuditLast(g, id) == BeginDecision(g, id, "reject_get")

BeginReject(g, id) == BeginDecision(g, id, "reject_audit")

\* ApprovalService::approve / reject: get_pending, refused unless still pending.
GetPending(g, from, to) ==
    /\ gpc[g] = from
    /\ PendingRow(gid[g])
    /\ GuiGoTo(g, to)
    /\ UNCHANGED <<db, server, call, history>>

ApproveGet(g) == GetPending(g, "approve_get", "approve_update")

RejectGet(g) == GetPending(g, "reject_get", "reject_update")

\* update_status: UPDATE ... WHERE id, whatever the status is by now. When the
\* row cannot be read back the error hides that it was changed.
ApproveUpdate(g) ==
    /\ gpc[g] = "approve_update"
    /\ status[gid[g]] # "deleted"
    /\ status' = [status EXCEPT ![gid[g]] = "approved"]
    /\ everApproved' = everApproved \cup {gid[g]}
    /\ \E step \in {"approve_audit", "idle"} : GuiGoTo(g, step)
    /\ UNCHANGED <<now, planOf, expires, server, call,
                   everRejected, audited, authAudited, runs>>

\* record_rejection: UPDATE ... WHERE id, whatever the status is by now.
RejectUpdate(g) ==
    /\ gpc[g] = "reject_update"
    /\ status[gid[g]] # "deleted"
    /\ status' = [status EXCEPT ![gid[g]] = "rejected"]
    /\ everRejected' = everRejected \cup {gid[g]}
    /\ GuiGoTo(g, "idle")
    /\ UNCHANGED <<now, planOf, expires, server, call,
                   everApproved, audited, authAudited, runs>>

\* record_audit_event: after the change for an approval, before it for a rejection.
AuditDecision(g, from, to, kind) ==
    /\ gpc[g] = from
    /\ audited' = audited \cup {<<kind, gid[g]>>}
    /\ GuiGoTo(g, to)
    /\ UNCHANGED <<db, server, call, everApproved, everRejected, authAudited, runs>>

ApproveAudit(g) == AuditDecision(g, "approve_audit", "idle", "approve")

RejectAudit(g) == AuditDecision(g, "reject_audit", "reject_get", "reject")

\* Any step may return an error (row gone, statement or audit record failed).
DecisionError(g) ==
    /\ gpc[g] # "idle"
    /\ GuiGoTo(g, "idle")
    /\ UNCHANGED <<db, server, call, history>>

\* The app dies and starts again; its McpRuntime::new purges.
GuiRestart(g) ==
    /\ GuiGoTo(g, "idle")
    /\ purge_terminal_and_expired
    /\ UNCHANGED <<now, planOf, expires, server, call, history>>

-----------------------------------------------------------------------------

Tick ==
    /\ now < MaxTime
    /\ now' = now + 1
    /\ UNCHANGED <<status, planOf, expires, server, call, gui, history>>

Authorize(c) ==
    \/ AuthorizeCheck(c)
    \/ AuthorizeError(c)

CallStep(c) ==
    \/ ConsumeSelect(c)
    \/ \E id \in Ids : ConsumeUpdate(c, id) \/ ConsumeMiss(c, id) \/ QueueCall(c, id)
    \/ GateError(c)
    \/ AuditAuthorize(c)
    \/ AuditAuthorizeError(c)
    \/ RunHandler(c)

LockedStep(c) ==
    \/ \E id \in Ids : RunRequest(c, id)
    \/ RunRequestError(c)
    \/ AuditExecution(c)

GuiStep(g) ==
    \/ \E id \in Ids : BeginApprove(g, id) \/ BeginReject(g, id)
    \/ ApproveGet(g) \/ ApproveUpdate(g) \/ ApproveAudit(g)
    \/ RejectAudit(g) \/ RejectGet(g) \/ RejectUpdate(g)
    \/ DecisionError(g)
    \/ GuiRestart(g)

Next ==
    \/ \E c \in Calls : \E p \in PlansOf[ServerOf[c]] : \E t \in Targets : StartCall(c, t, p)
    \/ \E c \in Calls : Authorize(c) \/ CallStep(c) \/ LockedStep(c)
    \/ \E s \in Servers : ServerRestart(s)
    \/ \E g \in GUIs : GuiStep(g)
    \/ Tick

Spec == Init /\ [][Next]_vars

\* tokio runs every ready future, and its RwLock is a FIFO queue: a waiter is
\* served although other calls take the guard in between. A handler is assumed
\* to return. Nothing is assumed of agents, people, crashes or the clock.
Fairness ==
    \A c \in Calls : WF_vars(CallStep(c)) /\ SF_vars(Authorize(c)) /\ SF_vars(LockedStep(c))

FairSpec == Spec /\ Fairness

-----------------------------------------------------------------------------

DbType ==
    /\ now \in Nat
    /\ status \in [Ids -> Statuses]
    /\ planOf \in [Ids -> Plans \cup {NoPlan}]
    /\ expires \in [Ids -> Nat]

ServerType ==
    /\ governance \in [Servers -> [Targets -> Verdicts]]
    /\ lock \in [Servers -> Calls \cup {NoCall}]

CallType ==
    /\ pc \in [Calls -> CallSteps]
    /\ target \in [Calls -> Targets \cup {NoPlan}]
    /\ plan \in [Calls -> Plans \cup {NoPlan}]
    /\ outcome \in [Calls -> Outcomes]
    /\ grant \in [Calls -> Ids \cup {NoId}]
    /\ candidates \in [Calls -> SUBSET Ids]
    /\ readAt \in [Calls -> Nat]

GuiType ==
    /\ gpc \in [GUIs -> GuiSteps]
    /\ gid \in [GUIs -> Ids \cup {NoId}]

\* An app that is working on a decision holds the id of a row.
HistoryType ==
    /\ \A g \in GUIs : gpc[g] # "idle" => gid[g] \in Ids
    /\ everApproved \subseteq Ids
    /\ everRejected \subseteq Ids
    /\ audited \subseteq {"approve", "reject"} \X Ids
    /\ authAudited \subseteq Calls
    /\ runs \in [Ids -> Nat]

\* Type invariant.
TypeOK == DbType /\ ServerType /\ CallType /\ GuiType /\ HistoryType

\* An approval authorizes at most one run, whatever interleaving of servers,
\* retries, crashes and purges (consume_approved: "so one approval authorizes
\* exactly one call").
OneRunPerApproval == \A id \in Ids : runs[id] <= 1

\* Two calls never hold the same approval between consuming it and running.
GrantExclusive ==
    \A c, d \in Calls : grant[c] = grant[d] /\ grant[c] # NoId => c = d

\* A call that runs under an approval runs exactly the plan a person approved,
\* and its approval had not expired when the call looked it up.
GrantMatchesApproval ==
    \A c \in Calls : grant[c] # NoId =>
        /\ grant[c] \in everApproved
        /\ planOf[grant[c]] = plan[c]
        /\ readAt[c] < expires[grant[c]]

\* A rejected request never runs: once record_rejection changed the row no
\* handler runs, has run, or is about to run under it.
RejectedNeverRuns ==
    \A id \in everRejected : runs[id] = 0 /\ \A c \in Calls : grant[c] # id

\* No handler runs before its mcp_authorize event is in the audit log.
RunIsAudited ==
    \A c \in Calls : pc[c] \in {"run", "audit_exec"} => c \in authAudited

\* A rejected row always has its mcp_reject_execution event.
RejectionIsAudited == \A id \in everRejected : <<"reject", id>> \in audited

\* Once the decision is over (no app is still working on it), an approval that
\* authorized a run has its mcp_approve_execution event ("Every decision is
\* written to the audit log").
ApprovedRunIsAudited ==
    \A id \in Ids : runs[id] > 0 /\ (\A g \in GUIs : gid[g] # id)
                        => <<"approve", id>> \in audited

\* A decision is final: a rejected or consumed row never changes status again,
\* it can only be deleted.
DecisionIsFinal ==
    [][\A id \in Ids : status[id] \in {"rejected", "consumed"} =>
            status'[id] \in {status[id], "deleted"}]_vars

\* What makes the above inductive when one app decides. A row's status agrees
\* with the decisions that reached it.
RowHistory ==
    \A id \in Ids :
        /\ status[id] \in {"absent", "pending"} =>
              id \notin everApproved /\ id \notin everRejected /\ runs[id] = 0
        /\ status[id] \in {"approved", "consumed"} =>
              id \in everApproved /\ id \notin everRejected
        /\ status[id] = "approved" => runs[id] = 0
        /\ id \in everRejected => id \notin everApproved /\ status[id] \in {"rejected", "deleted"}
        /\ runs[id] # 0 => runs[id] = 1 /\ id \in everApproved

\* A call that consumed an approval is its only holder, and has not run yet
\* unless it is writing its execution event.
GrantHistory ==
    \A c \in Calls : grant[c] # NoId =>
        /\ grant[c] \in everApproved
        /\ status[grant[c]] \in {"consumed", "deleted"}
        /\ pc[c] \in {"audit", "run", "audit_exec"}
        /\ pc[c] # "audit_exec" => runs[grant[c]] = 0

\* While the app decides, its row is still pending or already purged.
DecidingHistory ==
    \A g \in GUIs : gpc[g] \notin {"idle", "approve_audit"} =>
        gid[g] \in Ids /\ status[gid[g]] \in {"pending", "deleted"}

\* The only state in which a person's decision, a row and the calls agree.
QueueInv == RowHistory /\ GrantExclusive /\ GrantHistory /\ DecidingHistory

\* What makes GrantMatchesApproval inductive, however many apps decide. A row
\* that can be consumed was approved, and a row under decision was inserted:
\* its columns no longer change.
ApprovedRows ==
    /\ \A id \in Ids : status[id] = "approved" => id \in everApproved
    /\ \A g \in GUIs : gpc[g] # "idle" => status[gid[g]] # "absent"

\* What the SELECT of consume_approved returned stays true of those rows until
\* the UPDATE, whatever other processes did to their status in between.
CandidatesMatch ==
    \A c \in Calls : \A id \in candidates[c] :
        /\ pc[c] = "consume"
        /\ status[id] # "absent"
        /\ planOf[id] = plan[c]
        /\ readAt[c] < expires[id]

\* Only a call past the gate holds an approval, and its row exists.
GrantIsPastGate ==
    \A c \in Calls : grant[c] # NoId =>
        /\ pc[c] \in {"audit", "run", "audit_exec"}
        /\ status[grant[c]] # "absent"

GateInv == ApprovedRows /\ CandidatesMatch /\ GrantIsPastGate /\ GrantMatchesApproval

\* What makes the audit properties inductive: a rejection that may still reach
\* the row is already in the audit log.
RejectingIsAudited ==
    \A g \in GUIs : gpc[g] \in {"reject_get", "reject_update"} =>
        <<"reject", gid[g]>> \in audited

AuditInv == RunIsAudited /\ RejectionIsAudited /\ RejectingIsAudited

\* Every call comes back: no path through the gate leaves the runtime locked
\* or a call waiting for it.
CallReturns == \A c \in Calls : pc[c] # "idle" ~> pc[c] = "idle"

-----------------------------------------------------------------------------
\* Refinement: each row is a request of ApprovalSpec.

Held(id) == \E c \in Calls : grant[c] = id

RowState ==
    [absent |-> "none", pending |-> "waiting", approved |-> "granted",
     rejected |-> "gone", consumed |-> "gone", deleted |-> "gone"]

AbstractState(id) ==
    IF runs[id] > 0 THEN "ran"
    ELSE IF Held(id) THEN "claimed"
    ELSE IF id \in everRejected THEN "refused"
    ELSE RowState[status[id]]

Abstract == INSTANCE ApprovalSpec WITH state <- [id \in Ids |-> AbstractState(id)]

\* The queue implements its promise.
RefinesApprovalSpec == Abstract!Spec
=============================================================================
