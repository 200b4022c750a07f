--------------------------- MODULE SessionFencing ---------------------------
(***************************************************************************)
(* The session-owned state that ConnectionManager keeps for one profile    *)
(* and the asynchronous jobs that read a driver and write back into it:    *)
(* fenced fetches of the object tree, guarded installs of per-database     *)
(* connections, database refreshes of the sidebar, and the writers that    *)
(* look at no generation (context bar, completion, drift preflight, drop   *)
(* rollback, the workspace's refresh of the schema, the capture made on    *)
(* connect). The UI thread runs a job undisturbed between its awaits, so   *)
(* each job is two steps: it captures, and later it applies. In between    *)
(* the session may be replaced, invalidated or given other slots.          *)
(*                                                                         *)
(* Contents are abstracted to where they come from: the generation of the  *)
(* session they were read in, or Raw if their writer looked at none.       *)
(* Each database has one table and one schema of views.                    *)
(***************************************************************************)
EXTENDS Integers

CONSTANTS
    Databases,     \* names of databases
    Primary,       \* the one the primary connection is bound to
    Handles,       \* connection objects, told apart by Arc::ptr_eq
    NoHandle,
    Jobs,          \* jobs in flight at one time
    Strategies,    \* schema_loading_strategy of the driver
    MaxRequests    \* bounds what users and views ask for

ASSUME FencingAssumption ==
    /\ Primary \in Databases
    /\ NoHandle \notin Handles
    /\ Strategies \subseteq {"perdb", "lazy", "single"}
    /\ MaxRequests \in Nat

None == 0     \* no content; no session
Raw == -1     \* content of an unchecked session

VARIABLES
    strategy,
    gen, nextGen,           \* session_generations, next_session_generation
    conn,                   \* ConnectedProfile.connection
    schema,                 \* ConnectedProfile.schema
    current,                \* its current_database() is Primary
    cache, details, list,   \* database_schemas, table_details, database_lists
    slot,                   \* database_connections
    inv, slotRev, detRev, viewRev,   \* the revision ledgers
    pending,                \* pending_operations of (profile, database)
    job,                    \* what each asynchronous job captured
    requests

session == <<gen, nextGen, conn>>
snapshot == <<schema, current>>
caches == <<cache, details, list>>
ledgers == <<inv, slotRev, detRev, viewRev>>
vars == <<strategy, session, snapshot, caches, slot, ledgers, pending, job,
          requests>>

FetchKinds == {"list", "schema", "details", "views"}
Fenced == FetchKinds \union {"install", "click", "refresh"}
Unchecked == {"context", "prefetch", "lookup", "workspace", "capture"}
Kinds == Fenced \union Unchecked \union {"drop", "idle"}

\* A job without one of the parts keeps the default. stale is history: an
\* event that makes the job obsolete happened since it captured.
Idle == [kind |-> "idle", db |-> Primary, gen |-> None, conn |-> NoHandle,
         inv |-> 0, slot |-> 0, sub |-> 0, heldSchema |-> None,
         heldSlot |-> NoHandle, heldCache |-> None, heldDetails |-> None,
         stale |-> FALSE]

Init ==
    /\ strategy \in Strategies
    /\ gen = None /\ nextGen = 0 /\ conn = NoHandle
    /\ schema = None /\ current = FALSE
    /\ cache = [d \in Databases |-> None]
    /\ details = [d \in Databases |-> None]
    /\ list = None
    /\ slot = [d \in Databases |-> NoHandle]
    /\ inv = 0
    /\ slotRev = [d \in Databases |-> 0]
    /\ detRev = [d \in Databases |-> 0]
    /\ viewRev = [d \in Databases |-> 0]
    /\ pending = {}
    /\ job = [j \in Jobs |-> Idle]
    /\ requests = 0

Request ==
    /\ requests < MaxRequests
    /\ requests' = requests + 1

(***************************************************************************)
(* What makes a captured request obsolete                                  *)
(***************************************************************************)
Obsolete(jobs, S) ==
    [j \in Jobs |-> IF j \in S /\ jobs[j].kind \in Fenced
                      THEN [jobs[j] EXCEPT !.stale = TRUE]
                      ELSE jobs[j]]

\* A slot of d changed, or d was invalidated: every request about d.
AboutDatabase(d) == {j \in Jobs : job[j].kind # "list" /\ job[j].db = d}

Current(d) == current /\ d = Primary    \* schema.current_database() is d

\* resolve_connection_for_execution: NoHandle is PendingDatabaseConnection.
Resolve(d) == IF strategy # "perdb" \/ Current(d) THEN conn ELSE slot[d]

(***************************************************************************)
(* Sessions                                                                *)
(***************************************************************************)
\* add_connection replaces a live session too; h may be an object that was
\* installed before, s tells whether the driver's schema() succeeded.
AddConnection(h, s, jobs) ==
    /\ Request
    /\ nextGen' = nextGen + 1
    /\ gen' = nextGen'
    /\ conn' = h
    /\ schema' = IF s THEN nextGen' ELSE None
    /\ current' = s
    /\ cache' = [d \in Databases |-> None]
    /\ details' = [d \in Databases |-> None]
    /\ list' = None
    /\ slot' = [d \in Databases |-> NoHandle]
    /\ slotRev' = [d \in Databases |-> 0]
    /\ detRev' = [d \in Databases |-> 0]
    /\ viewRev' = [d \in Databases |-> 0]
    /\ pending' = {}
    /\ job' = Obsolete(jobs, Jobs)
    /\ UNCHANGED <<strategy, inv>>

Connect(h, s) == AddConnection(h, s, job)

\* connect_via_pipeline goes on with the capture of the new session's tables.
ConnectViaPipeline(j, h, s) ==
    /\ job[j] = Idle
    /\ AddConnection(h, s, [job EXCEPT ![j] = [Idle EXCEPT !.kind = "capture", !.conn = h]])

\* Mutated form: the generation of the profile survives its session.
Disconnect_KeepsGeneration ==
    /\ gen # None
    /\ Request
    /\ gen' = gen
    /\ conn' = NoHandle
    /\ schema' = None /\ current' = FALSE
    /\ cache' = [d \in Databases |-> None]
    /\ details' = [d \in Databases |-> None]
    /\ list' = None
    /\ slot' = [d \in Databases |-> NoHandle]
    /\ inv' = 0
    /\ slotRev' = [d \in Databases |-> 0]
    /\ detRev' = [d \in Databases |-> 0]
    /\ viewRev' = [d \in Databases |-> 0]
    /\ pending' = {}
    /\ job' = Obsolete(job, Jobs)
    /\ UNCHANGED <<strategy, nextGen>>

Disconnect ==
    /\ gen # None
    /\ Request
    /\ gen' = None
    /\ conn' = NoHandle
    /\ schema' = None /\ current' = FALSE
    /\ cache' = [d \in Databases |-> None]
    /\ details' = [d \in Databases |-> None]
    /\ list' = None
    /\ slot' = [d \in Databases |-> NoHandle]
    /\ inv' = 0
    /\ slotRev' = [d \in Databases |-> 0]
    /\ detRev' = [d \in Databases |-> 0]
    /\ viewRev' = [d \in Databases |-> 0]
    /\ pending' = {}
    /\ job' = Obsolete(job, Jobs)
    /\ UNCHANGED <<strategy, nextGen>>

\* Puts h (NoHandle: nothing) in the slot of d with n ledger bumps.
SetSlot(d, h, n, jobs) ==
    /\ slot' = [slot EXCEPT ![d] = h]
    /\ slotRev' = [slotRev EXCEPT ![d] = @ + n]
    /\ job' = Obsolete(jobs, AboutDatabase(d))

\* A cancelled query gives up its connection: remove_database_connection.
RemoveDatabaseConnection(d) ==
    /\ Request
    /\ slot[d] # NoHandle
    /\ SetSlot(d, NoHandle, 1, job)
    /\ UNCHANGED <<strategy, session, snapshot, caches, inv, detRev, viewRev,
                   pending>>

\* close_database forgets the schema; only a slot that was there bumps.
CloseDatabase(d) ==
    /\ gen # None
    /\ Request
    /\ cache' = [cache EXCEPT ![d] = None]
    /\ IF slot[d] # NoHandle
         THEN SetSlot(d, NoHandle, 1, job)
         ELSE UNCHANGED <<slot, slotRev, job>>
    /\ UNCHANGED <<strategy, session, snapshot, details, list, inv, detRev,
                   viewRev, pending>>

(***************************************************************************)
(* The checks made when a result arrives                                   *)
(***************************************************************************)
\* Mutated form: the session is told by its connection object alone.
ListCurrent_ByPointer(r) ==
    /\ gen # None
    /\ conn = r.conn
    /\ inv = r.inv

ListCurrent(r) ==
    /\ gen # None
    /\ gen = r.gen /\ conn = r.conn
    /\ inv = r.inv

\* The target must resolve as it did, to the connection that was asked.
TargetMatches(r) ==
    /\ Resolve(r.db) # NoHandle
    /\ Resolve(r.db) = r.conn

SchemaCurrent(r) ==
    /\ gen # None
    /\ gen = r.gen /\ TargetMatches(r) /\ slotRev[r.db] = r.slot
    /\ inv = r.inv

DetailsCurrent(r) ==
    /\ gen # None
    /\ gen = r.gen /\ TargetMatches(r) /\ slotRev[r.db] = r.slot
    /\ inv = r.inv
    /\ detRev[r.db] = r.sub

ViewsCurrent(r) ==
    /\ gen # None
    /\ gen = r.gen /\ TargetMatches(r) /\ slotRev[r.db] = r.slot
    /\ inv = r.inv
    /\ viewRev[r.db] = r.sub

InstallCurrent(r) ==
    /\ gen # None
    /\ gen = r.gen /\ conn = r.conn
    /\ inv = r.inv
    /\ slotRev[r.db] = r.slot /\ slot[r.db] = NoHandle

\* database_refresh_guard_is_same_session and ..._is_current.
SameSession(r) == gen # None /\ gen = r.gen /\ conn = r.conn

\* Mutated form: a look at the slot instead of its revision.
RefreshCurrent_SlotOnly(r) ==
    /\ SameSession(r)
    /\ slot[r.db] = NoHandle

RefreshCurrent(r) ==
    /\ SameSession(r)
    /\ slot[r.db] = NoHandle
    /\ slotRev[r.db] = r.slot

\* What job r must pass before its result is stored.
Accepts(r) ==
    CASE r.kind = "list"    -> ListCurrent(r)
      [] r.kind = "schema"  -> SchemaCurrent(r)
      [] r.kind = "details" -> DetailsCurrent(r)
      [] r.kind = "views"   -> ViewsCurrent(r)
      [] r.kind = "install" -> InstallCurrent(r)
      [] r.kind = "click"   -> RefreshCurrent(r) /\ InstallCurrent(r)
      [] r.kind = "refresh" -> RefreshCurrent(r)

(***************************************************************************)
(* Fenced fetches of the object tree                                       *)
(***************************************************************************)
\* FetchSession: c is the connection asked, n the finer revision.
Capture(kind, d, c, n) ==
    [Idle EXCEPT !.kind = kind, !.db = d, !.gen = gen, !.conn = c, !.inv = inv,
                 !.slot = slotRev[d], !.sub = n]

Begin(j, r) ==
    /\ job[j] = Idle
    /\ job' = [job EXCEPT ![j] = r]

End(j) == [job EXCEPT ![j] = Idle]

PrepareFetchDatabaseList(j) ==
    /\ gen # None /\ list = None
    /\ Request
    /\ Begin(j, [Idle EXCEPT !.kind = "list", !.gen = gen, !.conn = conn,
                             !.inv = inv])
    /\ UNCHANGED <<strategy, session, snapshot, caches, slot, ledgers, pending>>

ApplyFetchDatabaseList(j) ==
    /\ job[j].kind = "list"
    /\ list' = IF ListCurrent(job[j]) THEN job[j].gen ELSE list
    /\ job' = End(j)
    /\ UNCHANGED <<strategy, session, snapshot, cache, details, slot, ledgers,
                   pending, requests>>

PrepareFetchExplicitDatabaseSchema(j, d) ==
    /\ gen # None /\ cache[d] = None
    /\ Resolve(d) # NoHandle
    /\ Request
    /\ Begin(j, Capture("schema", d, Resolve(d), 0))
    /\ UNCHANGED <<strategy, session, snapshot, caches, slot, ledgers, pending>>

ApplyFetchExplicitDatabaseSchema(j) ==
    LET r == job[j] IN
    /\ r.kind = "schema"
    /\ cache' = IF SchemaCurrent(r) THEN [cache EXCEPT ![r.db] = r.gen] ELSE cache
    /\ job' = End(j)
    /\ UNCHANGED <<strategy, session, snapshot, details, list, slot, ledgers,
                   pending, requests>>

\* A retry of one table's details fences the older fetch of that table.
InvalidateTableDetails(d) ==
    /\ gen # None
    /\ Request
    /\ details' = [details EXCEPT ![d] = None]
    /\ detRev' = [detRev EXCEPT ![d] = @ + 1]
    /\ job' = Obsolete(job, {j \in AboutDatabase(d) : job[j].kind = "details"})
    /\ UNCHANGED <<strategy, session, snapshot, cache, list, slot, inv, slotRev,
                   viewRev, pending>>

PrepareFetchTableDetailsFenced(j, d) ==
    /\ gen # None /\ details[d] = None
    /\ Resolve(d) # NoHandle
    /\ Request
    /\ Begin(j, Capture("details", d, Resolve(d), detRev[d]))
    /\ UNCHANGED <<strategy, session, snapshot, caches, slot, ledgers, pending>>

ApplyFetchedTableDetails(j) ==
    LET r == job[j] IN
    /\ r.kind = "details"
    /\ details' = IF DetailsCurrent(r) THEN [details EXCEPT ![r.db] = r.gen]
                                        ELSE details
    /\ job' = End(j)
    /\ UNCHANGED <<strategy, session, snapshot, cache, list, slot, ledgers,
                   pending, requests>>

\* The newest request for the views of a schema supersedes the others.
PrepareRefreshViews(j, d) ==
    /\ gen # None
    /\ Resolve(d) # NoHandle
    /\ Request
    /\ viewRev' = [viewRev EXCEPT ![d] = @ + 1]
    /\ job[j] = Idle
    /\ job' = [Obsolete(job, {i \in AboutDatabase(d) : job[i].kind = "views"})
                  EXCEPT ![j] = Capture("views", d, Resolve(d), viewRev'[d])]
    /\ UNCHANGED <<strategy, session, snapshot, caches, slot, inv, slotRev,
                   detRev, pending>>

\* The views replace those of an entry that is there; where the entry comes
\* from does not change.
ApplyRefreshedViews(j) ==
    /\ job[j].kind = "views"
    /\ job' = End(j)
    /\ UNCHANGED <<strategy, session, snapshot, caches, slot, ledgers, pending,
                   requests>>

\* The driver failed, or a newer attempt of the tree retired this one.
JobFails(j) ==
    /\ job[j].kind \in FetchKinds \union Unchecked \union {"install"}
    /\ job' = End(j)
    /\ UNCHANGED <<strategy, session, snapshot, caches, slot, ledgers, pending,
                   requests>>

(***************************************************************************)
(* Per-database connections                                                *)
(***************************************************************************)
\* The refusals of prepare_database_connection.
MayPrepareDatabaseConnection(d) ==
    /\ gen # None
    /\ strategy = "perdb"
    /\ ~Current(d)
    /\ slot[d] = NoHandle

\* The object tree opens a missing slot for the requests that wait on it.
PrepareDatabaseConnectionGuarded(j, d) ==
    /\ MayPrepareDatabaseConnection(d)
    /\ Request
    /\ Begin(j, Capture("install", d, conn, 0))
    /\ UNCHANGED <<strategy, session, snapshot, caches, slot, ledgers, pending>>

ApplyGuardedDatabaseConnection(j, h) ==
    LET r == job[j] IN
    /\ r.kind = "install"
    /\ IF InstallCurrent(r)
         THEN SetSlot(r.db, h, 1, End(j))
         ELSE job' = End(j) /\ UNCHANGED <<slot, slotRev>>
    /\ UNCHANGED <<strategy, session, snapshot, caches, inv, detRev, viewRev,
                   pending, requests>>

\* A click on a database in the sidebar, with the pending marker.
HandleConnectionPerDatabaseClick(j, d) ==
    /\ d \notin pending
    /\ MayPrepareDatabaseConnection(d)
    /\ Request
    /\ Begin(j, Capture("click", d, conn, 0))
    /\ pending' = pending \union {d}
    /\ UNCHANGED <<strategy, session, snapshot, caches, slot, ledgers>>

\* Mutated form: every job releases the marker of its database.
ReleaseMarker_Always(r) ==
    pending' = pending \ {r.db}

\* The marker is this job's own only in the session that it captured.
ReleaseMarker(r) ==
    pending' = IF SameSession(r) THEN pending \ {r.db} ELSE pending

\* ok: the driver answered and the task was not cancelled.
ClickArrives(j, h, ok) ==
    LET r == job[j] IN
    /\ r.kind = "click"
    /\ ReleaseMarker(r)
    /\ IF ok /\ RefreshCurrent(r) /\ InstallCurrent(r)
         THEN SetSlot(r.db, h, 1, End(j))
         ELSE job' = End(j) /\ UNCHANGED <<slot, slotRev>>
    /\ UNCHANGED <<strategy, session, snapshot, caches, inv, detRev, viewRev,
                   requests>>

(***************************************************************************)
(* Refreshing one database from the sidebar                                *)
(***************************************************************************)
\* resolve_database_refresh_mode gives a mode.
MayRefresh(d) ==
    /\ gen # None
    /\ \/ strategy = "lazy"
       \/ strategy = "perdb" /\ (slot[d] # NoHandle \/ Current(d))

\* take_database_refresh_state: what is known of d moves into the job, and
\* the guard is captured after the bumps.
TakeRefreshState(j, d) ==
    LET bumps == IF slot[d] # NoHandle THEN 2 ELSE 1
        taken == slot[d] = NoHandle /\ Current(d)
    IN
    /\ cache' = [cache EXCEPT ![d] = None]
    /\ details' = [details EXCEPT ![d] = None]
    /\ schema' = IF taken THEN None ELSE schema
    /\ current' = (current /\ ~taken)
    /\ slot' = [slot EXCEPT ![d] = NoHandle]
    /\ slotRev' = [slotRev EXCEPT ![d] = @ + bumps]
    /\ job' = [Obsolete(job, AboutDatabase(d)) EXCEPT ![j] =
                 [Idle EXCEPT !.kind = "refresh", !.db = d, !.gen = gen,
                    !.conn = conn, !.slot = slotRev[d] + bumps,
                    !.heldSchema = IF taken THEN schema ELSE None, !.heldSlot = slot[d],
                    !.heldCache = cache[d], !.heldDetails = details[d]]]

StartRefresh(j, d) ==
    /\ MayRefresh(d)
    /\ d \notin pending
    /\ ~(slot[d] # NoHandle /\ Current(d))
    /\ Request
    /\ job[j] = Idle
    /\ TakeRefreshState(j, d)
    /\ pending' = pending \union {d}
    /\ UNCHANGED <<strategy, session, list, inv, detRev, viewRev>>

\* A slot for the current database: prepare_database_connection refuses, and
\* what was taken is put back at once.
RefreshRefused(d) ==
    /\ MayRefresh(d)
    /\ d \notin pending
    /\ slot[d] # NoHandle /\ Current(d)
    /\ Request
    /\ SetSlot(d, slot[d], 3, job)
    /\ UNCHANGED <<strategy, session, snapshot, caches, inv, detRev, viewRev,
                   pending>>

\* The guard is stale: what the job holds is dropped with it.
RefreshStale(j) ==
    /\ job[j].kind = "refresh"
    /\ ~RefreshCurrent(job[j])
    /\ ReleaseMarker(job[j])
    /\ job' = End(j)
    /\ UNCHANGED <<strategy, session, snapshot, caches, slot, ledgers, requests>>

\* Refreshed and RefreshedSecondary.
RefreshArrives(j, h) ==
    LET r == job[j] IN
    /\ r.kind = "refresh"
    /\ RefreshCurrent(r)
    /\ pending' = pending \ {r.db}
    /\ IF r.heldSlot # NoHandle
         THEN SetSlot(r.db, h, 1, End(j)) /\ UNCHANGED <<cache, snapshot>>
         ELSE /\ IF strategy = "lazy"
                   THEN /\ cache' = [cache EXCEPT ![r.db] = r.gen]
                        /\ UNCHANGED snapshot
                   ELSE schema' = r.gen /\ current' = TRUE /\ UNCHANGED cache
              /\ job' = End(j)
              /\ UNCHANGED <<slot, slotRev>>
    /\ UNCHANGED <<strategy, session, details, list, inv, detRev, viewRev,
                   requests>>

\* Failed and Cancelled: restore_database_refresh_state, which never replaces
\* what a fetch stored meanwhile.
RefreshFails(j) ==
    LET r == job[j]
        back == r.heldSchema # None /\ schema = None /\ cache[r.db] = None
    IN
    /\ r.kind = "refresh"
    /\ RefreshCurrent(r)
    /\ pending' = pending \ {r.db}
    /\ IF r.heldSlot # NoHandle
         THEN SetSlot(r.db, r.heldSlot, 1, End(j)) /\ UNCHANGED snapshot
         ELSE /\ schema' = IF back THEN r.heldSchema ELSE schema
              /\ current' = (current \/ back)
              /\ job' = End(j)
              /\ UNCHANGED <<slot, slotRev>>
    /\ cache' = [cache EXCEPT ![r.db] = IF @ = None THEN r.heldCache ELSE @]
    /\ details' = [details EXCEPT ![r.db] = IF @ = None THEN r.heldDetails ELSE @]
    /\ UNCHANGED <<strategy, session, list, inv, detRev, viewRev, requests>>

(***************************************************************************)
(* Writers that look at no generation                                      *)
(***************************************************************************)
\* The database picker of a document opens a connection.
ConnectToDatabase(j, d) ==
    /\ MayPrepareDatabaseConnection(d)
    /\ Request
    /\ Begin(j, [Idle EXCEPT !.kind = "context", !.db = d])
    /\ UNCHANGED <<strategy, session, snapshot, caches, slot, ledgers, pending>>

ConnectToDatabaseArrives(j, h) ==
    LET r == job[j] IN
    /\ r.kind = "context"
    /\ IF gen # None
         THEN SetSlot(r.db, h, 1, End(j))
         ELSE job' = End(j) /\ UNCHANGED <<slot, slotRev>>
    /\ UNCHANGED <<strategy, session, snapshot, caches, inv, detRev, viewRev,
                   pending, requests>>

\* Completion prefetches the schema of a lazily loaded database.
PrefetchSchema(j, d) ==
    /\ gen # None /\ strategy = "lazy" /\ cache[d] = None
    /\ Request
    /\ Begin(j, [Idle EXCEPT !.kind = "prefetch", !.db = d])
    /\ UNCHANGED <<strategy, session, snapshot, caches, slot, ledgers, pending>>

PrefetchArrives(j) ==
    /\ job[j].kind = "prefetch"
    /\ cache' = IF gen # None THEN [cache EXCEPT ![job[j].db] = Raw] ELSE cache
    /\ job' = End(j)
    /\ UNCHANGED <<strategy, session, snapshot, details, list, slot, ledgers,
                   pending, requests>>

\* Completion and the data grid look up the details of a table.
PrefetchTableDetails(j, d) ==
    /\ gen # None /\ details[d] = None
    /\ Request
    /\ Begin(j, [Idle EXCEPT !.kind = "lookup", !.db = d])
    /\ UNCHANGED <<strategy, session, snapshot, caches, slot, ledgers, pending>>

\* The drift preflight of a query reads the details of a table again.
StartDriftPreflight(j, d) ==
    /\ gen # None
    /\ Request
    /\ Begin(j, [Idle EXCEPT !.kind = "lookup", !.db = d])
    /\ UNCHANGED <<strategy, session, snapshot, caches, slot, ledgers, pending>>

TableDetailsArrive(j) ==
    /\ job[j].kind = "lookup"
    /\ details' = IF gen # None THEN [details EXCEPT ![job[j].db] = Raw] ELSE details
    /\ job' = End(j)
    /\ UNCHANGED <<strategy, session, snapshot, cache, list, slot, ledgers,
                   pending, requests>>

\* hydrate_current_capture knows the session by its connection object, and
\* fills only what is missing; JobFails stands for an overtaken capture and
\* for an active database that is another one.
HydrateCurrentCapture(j) ==
    LET r == job[j] IN
    /\ r.kind = "capture"
    /\ details' = IF conn = r.conn /\ details[r.db] = None
                    THEN [details EXCEPT ![r.db] = Raw] ELSE details
    /\ job' = End(j)
    /\ UNCHANGED <<strategy, session, snapshot, cache, list, slot, ledgers,
                   pending, requests>>

\* Workspace::refresh_schema reads the schema of the active connection.
RefreshSchema(j) ==
    /\ gen # None
    /\ Request
    /\ Begin(j, [Idle EXCEPT !.kind = "workspace"])
    /\ UNCHANGED <<strategy, session, snapshot, caches, slot, ledgers, pending>>

\* Requests that were sent through the slot of the primary database, which
\* resolves to the primary connection once there is a snapshot.
Shadowed ==
    {i \in AboutDatabase(Primary) :
        /\ job[i].kind \in {"schema", "details", "views"}
        /\ Resolve(Primary) \notin {NoHandle, conn}}

\* The schema goes into any live session, with no revision.
RefreshSchemaArrives(j) ==
    /\ job[j].kind = "workspace"
    /\ IF gen # None
         THEN /\ schema' = Raw /\ current' = TRUE
              /\ job' = Obsolete(End(j), Shadowed)
         ELSE job' = End(j) /\ UNCHANGED snapshot
    /\ UNCHANGED <<strategy, session, caches, slot, ledgers, pending, requests>>

\* A table was dropped: its details go, and no revision moves.
InvalidateObjectCache(d) ==
    /\ gen # None
    /\ Request
    /\ details' = [details EXCEPT ![d] = None]
    /\ UNCHANGED <<strategy, session, snapshot, cache, list, slot, ledgers,
                   pending, job>>

\* prepare_database_drop_release takes the slot of the database to drop.
PrepareDatabaseDropRelease(j, d) ==
    /\ gen # None
    /\ slot[d] # NoHandle \/ ~(strategy = "perdb" /\ Current(d))
    /\ Request
    /\ job[j] = Idle
    /\ LET r == [Idle EXCEPT !.kind = "drop", !.db = d, !.heldSlot = slot[d],
                    !.heldCache = IF slot[d] # NoHandle THEN cache[d] ELSE None]
       IN IF slot[d] # NoHandle
            THEN /\ SetSlot(d, NoHandle, 1, [job EXCEPT ![j] = r])
                 /\ cache' = [cache EXCEPT ![d] = None]
            ELSE /\ job' = [job EXCEPT ![j] = r]
                 /\ UNCHANGED <<slot, slotRev, cache>>
    /\ UNCHANGED <<strategy, session, snapshot, details, list, inv, detRev,
                   viewRev, pending>>

\* Dropped: finalize_successful_database_release and
\* invalidate_database_cache, which rejects every fetch of the profile; a
\* snapshot stays without its current database.
DatabaseDropped(j) ==
    LET d == job[j].db IN
    /\ job[j].kind = "drop"
    /\ IF gen = None
         THEN job' = End(j) /\ UNCHANGED <<current, cache, details, inv, slot, slotRev>>
         ELSE /\ cache' = [cache EXCEPT ![d] = None]
              /\ details' = [details EXCEPT ![d] = None]
              /\ current' = (current /\ d # Primary)
              /\ inv' = inv + 1
              /\ slot' = [slot EXCEPT ![d] = NoHandle]
              /\ slotRev' = [slotRev EXCEPT ![d] =
                               IF slot[d] # NoHandle THEN @ + 1 ELSE @]
              /\ job' = Obsolete(End(j), {i \in Jobs : job[i].kind # "refresh"}
                           \union IF slot[d] # NoHandle THEN AboutDatabase(d)
                                                       ELSE {})
    /\ UNCHANGED <<strategy, session, schema, list, detRev, viewRev, pending,
                   requests>>

\* Failed or cancelled: back says whether the connection is still held, and
\* restore_database_drop_release then puts it into any live session.
DropFails(j, back) ==
    LET r == job[j] IN
    /\ r.kind = "drop"
    /\ IF back /\ r.heldSlot # NoHandle /\ gen # None
         THEN /\ SetSlot(r.db, r.heldSlot, 1, End(j))
              /\ cache' = IF r.heldCache # None THEN [cache EXCEPT ![r.db] = Raw]
                                                ELSE cache
         ELSE job' = End(j) /\ UNCHANGED <<slot, slotRev, cache>>
    /\ UNCHANGED <<strategy, session, snapshot, details, list, inv, detRev,
                   viewRev, pending, requests>>

Next ==
    \/ \E h \in Handles, s \in BOOLEAN : Connect(h, s)
    \/ Disconnect
    \/ \E d \in Databases :
         \/ RemoveDatabaseConnection(d)
         \/ CloseDatabase(d)
         \/ InvalidateTableDetails(d)
         \/ InvalidateObjectCache(d)
         \/ RefreshRefused(d)
    \/ \E j \in Jobs :
         \/ PrepareFetchDatabaseList(j) \/ ApplyFetchDatabaseList(j)
         \/ ApplyFetchExplicitDatabaseSchema(j)
         \/ ApplyFetchedTableDetails(j)
         \/ ApplyRefreshedViews(j)
         \/ JobFails(j)
         \/ RefreshStale(j) \/ RefreshFails(j)
         \/ PrefetchArrives(j)
         \/ TableDetailsArrive(j)
         \/ HydrateCurrentCapture(j)
         \/ RefreshSchema(j) \/ RefreshSchemaArrives(j)
         \/ DatabaseDropped(j)
         \/ \E back \in BOOLEAN : DropFails(j, back)
    \/ \E j \in Jobs, d \in Databases :
         \/ PrepareFetchExplicitDatabaseSchema(j, d)
         \/ PrepareFetchTableDetailsFenced(j, d)
         \/ PrepareRefreshViews(j, d)
         \/ PrepareDatabaseConnectionGuarded(j, d)
         \/ HandleConnectionPerDatabaseClick(j, d)
         \/ StartRefresh(j, d)
         \/ ConnectToDatabase(j, d)
         \/ PrefetchSchema(j, d)
         \/ PrefetchTableDetails(j, d)
         \/ StartDriftPreflight(j, d)
         \/ PrepareDatabaseDropRelease(j, d)
    \/ \E j \in Jobs, h \in Handles :
         \/ \E s \in BOOLEAN : ConnectViaPipeline(j, h, s)
         \/ ApplyGuardedDatabaseConnection(j, h)
         \/ \E ok \in BOOLEAN : ClickArrives(j, h, ok)
         \/ RefreshArrives(j, h)
         \/ ConnectToDatabaseArrives(j, h)

Spec == Init /\ [][Next]_vars

(***************************************************************************)
(* Properties                                                              *)
(***************************************************************************)
Origins == Nat \union {Raw}

JobRecords ==
    [kind : Kinds, db : Databases, gen : Nat, conn : Handles \union {NoHandle},
     inv : Nat, slot : Nat, sub : Nat, heldSchema : Origins,
     heldSlot : Handles \union {NoHandle}, heldCache : Origins,
     heldDetails : Origins, stale : BOOLEAN]

\* Every variable has its type; a generation is installed exactly while a
\* connection is ("entries exist exactly while the profile is connected").
TypeOK ==
    /\ strategy \in Strategies
    /\ nextGen \in Nat /\ gen \in 0..nextGen
    /\ conn \in Handles \union {NoHandle}
    /\ (gen = None) <=> (conn = NoHandle)
    /\ schema \in Origins
    /\ current \in BOOLEAN
    /\ cache \in [Databases -> Origins]
    /\ details \in [Databases -> Origins]
    /\ list \in Origins
    /\ slot \in [Databases -> Handles \union {NoHandle}]
    /\ inv \in Nat
    /\ slotRev \in [Databases -> Nat]
    /\ detRev \in [Databases -> Nat]
    /\ viewRev \in [Databases -> Nat]
    /\ pending \subseteq Databases
    /\ job \in [Jobs -> JobRecords]
    /\ requests \in Nat

\* The revision ledgers are reset at session boundaries and connection objects
\* come back, yet a result is accepted exactly when no event made its request
\* obsolete since it was captured: the session did not end, the profile was
\* not invalidated, and the slot, the finer target or the connection that the
\* target resolves to did not change. The last may happen with no revision,
\* when the workspace stores a snapshot over a slot of the primary database
\* (apply_fetch_*, apply_guarded_database_connection, the refresh guard).
FenceIsExact ==
    \A j \in Jobs :
        job[j].kind \in Fenced => (Accepts(job[j]) <=> ~job[j].stale)

\* What the manager shows of a session was read in that session, also after a
\* reconnect over in-flight jobs and after a refresh put back what it held,
\* unless one of the writers that look at no generation stored it. The list of
\* databases has no such writer.
SessionOwned ==
    /\ list \in {None, gen}
    /\ schema \in {None, gen, Raw}
    /\ \A d \in Databases :
         /\ cache[d] \in {None, gen, Raw}
         /\ details[d] \in {None, gen, Raw}

MarkerOwners(d) ==
    {j \in Jobs : /\ job[j].kind \in {"click", "refresh"}
                  /\ job[j].db = d
                  /\ job[j].gen = gen}

\* "The pending marker is unique per profile/target in one session": a marker
\* is there exactly while one job of this session owns it, so a job of an
\* older session that ends late never releases a newer refresh
\* (apply_database_refresh_outcome, handle_connection_per_database_click).
MarkerHasOneOwner ==
    gen # None =>
        \A d \in Databases :
            /\ d \in pending <=> MarkerOwners(d) # {}
            /\ \A i, j \in MarkerOwners(d) : i = j
=============================================================================
