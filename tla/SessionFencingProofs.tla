------------------------ MODULE SessionFencingProofs ------------------------
(***************************************************************************)
(* Proofs about SessionFencing for any number of databases, connection     *)
(* objects and jobs.                                                       *)
(*                                                                         *)
(* The argument: within a session the revisions a job captured are never   *)
(* ahead of the ledgers, and the job is obsolete exactly if one of them    *)
(* has moved. The ledgers start again with a session, but generations do   *)
(* not come back, so a job of an older session is rejected by its          *)
(* generation alone. While its slot revision stands, the connection a job  *)
(* resolved is still the one it would resolve now, unless the workspace    *)
(* put a snapshot over the primary slot: then the target resolves to the   *)
(* primary connection for as long as the revisions stand. A snapshot is    *)
(* given back only while nothing was installed in the primary slot.        *)
(***************************************************************************)
EXTENDS SessionFencing, TLAPS

USE DEF None, Raw, snapshot

\* A free place in the table of jobs is a record of a job.
LEMMA IdleType == Idle \in JobRecords
BY FencingAssumption DEF Idle, JobRecords, Kinds, Fenced, FetchKinds, Unchecked, Origins

\* Marking requests obsolete keeps the table of jobs well formed.
LEMMA ObsoleteType ==
    ASSUME NEW jobs \in [Jobs -> JobRecords], NEW S
    PROVE  Obsolete(jobs, S) \in [Jobs -> JobRecords]
<1>1. ASSUME NEW j \in Jobs PROVE [jobs[j] EXCEPT !.stale = TRUE] \in JobRecords
  BY DEF JobRecords
<1> QED BY <1>1 DEF Obsolete

\* What a job captures is a record of a job.
LEMMA CaptureType ==
    ASSUME TypeOK, NEW kind \in Kinds, NEW d \in Databases,
           NEW c \in Handles \union {NoHandle}, NEW n \in Nat
    PROVE  Capture(kind, d, c, n) \in JobRecords
<1>1. gen \in Nat /\ inv \in Nat /\ slotRev[d] \in Nat
  BY DEF TypeOK
<1> QED BY <1>1, IdleType DEF Capture, JobRecords

\* Init establishes the type invariant.
LEMMA TypeCorrectInit == Init => TypeOK
<1> SUFFICES ASSUME Init PROVE TypeOK
  OBVIOUS
<1>1. current \in BOOLEAN
  BY Zenon DEF Init
<1> QED BY <1>1, IdleType, FencingAssumption DEF Init, TypeOK, Origins

\* Every step keeps the type invariant.
LEMMA TypeCorrectStep == TypeOK /\ [Next]_vars => TypeOK'
<1> SUFFICES ASSUME TypeOK, [Next]_vars PROVE TypeOK'
  OBVIOUS
<1> USE FencingAssumption DEF session, caches, ledgers
<1>e. ASSUME NEW j \in Jobs PROVE End(j) \in [Jobs -> JobRecords]
  BY IdleType DEF End, TypeOK
<1>s. ASSUME NEW d \in Databases, NEW h \in Handles \union {NoHandle}, NEW n \in Nat,
             NEW jobs \in [Jobs -> JobRecords], SetSlot(d, h, n, jobs)
      PROVE  /\ slot' \in [Databases -> Handles \union {NoHandle}]
             /\ slotRev' \in [Databases -> Nat]
             /\ job' \in [Jobs -> JobRecords]
  BY <1>s, ObsoleteType DEF SetSlot, TypeOK
<1>b. ASSUME NEW j \in Jobs, NEW r \in JobRecords, Begin(j, r)
      PROVE  job' \in [Jobs -> JobRecords]
  BY <1>b DEF Begin, TypeOK
<1>o. ASSUME NEW S PROVE Obsolete(job, S) \in [Jobs -> JobRecords]
  BY ObsoleteType DEF TypeOK
<1>a. ASSUME NEW h \in Handles, NEW s \in BOOLEAN, NEW jobs \in [Jobs -> JobRecords],
             AddConnection(h, s, jobs)
      PROVE  TypeOK'
  <2>1. job' \in [Jobs -> JobRecords]
    BY <1>a, ObsoleteType DEF AddConnection
  <2>2. current' \in BOOLEAN
    BY <1>a, Zenon DEF AddConnection
  <2>3. nextGen' \in Nat /\ schema' \in Origins
    BY <1>a DEF AddConnection, TypeOK, Origins
  <2> QED BY <1>a, <2>1, <2>2, <2>3 DEF AddConnection, TypeOK, Request, Origins
<1>1. ASSUME NEW h \in Handles, NEW s \in BOOLEAN,
             \/ Connect(h, s)
             \/ \E j \in Jobs : ConnectViaPipeline(j, h, s)
      PROVE  TypeOK'
  <2>1. CASE Connect(h, s)
    BY <1>a, <2>1 DEF Connect, TypeOK
  <2>2. ASSUME NEW j \in Jobs, ConnectViaPipeline(j, h, s) PROVE TypeOK'
    <3>1. [Idle EXCEPT !.kind = "capture", !.conn = h] \in JobRecords
      BY IdleType DEF JobRecords, Kinds, Unchecked
    <3>2. [job EXCEPT ![j] = [Idle EXCEPT !.kind = "capture", !.conn = h]] \in [Jobs -> JobRecords]
      BY <3>1 DEF TypeOK
    <3> QED BY <1>a, <2>2, <3>2 DEF ConnectViaPipeline
  <2> QED BY <1>1, <2>1, <2>2
<1>2. CASE Disconnect
  <2>1. current' \in BOOLEAN /\ job' \in [Jobs -> JobRecords]
    BY <1>2, <1>o, Zenon DEF Disconnect
  <2> QED BY <1>2, <2>1 DEF Disconnect, TypeOK, Request, Origins
<1>3. ASSUME NEW d \in Databases, RemoveDatabaseConnection(d) PROVE TypeOK'
  BY <1>3, <1>s DEF RemoveDatabaseConnection, TypeOK, Request
<1>4. ASSUME NEW d \in Databases, CloseDatabase(d) PROVE TypeOK'
  BY <1>4, <1>s DEF CloseDatabase, TypeOK, Request, Origins
<1>5. ASSUME NEW d \in Databases, InvalidateTableDetails(d) \/ InvalidateObjectCache(d) PROVE TypeOK'
  BY <1>5, <1>o DEF InvalidateTableDetails, InvalidateObjectCache, TypeOK, Request, Origins
<1>6. ASSUME NEW d \in Databases, RefreshRefused(d) PROVE TypeOK'
  <2>1. slot[d] \in Handles \union {NoHandle} /\ job \in [Jobs -> JobRecords]
    BY DEF TypeOK
  <2> QED BY <1>6, <1>s, <2>1 DEF RefreshRefused, TypeOK, Request
<1>7. ASSUME NEW j \in Jobs, PrepareFetchDatabaseList(j) PROVE TypeOK'
  <2>1. [Idle EXCEPT !.kind = "list", !.gen = gen, !.conn = conn, !.inv = inv] \in JobRecords
    <3>1. gen \in Nat /\ conn \in Handles \union {NoHandle} /\ inv \in Nat
      BY DEF TypeOK
    <3> QED BY <3>1, IdleType DEF JobRecords, Kinds, Fenced, FetchKinds
  <2>2. job' \in [Jobs -> JobRecords]
    BY <1>7, <2>1, <1>b DEF PrepareFetchDatabaseList
  <2> QED BY <1>7, <2>2 DEF PrepareFetchDatabaseList, TypeOK, Request
<1>8. ASSUME NEW j \in Jobs, ApplyFetchDatabaseList(j) PROVE TypeOK'
  <2>1. job[j].gen \in Origins
    BY DEF TypeOK, JobRecords, Origins
  <2> QED BY <1>8, <1>e, <2>1 DEF ApplyFetchDatabaseList, TypeOK
<1>9. ASSUME NEW j \in Jobs,
             \/ ApplyFetchExplicitDatabaseSchema(j)
             \/ ApplyFetchedTableDetails(j)
      PROVE  TypeOK'
  <2>1. job[j].gen \in Origins /\ job[j].db \in Databases
    BY DEF TypeOK, JobRecords, Origins
  <2> QED BY <1>9, <1>e, <2>1 DEF ApplyFetchExplicitDatabaseSchema, ApplyFetchedTableDetails, TypeOK
<1>10. ASSUME NEW j \in Jobs, \/ ApplyRefreshedViews(j) \/ JobFails(j) PROVE TypeOK'
  BY <1>10, <1>e DEF ApplyRefreshedViews, JobFails, TypeOK
<1>11. ASSUME NEW j \in Jobs, RefreshStale(j) PROVE TypeOK'
  BY <1>11, <1>e DEF RefreshStale, ReleaseMarker, TypeOK
<1>12. ASSUME NEW j \in Jobs, RefreshFails(j) PROVE TypeOK'
  <2>1. /\ job[j].db \in Databases /\ job[j].heldSlot \in Handles \union {NoHandle}
        /\ job[j].heldCache \in Origins /\ job[j].heldDetails \in Origins
        /\ job[j].heldSchema \in Origins
    BY DEF TypeOK, JobRecords
  <2>2. current' \in BOOLEAN
    BY <1>12, Zenon DEF RefreshFails, TypeOK
  <2>3. /\ slot' \in [Databases -> Handles \union {NoHandle}]
        /\ slotRev' \in [Databases -> Nat]
        /\ job' \in [Jobs -> JobRecords]
    BY <1>12, <1>s, <1>e, <2>1 DEF RefreshFails, TypeOK
  <2> QED BY <1>12, <2>1, <2>2, <2>3 DEF RefreshFails, TypeOK
<1>13. ASSUME NEW j \in Jobs,
              PrefetchArrives(j) \/ TableDetailsArrive(j) \/ HydrateCurrentCapture(j)
       PROVE  TypeOK'
  <2>1. job[j].db \in Databases
    BY DEF TypeOK, JobRecords
  <2> QED BY <1>13, <1>e, <2>1 DEF PrefetchArrives, TableDetailsArrive, HydrateCurrentCapture, TypeOK, Origins
<1>24. ASSUME NEW j \in Jobs, RefreshSchema(j) PROVE TypeOK'
  <2>1. [Idle EXCEPT !.kind = "workspace"] \in JobRecords
    BY IdleType DEF JobRecords, Kinds, Unchecked
  <2>2. job' \in [Jobs -> JobRecords]
    BY <1>24, <1>b, <2>1 DEF RefreshSchema
  <2> QED BY <1>24, <2>2 DEF RefreshSchema, TypeOK, Request
<1>25. ASSUME NEW j \in Jobs, RefreshSchemaArrives(j) PROVE TypeOK'
  <2>1. job' \in [Jobs -> JobRecords]
    <3>1. Obsolete(End(j), Shadowed) \in [Jobs -> JobRecords]
      BY <1>e, ObsoleteType
    <3> QED BY <1>25, <1>e, <3>1 DEF RefreshSchemaArrives
  <2>2. current' \in BOOLEAN
    BY <1>25, Zenon DEF RefreshSchemaArrives, TypeOK
  <2> QED BY <1>25, <2>1, <2>2 DEF RefreshSchemaArrives, TypeOK, Origins
<1>14. ASSUME NEW j \in Jobs, DatabaseDropped(j) PROVE TypeOK'
  <2>1. job[j].db \in Databases
    BY DEF TypeOK, JobRecords
  <2>2. ASSUME NEW S PROVE Obsolete(End(j), S) \in [Jobs -> JobRecords]
    BY <1>e, ObsoleteType
  <2>3. job' \in [Jobs -> JobRecords]
    BY <1>14, <1>e, <2>2 DEF DatabaseDropped
  <2>4. current' \in BOOLEAN
    BY <1>14, Zenon DEF DatabaseDropped, TypeOK
  <2> QED BY <1>14, <2>1, <2>3, <2>4 DEF DatabaseDropped, TypeOK, Origins
<1>15. ASSUME NEW j \in Jobs, NEW back \in BOOLEAN, DropFails(j, back) PROVE TypeOK'
  <2>1. job[j].db \in Databases /\ job[j].heldSlot \in Handles \union {NoHandle}
    BY DEF TypeOK, JobRecords
  <2>2. /\ slot' \in [Databases -> Handles \union {NoHandle}]
        /\ slotRev' \in [Databases -> Nat]
        /\ job' \in [Jobs -> JobRecords]
        /\ cache' \in [Databases -> Origins]
    BY <1>15, <1>s, <1>e, <2>1 DEF DropFails, TypeOK, Origins
  <2> QED BY <1>15, <2>2 DEF DropFails, TypeOK
<1>r. ASSUME NEW d \in Databases PROVE Resolve(d) \in Handles \union {NoHandle}
  BY DEF Resolve, TypeOK
<1>16. ASSUME NEW j \in Jobs, NEW d \in Databases,
              \/ PrepareFetchExplicitDatabaseSchema(j, d)
              \/ PrepareFetchTableDetailsFenced(j, d)
              \/ PrepareDatabaseConnectionGuarded(j, d)
              \/ HandleConnectionPerDatabaseClick(j, d)
       PROVE  TypeOK'
  <2>1. conn \in Handles \union {NoHandle} /\ detRev[d] \in Nat
    BY DEF TypeOK
  <2>2. /\ Capture("schema", d, Resolve(d), 0) \in JobRecords
        /\ Capture("details", d, Resolve(d), detRev[d]) \in JobRecords
        /\ Capture("install", d, conn, 0) \in JobRecords
        /\ Capture("click", d, conn, 0) \in JobRecords
    BY <1>r, <2>1, CaptureType DEF Kinds, Fenced, FetchKinds
  <2>3. job' \in [Jobs -> JobRecords]
    BY <1>16, <1>b, <2>2 DEF PrepareFetchExplicitDatabaseSchema, PrepareFetchTableDetailsFenced,
       PrepareDatabaseConnectionGuarded, HandleConnectionPerDatabaseClick
  <2> QED BY <1>16, <2>3 DEF PrepareFetchExplicitDatabaseSchema, PrepareFetchTableDetailsFenced,
       PrepareDatabaseConnectionGuarded, HandleConnectionPerDatabaseClick, TypeOK, Request
<1>17. ASSUME NEW j \in Jobs, NEW d \in Databases, PrepareRefreshViews(j, d) PROVE TypeOK'
  <2>1. viewRev' \in [Databases -> Nat]
    BY <1>17 DEF PrepareRefreshViews, TypeOK
  <2>2. Capture("views", d, Resolve(d), viewRev'[d]) \in JobRecords
    BY <2>1, <1>r, CaptureType DEF Kinds, Fenced, FetchKinds
  <2>3. job' \in [Jobs -> JobRecords]
    BY <1>17, <1>o, <2>2 DEF PrepareRefreshViews
  <2> QED BY <1>17, <2>1, <2>3 DEF PrepareRefreshViews, TypeOK, Request
<1>18. ASSUME NEW j \in Jobs, NEW d \in Databases, StartRefresh(j, d) PROVE TypeOK'
  <2>1. ASSUME NEW o \in Origins, NEW n \in Nat
        PROVE  [Idle EXCEPT !.kind = "refresh", !.db = d, !.gen = gen,
                    !.conn = conn, !.slot = slotRev[d] + n,
                    !.heldSchema = o, !.heldSlot = slot[d],
                    !.heldCache = cache[d], !.heldDetails = details[d]] \in JobRecords
    <3>1. /\ gen \in Nat /\ conn \in Handles \union {NoHandle} /\ slotRev[d] + n \in Nat
          /\ slot[d] \in Handles \union {NoHandle} /\ cache[d] \in Origins
          /\ details[d] \in Origins
      BY DEF TypeOK
    <3> QED BY <3>1, IdleType DEF JobRecords, Kinds, Fenced, FetchKinds
  <2>2. (IF slot[d] = NoHandle /\ Current(d) THEN schema ELSE None) \in Origins
    BY DEF TypeOK, Origins
  <2>3. job' \in [Jobs -> JobRecords]
    BY <1>18, <2>1, <2>2, <1>o DEF StartRefresh, TakeRefreshState
  <2>4. current' \in BOOLEAN
    BY <1>18, Zenon DEF StartRefresh, TakeRefreshState
  <2> QED BY <1>18, <2>3, <2>4 DEF StartRefresh, TakeRefreshState, TypeOK, Request, Origins
<1>19. ASSUME NEW j \in Jobs, NEW d \in Databases,
              \/ ConnectToDatabase(j, d) \/ PrefetchSchema(j, d)
              \/ PrefetchTableDetails(j, d) \/ StartDriftPreflight(j, d)
       PROVE  TypeOK'
  <2>1. /\ [Idle EXCEPT !.kind = "context", !.db = d] \in JobRecords
        /\ [Idle EXCEPT !.kind = "prefetch", !.db = d] \in JobRecords
        /\ [Idle EXCEPT !.kind = "lookup", !.db = d] \in JobRecords
    BY IdleType DEF JobRecords, Kinds, Unchecked
  <2>2. job' \in [Jobs -> JobRecords]
    BY <1>19, <1>b, <2>1 DEF ConnectToDatabase, PrefetchSchema, PrefetchTableDetails, StartDriftPreflight
  <2> QED BY <1>19, <2>2
       DEF ConnectToDatabase, PrefetchSchema, PrefetchTableDetails, StartDriftPreflight, TypeOK, Request
<1>20. ASSUME NEW j \in Jobs, NEW d \in Databases, PrepareDatabaseDropRelease(j, d) PROVE TypeOK'
  <2> DEFINE r == [Idle EXCEPT !.kind = "drop", !.db = d, !.heldSlot = slot[d],
                    !.heldCache = IF slot[d] # NoHandle THEN cache[d] ELSE None]
  <2>1. r \in JobRecords
    <3>1. /\ slot[d] \in Handles \union {NoHandle} /\ cache[d] \in Origins
          /\ None \in Origins
      BY DEF TypeOK, Origins
    <3> QED BY <3>1, IdleType DEF JobRecords, Kinds
  <2>2. [job EXCEPT ![j] = r] \in [Jobs -> JobRecords]
    BY <2>1 DEF TypeOK
  <2> HIDE DEF r
  <2>3. CASE slot[d] # NoHandle
    <3>1. SetSlot(d, NoHandle, 1, [job EXCEPT ![j] = r]) /\ cache' = [cache EXCEPT ![d] = None]
      BY <1>20, <2>3 DEF PrepareDatabaseDropRelease, r
    <3>2. /\ slot' \in [Databases -> Handles \union {NoHandle}]
          /\ slotRev' \in [Databases -> Nat]
          /\ job' \in [Jobs -> JobRecords]
      BY <1>s, <2>2, <3>1
    <3>3. requests' \in Nat /\ cache' \in [Databases -> Origins]
      BY <1>20, <3>1 DEF PrepareDatabaseDropRelease, TypeOK, Request, Origins
    <3> QED BY <1>20, <3>2, <3>3 DEF PrepareDatabaseDropRelease, TypeOK
  <2>4. CASE slot[d] = NoHandle
    <3>1. job' = [job EXCEPT ![j] = r] /\ UNCHANGED <<slot, slotRev, cache>>
      BY <1>20, <2>4 DEF PrepareDatabaseDropRelease, r
    <3> QED BY <1>20, <2>2, <3>1 DEF PrepareDatabaseDropRelease, TypeOK, Request
  <2> QED BY <2>3, <2>4
<1>21. ASSUME NEW j \in Jobs, NEW h \in Handles,
              \/ ApplyGuardedDatabaseConnection(j, h)
              \/ \E ok \in BOOLEAN : ClickArrives(j, h, ok)
              \/ ConnectToDatabaseArrives(j, h)
       PROVE  TypeOK'
  <2>1. job[j].db \in Databases
    BY DEF TypeOK, JobRecords
  <2>2. /\ slot' \in [Databases -> Handles \union {NoHandle}]
        /\ slotRev' \in [Databases -> Nat]
        /\ job' \in [Jobs -> JobRecords]
    BY <1>21, <1>s, <1>e, <2>1
       DEF ApplyGuardedDatabaseConnection, ClickArrives, ConnectToDatabaseArrives, TypeOK
  <2> QED BY <1>21, <2>2 DEF ApplyGuardedDatabaseConnection, ClickArrives,
       ConnectToDatabaseArrives, ReleaseMarker, TypeOK
<1>22. ASSUME NEW j \in Jobs, NEW h \in Handles, RefreshArrives(j, h) PROVE TypeOK'
  <2>1. job[j].db \in Databases /\ job[j].gen \in Origins
    BY DEF TypeOK, JobRecords, Origins
  <2>2. /\ slot' \in [Databases -> Handles \union {NoHandle}]
        /\ slotRev' \in [Databases -> Nat]
        /\ job' \in [Jobs -> JobRecords]
        /\ cache' \in [Databases -> Origins]
    BY <1>22, <1>s, <1>e, <2>1 DEF RefreshArrives, TypeOK
  <2>3. current' \in BOOLEAN
    BY <1>22, Zenon DEF RefreshArrives, TypeOK
  <2> QED BY <1>22, <2>1, <2>2, <2>3 DEF RefreshArrives, TypeOK
<1>23. CASE UNCHANGED vars
  BY <1>23 DEF vars, TypeOK
<1> QED
  BY <1>1, <1>2, <1>3, <1>4, <1>5, <1>6, <1>7, <1>8, <1>9, <1>10, <1>11, <1>12,
     <1>13, <1>14, <1>15, <1>16, <1>17, <1>18, <1>19, <1>20, <1>21, <1>22, <1>23,
     <1>24, <1>25 DEF Next

\* The type invariant, and that a generation is installed exactly while a
\* connection is (session_generations), hold of every reachable state.
THEOREM TypeCorrect == Spec => []TypeOK
BY TypeCorrectInit, TypeCorrectStep, PTL DEF Spec

(***************************************************************************)
(* The fences                                                              *)
(***************************************************************************)
Targeted == {"schema", "details", "views"}

\* The revisions with which the target of a request was resolved stand.
Stands(r) == inv = r.inv /\ slotRev[r.db] = r.slot

\* Nothing that job r checks has moved since it was captured.
Unmoved(r) ==
    /\ r.kind \in Targeted => Resolve(r.db) = r.conn
    /\ r.kind # "refresh" => inv = r.inv
    /\ r.kind # "list" => slotRev[r.db] = r.slot
    /\ r.kind = "details" => detRev[r.db] = r.sub
    /\ r.kind = "views" => viewRev[r.db] = r.sub

\* Within a session revisions only grow.
NotAhead(r) ==
    /\ r.kind # "refresh" => r.inv <= inv
    /\ r.kind # "list" => r.slot <= slotRev[r.db]
    /\ r.kind = "details" => r.sub <= detRev[r.db]
    /\ r.kind = "views" => r.sub <= viewRev[r.db]

\* As long as the revisions stand, so does what was resolved with them, or the
\* primary connection has taken the place of a slot.
OnTarget(r) ==
    /\ r.kind \in {"list", "install", "click", "refresh"} => conn = r.conn
    /\ r.kind \in {"install", "click", "refresh"} /\ slotRev[r.db] = r.slot =>
          slot[r.db] = NoHandle
    /\ r.kind \in Targeted /\ Stands(r) =>
          \/ Resolve(r.db) = r.conn
          \/ Current(r.db) /\ r.conn # conn

\* The fence of a job: its session is over, or the ledgers tell.
Fence(r) ==
    /\ r.gen \in 1..nextGen
    /\ r.conn \in Handles
    /\ gen # r.gen => r.stale
    /\ gen = r.gen => NotAhead(r) /\ OnTarget(r) /\ (r.stale <=> ~Unmoved(r))

\* Every job that checks something is fenced.
Fences == \A j \in Jobs : job[j].kind \in Fenced => Fence(job[j])

\* What a refresh took belongs to the session that it captured, and only a
\* refresh of the primary database comes without a slot.
Holdings ==
    \A j \in Jobs : LET r == job[j] IN
        r.kind = "refresh" =>
            /\ strategy = "perdb" /\ r.heldSlot = NoHandle => r.db = Primary
            /\ r.heldSchema \in {None, r.gen, Raw}
            /\ r.heldCache \in {None, r.gen, Raw}
            /\ r.heldDetails \in {None, r.gen, Raw}

\* The inductive invariant.
FencingInv == TypeOK /\ Fences /\ Holdings /\ SessionOwned /\ MarkerHasOneOwner

\* The comparisons of a fence reject exactly the obsolete requests.
LEMMA FenceIsExactFollows == TypeOK /\ Fences => FenceIsExact
<1> SUFFICES ASSUME TypeOK, Fences, NEW j \in Jobs, job[j].kind \in Fenced
             PROVE  Accepts(job[j]) <=> ~job[j].stale
  BY DEF FenceIsExact
<1> DEFINE r == job[j]
<1>1. r \in JobRecords /\ Fence(r) /\ r.stale \in BOOLEAN
  BY DEF Fences, TypeOK, JobRecords
<1>2. r.conn # NoHandle /\ r.gen # None
  BY <1>1, FencingAssumption DEF Fence
<1> HIDE DEF r
<1>3. CASE gen # r.gen
  <2>1. r.stale
    BY <1>1, <1>3 DEF Fence
  <2>2. ~Accepts(r)
    BY <1>3, <1>2 DEF r, Accepts, Fenced, FetchKinds, ListCurrent, SchemaCurrent, DetailsCurrent,
       ViewsCurrent, InstallCurrent, RefreshCurrent, SameSession
  <2> QED BY <2>1, <2>2 DEF r
<1>4. CASE gen = r.gen
  <2>1. NotAhead(r) /\ OnTarget(r) /\ (r.stale <=> ~Unmoved(r))
    BY <1>1, <1>4 DEF Fence
  <2>2. Accepts(r) <=> Unmoved(r)
    <3>1. CASE r.kind = "list"
      BY <1>4, <1>2, <2>1, <3>1 DEF Accepts, Unmoved, Targeted, OnTarget, ListCurrent
    <3>2. CASE r.kind = "schema"
      BY <1>4, <1>2, <2>1, <3>2 DEF Accepts, Unmoved, Targeted, SchemaCurrent, TargetMatches
    <3>3. CASE r.kind = "details"
      BY <1>4, <1>2, <2>1, <3>3 DEF Accepts, Unmoved, Targeted, DetailsCurrent, TargetMatches
    <3>4. CASE r.kind = "views"
      BY <1>4, <1>2, <2>1, <3>4 DEF Accepts, Unmoved, Targeted, ViewsCurrent, TargetMatches
    <3>5. CASE r.kind = "install"
      BY <1>4, <1>2, <2>1, <3>5 DEF Accepts, Unmoved, Targeted, OnTarget, InstallCurrent
    <3>6. CASE r.kind = "click"
      BY <1>4, <1>2, <2>1, <3>6 DEF Accepts, Unmoved, Targeted, OnTarget, InstallCurrent, RefreshCurrent, SameSession
    <3>7. CASE r.kind = "refresh"
      BY <1>4, <1>2, <2>1, <3>7 DEF Accepts, Unmoved, Targeted, OnTarget, RefreshCurrent, SameSession
    <3> QED BY <3>1, <3>2, <3>3, <3>4, <3>5, <3>6, <3>7 DEF r, Fenced, FetchKinds
  <2> QED BY <2>1, <2>2, <1>1 DEF r
<1> QED BY <1>3, <1>4

(***************************************************************************)
(* Steps within a session and between sessions                             *)
(***************************************************************************)
\* The snapshot of the step hides the slot that the primary database resolves
\* to (Workspace::refresh_schema).
Hides(d) ==
    /\ Resolve(d) \notin {NoHandle, conn}
    /\ d = Primary /\ current' /\ ~current

\* The step keeps the session; a slot changes only with its revision, and what
\* resolves changes with a revision or because the slot is hidden.
Advance ==
    /\ UNCHANGED <<strategy, gen, nextGen, conn>>
    /\ inv <= inv'
    /\ \A d \in Databases :
         /\ slotRev[d] <= slotRev'[d]
         /\ detRev[d] <= detRev'[d]
         /\ viewRev[d] <= viewRev'[d]
         /\ slotRev'[d] = slotRev[d] => slot'[d] = slot[d]
         /\ slotRev'[d] = slotRev[d] /\ inv' = inv =>
               /\ Current(d) => Current(d)'
               /\ Resolve(d) # NoHandle => Resolve(d)' = Resolve(d) \/ Hides(d)

\* The step moves something that job r checks.
Moves(r) ==
    \/ r.kind \in Targeted /\ Hides(r.db)
    \/ r.kind # "refresh" /\ inv' # inv
    \/ r.kind # "list" /\ slotRev'[r.db] # slotRev[r.db]
    \/ r.kind = "details" /\ detRev'[r.db] # detRev[r.db]
    \/ r.kind = "views" /\ viewRev'[r.db] # viewRev[r.db]

\* q is r after the step, marked obsolete exactly if the step made it so.
Carried(r, q) ==
    /\ q \in JobRecords
    /\ \A f \in {"kind", "db", "gen", "conn", "inv", "slot", "sub"} : q[f] = r[f]
    /\ q.stale <=> (r.stale \/ Moves(r))

\* A fenced job that a step carries over is still fenced.
LEMMA FenceCarried ==
    ASSUME TypeOK, TypeOK', Advance, NEW r \in JobRecords, r.kind \in Fenced, Fence(r),
           NEW q, Carried(r, q)
    PROVE  Fence(q)'
<1>1. /\ q.kind = r.kind /\ q.db = r.db /\ q.gen = r.gen /\ q.conn = r.conn
      /\ q.inv = r.inv /\ q.slot = r.slot /\ q.sub = r.sub
  BY DEF Carried
<1>2. /\ r.db \in Databases /\ r.inv \in Nat /\ r.slot \in Nat /\ r.sub \in Nat
      /\ r.conn \in Handles /\ r.gen \in Nat
  BY DEF JobRecords, Fence
<1>3. CASE gen # r.gen
  BY <1>1, <1>3 DEF Fence, Advance, Carried
<1>4. CASE gen = r.gen
  <2>1. NotAhead(r) /\ OnTarget(r) /\ (r.stale <=> ~Unmoved(r))
    BY <1>4 DEF Fence
  <2>t. /\ inv \in Nat /\ inv' \in Nat
        /\ slotRev[r.db] \in Nat /\ slotRev'[r.db] \in Nat
        /\ detRev[r.db] \in Nat /\ detRev'[r.db] \in Nat
        /\ viewRev[r.db] \in Nat /\ viewRev'[r.db] \in Nat
    BY <1>2 DEF TypeOK
  <2>a. /\ inv <= inv' /\ slotRev[r.db] <= slotRev'[r.db]
        /\ detRev[r.db] <= detRev'[r.db] /\ viewRev[r.db] <= viewRev'[r.db]
    BY <1>2 DEF Advance
  <2>2. NotAhead(q)'
    BY <1>1, <1>2, <2>1, <2>t, <2>a DEF NotAhead
  <2>c. /\ conn' = conn /\ strategy' = strategy
        /\ slotRev'[r.db] = slotRev[r.db] => slot'[r.db] = slot[r.db]
        /\ slotRev'[r.db] = slotRev[r.db] /\ inv' = inv =>
             /\ Current(r.db) => Current(r.db)'
             /\ Resolve(r.db) # NoHandle => Resolve(r.db)' = Resolve(r.db) \/ Hides(r.db)
    BY <1>2 DEF Advance
  <2>d. /\ Resolve(q.db)' = Resolve(r.db)' /\ (Current(q.db)' <=> Current(r.db)')
        /\ Current(r.db)' => Resolve(r.db)' = conn
        /\ Current(r.db) => Resolve(r.db) = conn
        /\ r.conn # NoHandle
    BY <1>1, <1>2, <2>c, FencingAssumption DEF Resolve, Current
  <2>e. ASSUME r.kind \in Targeted
        PROVE  Stands(q)' <=> Stands(r) /\ inv' = inv /\ slotRev'[r.db] = slotRev[r.db]
    BY <1>1, <1>2, <2>1, <2>t, <2>a, <2>e DEF NotAhead, Stands, Targeted
  <2>f. ASSUME r.kind \in Targeted, Stands(q)'
        PROVE  /\ Resolve(r.db)' = r.conn <=> Resolve(r.db) = r.conn /\ ~Hides(r.db)
               /\ Resolve(r.db)' = r.conn \/ (Current(r.db)' /\ r.conn # conn)
    <3>1. Stands(r) /\ inv' = inv /\ slotRev'[r.db] = slotRev[r.db]
      BY <2>e, <2>f
    <3>2. Resolve(r.db) = r.conn \/ (Current(r.db) /\ r.conn # conn)
      BY <2>1, <2>f, <3>1 DEF OnTarget
    <3>3. Hides(r.db) => /\ Resolve(r.db) # NoHandle /\ Resolve(r.db) # conn
                         /\ Current(r.db)' /\ ~Current(r.db)
      BY DEF Hides, Current
    <3> HIDE DEF Resolve, Current, Hides
    <3> QED BY <2>c, <2>d, <3>1, <3>2, <3>3
  <2>3. Unmoved(q)' <=> (Unmoved(r) /\ ~Moves(r))
    <3>1. CASE r.kind \in Targeted /\ Stands(q)'
      <4>1. Stands(r) /\ inv' = inv /\ slotRev'[r.db] = slotRev[r.db]
        BY <2>e, <3>1
      <4>2. Resolve(r.db)' = r.conn <=> Resolve(r.db) = r.conn /\ ~Hides(r.db)
        BY <2>f, <3>1
      <4> HIDE DEF Resolve, Hides
      <4> QED BY <1>1, <1>2, <2>1, <2>t, <2>a, <2>d, <3>1, <4>1, <4>2 DEF NotAhead, Unmoved, Moves
    <3>2. CASE r.kind \in Targeted /\ ~Stands(q)'
      <4>1. ~Unmoved(q)'
        BY <1>1, <3>2 DEF Unmoved, Stands, Targeted
      <4>2. ~(Unmoved(r) /\ ~Moves(r))
        BY <2>e, <3>2 DEF Unmoved, Moves, Stands, Targeted
      <4> QED BY <4>1, <4>2
    <3>3. CASE r.kind \notin Targeted
      BY <1>1, <1>2, <2>1, <2>t, <2>a, <3>3 DEF NotAhead, Unmoved, Moves
    <3> QED BY <3>1, <3>2, <3>3
  <2>4. OnTarget(q)'
    <3>1. r.slot = slotRev'[r.db] /\ r.kind # "list" => slotRev[r.db] = r.slot
      BY <1>2, <2>1, <2>t, <2>a DEF NotAhead
    <3>2. q.kind \in Targeted /\ Stands(q)' =>
            Resolve(q.db)' = q.conn \/ (Current(q.db)' /\ q.conn # conn')
      BY <1>1, <2>c, <2>d, <2>f
    <3> HIDE DEF Resolve, Current, Stands
    <3> QED BY <1>1, <2>1, <2>c, <3>1, <3>2 DEF OnTarget
  <2>5. q.stale <=> ~Unmoved(q)'
    BY <2>1, <2>3 DEF Carried
  <2> QED BY <1>1, <1>2, <1>4, <2>2, <2>4, <2>5 DEF Fence, Advance
<1> QED BY <1>3, <1>4

\* After a step, a job that waits is the one it was, marked obsolete if it is
\* in S; other places of the table are free or hold a job that checks nothing.
LEMMA ObsoleteCarries ==
    ASSUME TypeOK, TypeOK', NEW S, NEW jobs \in [Jobs -> JobRecords], NEW i \in Jobs,
           job'[i] = Obsolete(jobs, S)[i],
           jobs[i] = job[i],
           jobs[i].kind \in Fenced => (Moves(job[i]) <=> i \in S)
    PROVE  job'[i].kind \in Fenced => job[i].kind \in Fenced /\ Carried(job[i], job'[i])
<1> SUFFICES ASSUME job'[i].kind \in Fenced
             PROVE  job[i].kind \in Fenced /\ Carried(job[i], job'[i])
  OBVIOUS
<1>1. job'[i] \in JobRecords /\ job[i] \in JobRecords
  BY DEF TypeOK
<1>2. CASE i \in S /\ jobs[i].kind \in Fenced
  <2>1. job'[i] = [job[i] EXCEPT !.stale = TRUE]
    BY <1>2 DEF Obsolete
  <2>2. job'[i].stale /\ Moves(job[i])
    BY <1>1, <1>2, <2>1 DEF JobRecords
  <2>3. \A f \in {"kind", "db", "gen", "conn", "inv", "slot", "sub"} : job'[i][f] = job[i][f]
    BY <1>1, <2>1 DEF JobRecords
  <2> QED BY <1>1, <1>2, <2>2, <2>3 DEF Carried
<1>3. CASE ~(i \in S /\ jobs[i].kind \in Fenced)
  <2>1. job'[i] = job[i]
    BY <1>3 DEF Obsolete
  <2> QED BY <1>1, <1>3, <2>1 DEF Carried
<1> QED BY <1>2, <1>3

\* A free place checks nothing.
LEMMA IdleNotFenced == Idle.kind \notin Fenced
BY DEF Idle, Fenced, FetchKinds

\* A step that leaves sessions, slots and revisions alone makes nothing
\* obsolete.
LEMMA QuietStep ==
    ASSUME TypeOK, UNCHANGED <<strategy, session, snapshot, slot, ledgers>>
    PROVE  Advance /\ \A r \in JobRecords : ~Moves(r)
<1>1. \A d \in Databases : Resolve(d)' = Resolve(d)
  BY DEF Resolve, Current, session
<1>2. /\ inv \in Nat
      /\ \A d \in Databases : slotRev[d] \in Nat /\ detRev[d] \in Nat /\ viewRev[d] \in Nat
  BY DEF TypeOK
<1>3. Advance
  BY <1>1, <1>2 DEF Advance, Current, session, ledgers
<1> QED BY <1>3 DEF Moves, Hides, Current, ledgers

\* A step that touches the slot of d makes obsolete what is about d.
LEMMA SlotStep ==
    ASSUME TypeOK, NEW d \in Databases, NEW h, NEW n \in Nat \ {0},
           UNCHANGED <<strategy, session, inv, detRev, viewRev>>,
           slot' = [slot EXCEPT ![d] = h],
           slotRev' = [slotRev EXCEPT ![d] = @ + n],
           current' => current, current' = current \/ d = Primary
    PROVE  /\ Advance
           /\ \A r \in JobRecords : Moves(r) <=> r.kind # "list" /\ r.db = d
<1>2. /\ inv \in Nat
      /\ \A e \in Databases : slotRev[e] \in Nat /\ detRev[e] \in Nat /\ viewRev[e] \in Nat
      /\ slotRev \in [Databases -> Nat] /\ DOMAIN slot = Databases
  BY DEF TypeOK
<1>3. /\ slotRev'[d] = slotRev[d] + n
      /\ \A e \in Databases \ {d} : slotRev'[e] = slotRev[e] /\ slot'[e] = slot[e]
  BY <1>2
<1>1. \A e \in Databases \ {d} : Resolve(e)' = Resolve(e)
  BY <1>3 DEF Resolve, Current, session
<1>4. Advance
  BY <1>1, <1>2, <1>3 DEF Advance, Current, session
<1>5. ASSUME NEW r \in JobRecords PROVE Moves(r) <=> r.kind # "list" /\ r.db = d
  <2>1. r.db \in Databases
    BY DEF JobRecords
  <2>2. slotRev'[r.db] # slotRev[r.db] <=> r.db = d
    BY <2>1, <1>2, <1>3
  <2> QED BY <2>1, <2>2 DEF Moves, Hides, Current, Targeted
<1> QED BY <1>4, <1>5

\* Fences survive a step within the session if every job that waits was
\* carried over or has just been captured.
LEMMA FencesCarried ==
    ASSUME TypeOK, TypeOK', Fences, Advance,
           \A i \in Jobs : job'[i].kind \in Fenced =>
               \/ job[i].kind \in Fenced /\ Carried(job[i], job'[i])
               \/ Fence(job[i])'
    PROVE  Fences'
<1> SUFFICES ASSUME NEW i \in Jobs, job'[i].kind \in Fenced PROVE Fence(job[i])'
  BY DEF Fences
<1>1. CASE job[i].kind \in Fenced /\ Carried(job[i], job'[i])
  <2>1. job[i] \in JobRecords /\ Fence(job[i])
    BY <1>1 DEF Fences, TypeOK
  <2>2. PICK r : r = job[i]
    OBVIOUS
  <2>3. PICK q : q = job'[i]
    OBVIOUS
  <2>4. Fence(q)'
    BY <1>1, <2>1, <2>2, <2>3, FenceCarried
  <2> QED BY <2>3, <2>4 DEF Fence, NotAhead, OnTarget, Unmoved, Stands, Resolve, Current
<1> QED BY <1>1

\* The result of SetSlot (add_database_connection, remove_database_connection
\* and what is built on them).
LEMMA SetSlotFences ==
    ASSUME TypeOK, TypeOK', Fences, NEW d \in Databases, NEW h, NEW n \in Nat \ {0},
           NEW jobs \in [Jobs -> JobRecords], SetSlot(d, h, n, jobs),
           UNCHANGED <<strategy, session, snapshot, inv, detRev, viewRev>>,
           \A i \in Jobs : jobs[i] = job[i] \/ jobs[i].kind \notin Fenced
    PROVE  Fences'
<1>1. /\ Advance
      /\ \A r \in JobRecords : Moves(r) <=> r.kind # "list" /\ r.db = d
  BY SlotStep DEF SetSlot
<1>2. ASSUME NEW i \in Jobs, job'[i].kind \in Fenced
      PROVE  job[i].kind \in Fenced /\ Carried(job[i], job'[i])
  <2>1. job' = Obsolete(jobs, AboutDatabase(d))
    BY DEF SetSlot
  <2>2. jobs[i] = job[i]
    BY <1>2, <2>1 DEF Obsolete
  <2>3. Moves(job[i]) <=> i \in AboutDatabase(d)
    BY <1>1 DEF AboutDatabase, TypeOK
  <2> QED BY <1>2, <2>1, <2>2, <2>3, ObsoleteCarries
<1> QED BY <1>1, <1>2, FencesCarried

\* A job ends, and nothing that a fence looks at changes.
LEMMA QuietEnd ==
    ASSUME TypeOK, TypeOK', Fences, NEW j \in Jobs, job' = End(j),
           Advance, \A r \in JobRecords : ~Moves(r)
    PROVE  Fences'
<1>1. ASSUME NEW i \in Jobs, job'[i].kind \in Fenced
      PROVE  job[i].kind \in Fenced /\ Carried(job[i], job'[i])
  <2>1. job[i] \in JobRecords
    BY DEF TypeOK
  <2>2. job'[i] = job[i]
    BY <1>1, IdleNotFenced DEF End, TypeOK
  <2>3. ~Moves(job[i])
    BY <2>1
  <2> QED BY <1>1, <2>1, <2>2, <2>3 DEF Carried
<1> QED BY <1>1, FencesCarried

\* A job begins: it checks nothing, or what it captured is fenced.
LEMMA QuietBegin ==
    ASSUME TypeOK, TypeOK', Fences, NEW j \in Jobs, NEW r, Begin(j, r),
           UNCHANGED <<strategy, session, snapshot, slot, ledgers>>,
           r.kind \in Fenced => Fence(job[j])'
    PROVE  Fences'
<1>1. ASSUME NEW i \in Jobs, job'[i].kind \in Fenced
      PROVE  \/ job[i].kind \in Fenced /\ Carried(job[i], job'[i])
             \/ Fence(job[i])'
  <2>1. job[i] \in JobRecords /\ ~Moves(job[i])
    BY QuietStep DEF TypeOK
  <2>2. CASE i # j
    <3>1. job'[i] = job[i]
      BY <2>2 DEF Begin, TypeOK
    <3> QED BY <1>1, <2>1, <3>1 DEF Carried
  <2>3. CASE i = j
    BY <1>1, <2>3 DEF Begin, TypeOK
  <2> QED BY <2>2, <2>3
<1> QED BY <1>1, QuietStep, FencesCarried

\* A refresh that comes back in time gives the snapshot of the primary database
\* back: nothing resolved through its slot meanwhile.
LEMMA SnapshotBack ==
    ASSUME TypeOK, Holdings, NEW j \in Jobs, job[j].kind = "refresh",
           RefreshCurrent(job[j]), job[j].heldSlot = NoHandle,
           UNCHANGED <<strategy, session, slot, ledgers>>, current => current'
    PROVE  Advance /\ \A r \in JobRecords : ~Moves(r)
<1>1. strategy = "perdb" => slot[Primary] = NoHandle
  BY DEF RefreshCurrent, Holdings
<1>2. \A d \in Databases : /\ Resolve(d) # NoHandle => Resolve(d)' = Resolve(d)
                           /\ Resolve(d) \in {NoHandle, conn} \/ d # Primary
  BY <1>1 DEF Resolve, Current, session
<1>3. /\ inv \in Nat
      /\ \A d \in Databases : slotRev[d] \in Nat /\ detRev[d] \in Nat /\ viewRev[d] \in Nat
  BY DEF TypeOK
<1>4. Advance
  BY <1>2, <1>3 DEF Advance, Current, session, ledgers
<1>5. ASSUME NEW r \in JobRecords PROVE ~Moves(r)
  <2>1. r.db \in Databases
    BY DEF JobRecords
  <2> QED BY <1>2, <2>1 DEF Moves, Hides, ledgers
<1> QED BY <1>4, <1>5

\* Every step keeps the fenced jobs fenced.
LEMMA FencesStep ==
    ASSUME TypeOK, Fences, Holdings, [Next]_vars
    PROVE  Fences'
<1>t. TypeOK'
  BY TypeCorrectStep
<1> USE FencingAssumption
<1>j. ASSUME NEW j \in Jobs
      PROVE  /\ job[j] \in JobRecords
             /\ job[j].db \in Databases
             /\ End(j) \in [Jobs -> JobRecords]
             /\ \A i \in Jobs : End(j)[i] = job[i] \/ End(j)[i].kind \notin Fenced
  BY IdleType, IdleNotFenced DEF TypeOK, JobRecords, End
<1>q. ASSUME NEW j \in Jobs, job' = End(j), UNCHANGED <<strategy, session, snapshot, slot, ledgers>>
      PROVE  Fences'
  BY <1>q, <1>t, QuietStep, QuietEnd
<1>s. ASSUME NEW j \in Jobs, NEW d \in Databases, NEW h, SetSlot(d, h, 1, End(j)),
             UNCHANGED <<strategy, session, snapshot, inv, detRev, viewRev>>
      PROVE  Fences'
  BY <1>s, <1>t, <1>j, SetSlotFences, 1 \in Nat \ {0}
<1>g. gen # None => gen \in 1..nextGen /\ conn \in Handles
  BY DEF TypeOK
<1>1. ASSUME NEW jobs, \A i \in Jobs : job'[i] = Obsolete(jobs, Jobs)[i],
             \A i \in Jobs : jobs[i] = job[i] \/ jobs[i].kind \notin Fenced,
             nextGen <= nextGen', nextGen' \in Nat,
             \A g \in 1..nextGen : gen' # g
      PROVE  Fences'
  <2> SUFFICES ASSUME NEW i \in Jobs, job'[i].kind \in Fenced PROVE Fence(job[i])'
    BY DEF Fences
  <2>1. job[i] \in JobRecords /\ job[i].kind \in Fenced /\ job'[i] = [job[i] EXCEPT !.stale = TRUE]
    BY <1>1 DEF Obsolete, TypeOK, JobRecords
  <2>2. job'[i].gen = job[i].gen /\ job'[i].conn = job[i].conn /\ job'[i].stale
    BY <2>1 DEF JobRecords
  <2>3. Fence(job[i])
    BY <2>1 DEF Fences
  <2>4. job'[i].gen \in 1..nextGen' /\ job'[i].conn \in Handles /\ gen' # job'[i].gen
    BY <1>1, <2>2, <2>3 DEF Fence, TypeOK
  <2> QED BY <2>2, <2>4 DEF Fence
<1>a. ASSUME NEW h, NEW s, NEW jobs, AddConnection(h, s, jobs),
             \A i \in Jobs : jobs[i] = job[i] \/ jobs[i].kind \notin Fenced
      PROVE  Fences'
  <2>1. nextGen \in Nat /\ nextGen' = nextGen + 1 /\ gen' = nextGen + 1 /\ job' = Obsolete(jobs, Jobs)
    BY <1>a DEF AddConnection, TypeOK
  <2> QED BY <1>1, <1>a, <2>1
<1>2. ASSUME NEW h \in Handles, NEW s \in BOOLEAN,
             \/ Connect(h, s)
             \/ \E j \in Jobs : ConnectViaPipeline(j, h, s)
      PROVE  Fences'
  <2>1. CASE Connect(h, s)
    BY <1>a, <2>1 DEF Connect
  <2>2. ASSUME NEW j \in Jobs, ConnectViaPipeline(j, h, s) PROVE Fences'
    <3>1. PICK jobs : jobs = [job EXCEPT ![j] = [Idle EXCEPT !.kind = "capture", !.conn = h]]
      OBVIOUS
    <3>2. \A i \in Jobs : jobs[i] = job[i] \/ jobs[i].kind \notin Fenced
      BY <3>1 DEF TypeOK, Idle, Fenced, FetchKinds
    <3> QED BY <1>a, <2>2, <3>1, <3>2 DEF ConnectViaPipeline
  <2> QED BY <1>2, <2>1, <2>2
<1>3. CASE Disconnect
  <2>1. nextGen \in Nat /\ nextGen' = nextGen /\ gen' = 0 /\ job' = Obsolete(job, Jobs)
    BY <1>3 DEF Disconnect, TypeOK
  <2> QED BY <1>1, <2>1
<1>4. ASSUME NEW d \in Databases,
             \/ RemoveDatabaseConnection(d) \/ CloseDatabase(d) \/ RefreshRefused(d)
             \/ InvalidateObjectCache(d)
      PROVE  Fences'
  <2>1. job \in [Jobs -> JobRecords]
    BY DEF TypeOK
  <2>2. ASSUME NEW h, NEW n \in {1, 3}, SetSlot(d, h, n, job),
               UNCHANGED <<strategy, session, snapshot, inv, detRev, viewRev>>
        PROVE  Fences'
    BY <1>t, <2>1, <2>2, SetSlotFences
  <2>3. ASSUME UNCHANGED <<strategy, session, snapshot, slot, ledgers, job>> PROVE Fences'
    BY <2>3 DEF Fences, Fence, NotAhead, OnTarget, Unmoved, Stands, Resolve, Current, session, ledgers
  <2> QED BY <1>4, <2>2, <2>3
     DEF RemoveDatabaseConnection, CloseDatabase, RefreshRefused, InvalidateObjectCache, ledgers
<1>5. ASSUME NEW d \in Databases, InvalidateTableDetails(d) PROVE Fences'
  <2> DEFINE S == {j \in AboutDatabase(d) : job[j].kind = "details"}
  <2>1. /\ UNCHANGED <<strategy, session, snapshot, slot, inv, slotRev, viewRev>>
        /\ detRev' = [detRev EXCEPT ![d] = @ + 1]
        /\ job' = Obsolete(job, S)
    BY <1>5 DEF InvalidateTableDetails
  <2>2. /\ inv \in Nat /\ detRev'[d] = detRev[d] + 1
        /\ \A e \in Databases : slotRev[e] \in Nat /\ detRev[e] \in Nat /\ viewRev[e] \in Nat
        /\ \A e \in Databases \ {d} : detRev'[e] = detRev[e]
    BY <2>1 DEF TypeOK
  <2>3. Advance
    <3>1. \A e \in Databases : Resolve(e)' = Resolve(e)
      BY <2>1 DEF Resolve, Current, session
    <3> QED BY <2>1, <2>2, <3>1 DEF Advance, Current, session
  <2>4. ASSUME NEW i \in Jobs PROVE Moves(job[i]) <=> i \in S
    BY <1>j, <2>1, <2>2 DEF Moves, Hides, Current, AboutDatabase
  <2> HIDE DEF S
  <2>5. \A i \in Jobs : job'[i].kind \in Fenced => job[i].kind \in Fenced /\ Carried(job[i], job'[i])
    BY <1>t, <2>1, <2>4, ObsoleteCarries DEF TypeOK
  <2> QED BY <1>t, <2>3, <2>5, FencesCarried
<1>6. ASSUME NEW j \in Jobs, PrepareFetchDatabaseList(j) PROVE Fences'
  <2> DEFINE r == [Idle EXCEPT !.kind = "list", !.gen = gen, !.conn = conn, !.inv = inv]
  <2>1. r.kind = "list" /\ r.gen = gen /\ r.conn = conn /\ r.inv = inv /\ r.stale = FALSE
    BY DEF Idle
  <2>2. Begin(j, r) /\ UNCHANGED <<strategy, session, snapshot, slot, ledgers>> /\ gen # None
    BY <1>6 DEF PrepareFetchDatabaseList
  <2>3. job'[j] = r
    BY <2>2 DEF Begin, TypeOK
  <2> HIDE DEF r
  <2>4. Fence(job[j])'
    <3>1. inv \in Nat
      BY DEF TypeOK
    <3> QED BY <1>g, <2>1, <2>2, <2>3, <3>1
         DEF Fence, NotAhead, OnTarget, Unmoved, Targeted, session, ledgers
  <2> QED BY <1>t, <2>2, <2>4, QuietBegin
<1>7. ASSUME NEW j \in Jobs,
             \/ ApplyFetchDatabaseList(j) \/ ApplyFetchExplicitDatabaseSchema(j)
             \/ ApplyFetchedTableDetails(j) \/ ApplyRefreshedViews(j)
             \/ JobFails(j) \/ RefreshStale(j) \/ PrefetchArrives(j) \/ TableDetailsArrive(j)
             \/ HydrateCurrentCapture(j)
      PROVE  Fences'
  BY <1>7, <1>q DEF HydrateCurrentCapture, ApplyFetchDatabaseList, ApplyFetchExplicitDatabaseSchema,
     ApplyFetchedTableDetails, ApplyRefreshedViews, JobFails, RefreshStale, PrefetchArrives, TableDetailsArrive
<1>8. ASSUME NEW j \in Jobs, NEW d \in Databases,
             \/ PrepareFetchExplicitDatabaseSchema(j, d)
             \/ PrepareFetchTableDetailsFenced(j, d)
      PROVE  Fences'
  <2>1. /\ Resolve(d) # NoHandle /\ gen # None
        /\ UNCHANGED <<strategy, session, snapshot, slot, ledgers>>
    BY <1>8 DEF PrepareFetchExplicitDatabaseSchema, PrepareFetchTableDetailsFenced
  <2>2. Resolve(d) \in Handles /\ Resolve(d)' = Resolve(d)
    BY <2>1 DEF Resolve, Current, TypeOK, session
  <2>3. ASSUME NEW kind \in {"schema", "details"}, NEW n,
               kind = "details" => n = detRev[d], Begin(j, Capture(kind, d, Resolve(d), n))
        PROVE  Fences'
    <3>1. PICK r : r = Capture(kind, d, Resolve(d), n)
      OBVIOUS
    <3>2. /\ r.kind = kind /\ r.db = d /\ r.gen = gen /\ r.conn = Resolve(d)
          /\ r.inv = inv /\ r.slot = slotRev[d] /\ r.sub = n /\ r.stale = FALSE
      BY <3>1 DEF Capture, Idle
    <3>3. job'[j] = r
      BY <2>3, <3>1 DEF Begin, TypeOK
    <3>4. inv \in Nat /\ slotRev[d] \in Nat /\ detRev[d] \in Nat
      BY DEF TypeOK
    <3>5. Resolve(job[j].db)' = Resolve(d)
      BY <2>2, <3>2, <3>3 DEF Resolve, Current
    <3>6. Fence(job[j])'
      BY <1>g, <2>1, <2>2, <2>3, <3>2, <3>3, <3>4, <3>5
         DEF Fence, NotAhead, OnTarget, Unmoved, Targeted, session, ledgers
    <3> QED BY <1>t, <2>1, <2>3, <3>6, QuietBegin
  <2> QED BY <1>8, <2>3 DEF PrepareFetchExplicitDatabaseSchema, PrepareFetchTableDetailsFenced
<1>9. ASSUME NEW j \in Jobs, NEW d \in Databases,
             \/ PrepareDatabaseConnectionGuarded(j, d)
             \/ HandleConnectionPerDatabaseClick(j, d)
      PROVE  Fences'
  <2>1. /\ slot[d] = NoHandle /\ gen # None
        /\ UNCHANGED <<strategy, session, snapshot, slot, ledgers>>
    BY <1>9 DEF PrepareDatabaseConnectionGuarded, HandleConnectionPerDatabaseClick,
       MayPrepareDatabaseConnection
  <2>3. ASSUME NEW kind \in {"install", "click"}, Begin(j, Capture(kind, d, conn, 0))
        PROVE  Fences'
    <3>1. PICK r : r = Capture(kind, d, conn, 0)
      OBVIOUS
    <3>2. /\ r.kind = kind /\ r.db = d /\ r.gen = gen /\ r.conn = conn
          /\ r.inv = inv /\ r.slot = slotRev[d] /\ r.stale = FALSE
      BY <3>1 DEF Capture, Idle
    <3>3. job'[j] = r
      BY <2>3, <3>1 DEF Begin, TypeOK
    <3>4. inv \in Nat /\ slotRev[d] \in Nat
      BY DEF TypeOK
    <3>6. Fence(job[j])'
      BY <1>g, <2>1, <2>3, <3>2, <3>3, <3>4
         DEF Fence, NotAhead, OnTarget, Unmoved, Targeted, session, ledgers
    <3> QED BY <1>t, <2>1, <2>3, <3>6, QuietBegin
  <2> QED BY <1>9, <2>3 DEF PrepareDatabaseConnectionGuarded, HandleConnectionPerDatabaseClick
<1>10. ASSUME NEW j \in Jobs, NEW d \in Databases, PrepareRefreshViews(j, d) PROVE Fences'
  <2> DEFINE S == {i \in AboutDatabase(d) : job[i].kind = "views"}
  <2>1. /\ UNCHANGED <<strategy, session, snapshot, slot, inv, slotRev, detRev>>
        /\ viewRev' = [viewRev EXCEPT ![d] = @ + 1]
        /\ job' = [Obsolete(job, S) EXCEPT ![j] = Capture("views", d, Resolve(d), viewRev'[d])]
        /\ Resolve(d) # NoHandle /\ gen # None
    BY <1>10 DEF PrepareRefreshViews
  <2>2. /\ inv \in Nat /\ viewRev'[d] = viewRev[d] + 1
        /\ \A e \in Databases : slotRev[e] \in Nat /\ detRev[e] \in Nat /\ viewRev[e] \in Nat
        /\ \A e \in Databases \ {d} : viewRev'[e] = viewRev[e]
    BY <2>1 DEF TypeOK
  <2>r. \A e \in Databases : Resolve(e)' = Resolve(e)
    BY <2>1 DEF Resolve, Current, session
  <2>3. Advance
    BY <2>1, <2>2, <2>r DEF Advance, Current, session
  <2>4. ASSUME NEW i \in Jobs PROVE Moves(job[i]) <=> i \in S
    BY <1>j, <2>1, <2>2 DEF Moves, Hides, Current, AboutDatabase
  <2>o. \A i \in Jobs \ {j} : job'[i] = Obsolete(job, S)[i]
    BY <2>1 DEF Obsolete
  <2>n. job'[j] = Capture("views", d, Resolve(d), viewRev'[d])
    BY <2>1 DEF Obsolete
  <2> HIDE DEF S
  <2>5. \A i \in Jobs \ {j} :
           job'[i].kind \in Fenced => job[i].kind \in Fenced /\ Carried(job[i], job'[i])
    BY <1>t, <2>o, <2>4, ObsoleteCarries DEF TypeOK
  <2>6. Fence(job[j])'
    <3>1. PICK r : r = Capture("views", d, Resolve(d), viewRev'[d])
      OBVIOUS
    <3>2. /\ r.kind = "views" /\ r.db = d /\ r.gen = gen /\ r.conn = Resolve(d)
          /\ r.inv = inv /\ r.slot = slotRev[d] /\ r.sub = viewRev'[d] /\ r.stale = FALSE
      BY <3>1 DEF Capture, Idle
    <3>5. Resolve(job[j].db)' = Resolve(d) /\ Resolve(d) \in Handles
      <4>1. Resolve(d) \in Handles
        BY <2>1 DEF Resolve, TypeOK
      <4>2. Resolve(job[j].db)' = Resolve(d)'
        BY <2>n, <3>1, <3>2 DEF Resolve, Current
      <4> QED BY <2>r, <4>1, <4>2
    <3> QED BY <1>g, <2>1, <2>2, <2>n, <3>1, <3>2, <3>5
         DEF Fence, NotAhead, OnTarget, Unmoved, Targeted, session
  <2> QED BY <1>t, <2>3, <2>5, <2>6, FencesCarried
<1>11. ASSUME NEW j \in Jobs, NEW d \in Databases,
              \/ ConnectToDatabase(j, d) \/ PrefetchSchema(j, d)
              \/ PrefetchTableDetails(j, d) \/ StartDriftPreflight(j, d)
       PROVE  Fences'
  <2>1. /\ [Idle EXCEPT !.kind = "context", !.db = d].kind = "context"
        /\ [Idle EXCEPT !.kind = "prefetch", !.db = d].kind = "prefetch"
        /\ [Idle EXCEPT !.kind = "lookup", !.db = d].kind = "lookup"
    BY DEF Idle
  <2>2. {"context", "prefetch", "lookup"} \intersect Fenced = {}
    BY DEF Fenced, FetchKinds
  <2> QED BY <1>t, <1>11, <2>1, <2>2, QuietBegin
       DEF ConnectToDatabase, PrefetchSchema, PrefetchTableDetails, StartDriftPreflight
<1>20. ASSUME NEW j \in Jobs, RefreshSchema(j) PROVE Fences'
  <2>1. PICK r : r = [Idle EXCEPT !.kind = "workspace"]
    OBVIOUS
  <2>2. r.kind \notin Fenced
    BY <2>1 DEF Idle, Fenced, FetchKinds
  <2> QED BY <1>t, <1>20, <2>1, <2>2, QuietBegin DEF RefreshSchema
<1>21. ASSUME NEW j \in Jobs, RefreshSchemaArrives(j) PROVE Fences'
  <2>1. CASE gen = None
    BY <1>21, <1>q, <2>1 DEF RefreshSchemaArrives
  <2>2. CASE gen # None
    <3>1. /\ UNCHANGED <<strategy, session, slot, ledgers>>
          /\ current' = TRUE /\ job' = Obsolete(End(j), Shadowed)
      BY <1>21, <2>2 DEF RefreshSchemaArrives
    <3>2. /\ inv \in Nat
          /\ \A d \in Databases : slotRev[d] \in Nat /\ detRev[d] \in Nat /\ viewRev[d] \in Nat
      BY DEF TypeOK
    <3>3. ASSUME NEW d \in Databases
          PROVE  /\ Current(d) => Current(d)'
                 /\ Resolve(d) # NoHandle => Resolve(d)' = Resolve(d) \/ Hides(d)
                 /\ Hides(d) <=> d = Primary /\ Resolve(Primary) \notin {NoHandle, conn}
      BY <3>1 DEF Resolve, Current, Hides, session
    <3>4. Advance
      BY <3>1, <3>2, <3>3 DEF Advance, session, ledgers
    <3>5. ASSUME NEW i \in Jobs PROVE Moves(job[i]) <=> i \in Shadowed
      <4>1. Hides(job[i].db) <=> job[i].db = Primary /\ Resolve(Primary) \notin {NoHandle, conn}
        BY <1>j, <3>3
      <4> QED BY <3>1, <4>1 DEF Moves, Shadowed, AboutDatabase, Targeted, ledgers
    <3>6. \A i \in Jobs : job'[i].kind \in Fenced => job[i].kind \in Fenced /\ Carried(job[i], job'[i])
      <4> SUFFICES ASSUME NEW i \in Jobs, job'[i].kind \in Fenced
                   PROVE  job[i].kind \in Fenced /\ Carried(job[i], job'[i])
        OBVIOUS
      <4>1. End(j)[i] = job[i]
        BY <1>j, <3>1 DEF Obsolete
      <4> QED BY <1>j, <1>t, <3>1, <3>5, <4>1, ObsoleteCarries
    <3> QED BY <1>t, <3>4, <3>6, FencesCarried
  <2> QED BY <2>1, <2>2
<1>12. ASSUME NEW j \in Jobs, NEW h \in Handles,
              \/ ApplyGuardedDatabaseConnection(j, h)
              \/ \E ok \in BOOLEAN : ClickArrives(j, h, ok)
              \/ ConnectToDatabaseArrives(j, h)
       PROVE  Fences'
  BY <1>j, <1>12, <1>q, <1>s
     DEF ApplyGuardedDatabaseConnection, ClickArrives, ConnectToDatabaseArrives, ledgers
<1>13. ASSUME NEW j \in Jobs, NEW back \in BOOLEAN, DropFails(j, back) PROVE Fences'
  BY <1>j, <1>13, <1>q, <1>s DEF DropFails, ledgers
<1>14. ASSUME NEW j \in Jobs, NEW h \in Handles, RefreshArrives(j, h) PROVE Fences'
  <2>1. CASE job[j].heldSlot # NoHandle
    BY <1>j, <1>14, <1>s, <2>1 DEF RefreshArrives, ledgers
  <2>2. CASE job[j].heldSlot = NoHandle
    <3>1. Advance /\ \A r \in JobRecords : ~Moves(r)
      <4>1. UNCHANGED <<strategy, session, slot, ledgers>> /\ (current => current')
        BY <1>14, <2>2 DEF RefreshArrives, ledgers
      <4> QED BY <1>14, <2>2, <4>1, SnapshotBack DEF RefreshArrives
    <3>2. job' = End(j)
      BY <1>14, <2>2 DEF RefreshArrives
    <3> QED BY <1>t, <3>1, <3>2, QuietEnd
  <2> QED BY <2>1, <2>2
<1>15. ASSUME NEW j \in Jobs, RefreshFails(j) PROVE Fences'
  <2>1. CASE job[j].heldSlot # NoHandle
    BY <1>j, <1>15, <1>s, <2>1 DEF RefreshFails, ledgers
  <2>2. CASE job[j].heldSlot = NoHandle
    <3>1. Advance /\ \A r \in JobRecords : ~Moves(r)
      <4>1. UNCHANGED <<strategy, session, slot, ledgers>> /\ (current => current')
        BY <1>15, <2>2 DEF RefreshFails, ledgers
      <4> QED BY <1>15, <2>2, <4>1, SnapshotBack DEF RefreshFails
    <3>2. job' = End(j)
      BY <1>15, <2>2 DEF RefreshFails
    <3> QED BY <1>t, <3>1, <3>2, QuietEnd
  <2> QED BY <2>1, <2>2
<1>16. ASSUME NEW j \in Jobs, NEW d \in Databases, StartRefresh(j, d) PROVE Fences'
  <2> DEFINE n == IF slot[d] # NoHandle THEN 2 ELSE 1
  <2>1. /\ UNCHANGED <<strategy, session, inv, detRev, viewRev>>
        /\ slot' = [slot EXCEPT ![d] = NoHandle]
        /\ slotRev' = [slotRev EXCEPT ![d] = @ + n]
        /\ \A i \in Jobs \ {j} : job'[i] = Obsolete(job, AboutDatabase(d))[i]
        /\ (current' => current) /\ (current' = current \/ d = Primary)
        /\ gen # None
    <3>1. (current' => current) /\ (current' = current \/ d = Primary)
      <4>1. current' = (current /\ ~(slot[d] = NoHandle /\ Current(d)))
        BY <1>16 DEF StartRefresh, TakeRefreshState
      <4>2. d # Primary => ~Current(d)
        BY DEF Current
      <4> QED BY <4>1, <4>2 DEF TypeOK
    <3> QED BY <1>16, <3>1 DEF StartRefresh, TakeRefreshState, MayRefresh, Obsolete
  <2>2. n \in Nat \ {0}
    OBVIOUS
  <2>3. /\ Advance
        /\ \A r \in JobRecords : Moves(r) <=> r.kind # "list" /\ r.db = d
    BY <2>1, <2>2, SlotStep
  <2>4. ASSUME NEW i \in Jobs PROVE Moves(job[i]) <=> i \in AboutDatabase(d)
    BY <1>j, <2>3 DEF AboutDatabase
  <2>5. \A i \in Jobs \ {j} :
           job'[i].kind \in Fenced => job[i].kind \in Fenced /\ Carried(job[i], job'[i])
    BY <1>t, <2>1, <2>4, ObsoleteCarries DEF TypeOK
  <2>6. Fence(job[j])'
    <3>1. PICK r : r = job'[j]
      OBVIOUS
    <3>2. /\ r.kind = "refresh" /\ r.db = d /\ r.gen = gen /\ r.conn = conn
          /\ r.slot = slotRev[d] + n /\ r.stale = FALSE
      BY <1>16, <3>1 DEF StartRefresh, TakeRefreshState, Obsolete, Idle
    <3>3. /\ slotRev[d] \in Nat /\ slotRev'[d] = slotRev[d] + n /\ slot'[d] = NoHandle
          /\ slotRev[d] + n \in Nat
      BY <2>1, <2>2 DEF TypeOK
    <3> HIDE DEF n
    <3> QED BY <1>g, <2>1, <3>1, <3>2, <3>3 DEF Fence, NotAhead, OnTarget, Unmoved, Targeted, session
  <2> QED BY <1>t, <2>3, <2>5, <2>6, FencesCarried
<1>17. ASSUME NEW j \in Jobs, NEW d \in Databases, PrepareDatabaseDropRelease(j, d) PROVE Fences'
  <2> DEFINE r == [Idle EXCEPT !.kind = "drop", !.db = d, !.heldSlot = slot[d],
                    !.heldCache = IF slot[d] # NoHandle THEN cache[d] ELSE None]
             jobs == [job EXCEPT ![j] = r]
  <2>1. r.kind \notin Fenced
    BY DEF Idle, Fenced, FetchKinds
  <2>2. r \in JobRecords
    <3>1. /\ slot[d] \in Handles \union {NoHandle} /\ cache[d] \in Origins
          /\ None \in Origins
      BY DEF TypeOK, Origins
    <3> QED BY <3>1, IdleType DEF JobRecords, Kinds
  <2>3. /\ UNCHANGED <<strategy, session, snapshot, inv, detRev, viewRev>>
        /\ IF slot[d] # NoHandle THEN SetSlot(d, NoHandle, 1, jobs)
                                 ELSE Begin(j, r) /\ UNCHANGED <<slot, slotRev>>
    BY <1>17 DEF PrepareDatabaseDropRelease, Begin
  <2> HIDE DEF r
  <2>4. jobs \in [Jobs -> JobRecords] /\ \A i \in Jobs : jobs[i] = job[i] \/ jobs[i].kind \notin Fenced
    BY <2>1, <2>2 DEF TypeOK
  <2> HIDE DEF jobs
  <2>5. CASE slot[d] # NoHandle
    BY <1>t, <2>3, <2>4, <2>5, SetSlotFences, 1 \in Nat \ {0}
  <2>6. CASE slot[d] = NoHandle
    BY <1>t, <2>1, <2>3, <2>6, QuietBegin DEF ledgers
  <2> QED BY <2>5, <2>6
<1>18. ASSUME NEW j \in Jobs, DatabaseDropped(j) PROVE Fences'
  <2>1. CASE gen = None
    BY <1>18, <1>q, <2>1 DEF DatabaseDropped, ledgers
  <2>2. CASE gen # None
    <3> DEFINE d == job[j].db
               S == {i \in Jobs : job[i].kind # "refresh"}
                       \union IF slot[d] # NoHandle THEN AboutDatabase(d) ELSE {}
    <3>1. /\ UNCHANGED <<strategy, session, detRev, viewRev>>
          /\ current' => current
          /\ inv' = inv + 1
          /\ slot' = [slot EXCEPT ![d] = NoHandle]
          /\ slotRev' = [slotRev EXCEPT ![d] = IF slot[d] # NoHandle THEN @ + 1 ELSE @]
          /\ job' = Obsolete(End(j), S)
      BY <1>18, <2>2 DEF DatabaseDropped
    <3>2. d \in Databases
      BY <1>j
    <3>3. /\ inv \in Nat /\ inv' = inv + 1
          /\ \A e \in Databases : slotRev[e] \in Nat /\ detRev[e] \in Nat /\ viewRev[e] \in Nat
          /\ slotRev'[d] = IF slot[d] # NoHandle THEN slotRev[d] + 1 ELSE slotRev[d]
          /\ slot'[d] = NoHandle
          /\ \A e \in Databases \ {d} : slotRev'[e] = slotRev[e] /\ slot'[e] = slot[e]
      BY <3>1, <3>2 DEF TypeOK
    <3>4. Advance
      <4>1. \A e \in Databases : slotRev'[e] = slotRev[e] => slot'[e] = slot[e]
        BY <3>2, <3>3
      <4>2. inv' # inv
        BY <3>3
      <4> QED BY <3>1, <3>2, <3>3, <4>1, <4>2 DEF Advance, session
    <3>5. ASSUME NEW i \in Jobs PROVE Moves(job[i]) <=> i \in S
      <4>1. job[i].db \in Databases
        BY <1>j
      <4>2. slotRev'[job[i].db] # slotRev[job[i].db] <=> slot[d] # NoHandle /\ job[i].db = d
        BY <3>2, <3>3, <4>1
      <4>3. inv' # inv /\ detRev' = detRev /\ viewRev' = viewRev
        BY <3>1, <3>3
      <4>4. i \in AboutDatabase(d) <=> job[i].kind # "list" /\ job[i].db = d
        BY DEF AboutDatabase
      <4>5. ~Hides(job[i].db)
        BY <3>1 DEF Hides, Current
      <4> QED BY <4>2, <4>3, <4>4, <4>5 DEF Moves, Targeted
    <3> HIDE DEF S, d
    <3>6. \A i \in Jobs : job'[i].kind \in Fenced => job[i].kind \in Fenced /\ Carried(job[i], job'[i])
      <4> SUFFICES ASSUME NEW i \in Jobs, job'[i].kind \in Fenced
                   PROVE  job[i].kind \in Fenced /\ Carried(job[i], job'[i])
        OBVIOUS
      <4>1. End(j)[i] = job[i]
        BY <1>j, <3>1 DEF Obsolete
      <4> QED BY <1>j, <1>t, <3>1, <3>5, <4>1, ObsoleteCarries
    <3> QED BY <1>t, <3>4, <3>6, FencesCarried
  <2> QED BY <2>1, <2>2
<1>19. CASE UNCHANGED vars
  BY <1>19 DEF vars, session, ledgers, Fences, Fence, NotAhead, OnTarget, Unmoved, Stands, Resolve, Current
<1> QED
  BY <1>2, <1>3, <1>4, <1>5, <1>6, <1>7, <1>8, <1>9, <1>10, <1>11, <1>12, <1>13, <1>14,
     <1>15, <1>16, <1>17, <1>18, <1>19, <1>20, <1>21 DEF Next

(***************************************************************************)
(* The jobs that own a pending marker                                      *)
(***************************************************************************)
MarkerKinds == {"click", "refresh"}

\* The step leaves job i alone as far as markers and holdings go.
Same(i) ==
    /\ job'[i].kind \in MarkerKinds <=> job[i].kind \in MarkerKinds
    /\ job[i].kind \in MarkerKinds =>
         \A f \in {"kind", "db", "gen", "heldSlot", "heldSchema", "heldCache", "heldDetails"} :
             job'[i][f] = job[i][f]

\* A session begins or ends; nothing happens to markers; a job takes a marker;
\* a job ends.
BoundaryStep ==
    /\ gen' \in {None, nextGen + 1}
    /\ pending' = {}
    /\ \A i \in Jobs : Same(i)

PlainStep ==
    /\ gen' = gen /\ pending' = pending
    /\ \A i \in Jobs : Same(i)

\* Job j begins with the marker of d.
BeginStep(j, d) ==
    /\ gen' = gen /\ gen # None
    /\ d \notin pending /\ pending' = pending \union {d}
    /\ \A i \in Jobs \ {j} : Same(i)
    /\ job[j].kind \notin MarkerKinds
    /\ job'[j].kind \in MarkerKinds /\ job'[j].db = d /\ job'[j].gen = gen
    /\ job'[j].kind = "refresh" => StartRefresh(j, d)

\* Job j ends and releases its marker.
EndStep(j) ==
    /\ gen' = gen
    /\ ReleaseMarker(job[j])
    /\ \A i \in Jobs \ {j} : Same(i)
    /\ job[j].kind \in MarkerKinds /\ job'[j].kind \notin MarkerKinds

\* Marking requests obsolete changes nothing that a marker depends on.
LEMMA SameWhenMarked ==
    ASSUME TypeOK, NEW S, NEW jobs, NEW i \in Jobs, job'[i] = Obsolete(jobs, S)[i],
           \/ jobs[i] = job[i]
           \/ jobs[i].kind \notin MarkerKinds /\ job[i].kind \notin MarkerKinds
    PROVE  Same(i)
<1>1. job[i] \in JobRecords
  BY DEF TypeOK
<1>2. CASE i \in S /\ jobs[i].kind \in Fenced
  <2>1. job'[i] = [jobs[i] EXCEPT !.stale = TRUE]
    BY <1>2 DEF Obsolete
  <2>2. CASE jobs[i] = job[i]
    BY <1>1, <2>1, <2>2 DEF Same, JobRecords
  <2>3. CASE jobs[i].kind \notin MarkerKinds /\ job[i].kind \notin MarkerKinds
    <3>1. job'[i].kind = jobs[i].kind
      BY <2>1
    <3> QED BY <2>3, <3>1 DEF Same
  <2> QED BY <2>2, <2>3
<1>3. CASE ~(i \in S /\ jobs[i].kind \in Fenced)
  BY <1>3 DEF Obsolete, Same
<1> QED BY <1>2, <1>3

\* A step ends or begins a session, leaves the markers alone, or begins or ends
\* one job with a marker.
LEMMA StepKinds ==
    ASSUME TypeOK, [Next]_vars
    PROVE  /\ strategy' = strategy
           /\ \/ BoundaryStep
              \/ PlainStep
              \/ \E j \in Jobs, d \in Databases : BeginStep(j, d)
              \/ \E j \in Jobs : EndStep(j)
<1> USE FencingAssumption
<1>i. Idle.kind \notin MarkerKinds
  BY DEF Idle, MarkerKinds
<1>j. ASSUME NEW j \in Jobs
      PROVE  /\ \A i \in Jobs \ {j} : End(j)[i] = job[i]
             /\ End(j)[j] = Idle
  BY DEF TypeOK, End
<1>s. ASSUME UNCHANGED job PROVE \A i \in Jobs : Same(i)
  BY <1>s DEF Same
<1>e. ASSUME NEW j \in Jobs, job' = End(j) PROVE \A i \in Jobs \ {j} : Same(i)
  BY <1>e, <1>j DEF Same
<1>o. ASSUME NEW j \in Jobs, NEW S, job' = Obsolete(End(j), S) PROVE \A i \in Jobs \ {j} : Same(i)
  BY <1>o, <1>j, SameWhenMarked
<1>f. ASSUME NEW j \in Jobs, NEW S, job' = End(j) \/ job' = Obsolete(End(j), S)
      PROVE  job'[j].kind \notin MarkerKinds
  BY <1>f, <1>i, <1>j, IdleNotFenced DEF Obsolete
<1>p. ASSUME NEW j \in Jobs, NEW S, job' = End(j) \/ job' = Obsolete(End(j), S),
             job[j].kind \notin MarkerKinds
      PROVE  \A i \in Jobs : Same(i)
  BY <1>p, <1>e, <1>o, <1>f DEF Same
<1>x. ASSUME NEW S, job' = Obsolete(job, S) PROVE \A i \in Jobs : Same(i)
  BY <1>x, SameWhenMarked
<1>b. ASSUME NEW j \in Jobs, NEW r, Begin(j, r)
      PROVE  /\ \A i \in Jobs \ {j} : Same(i)
             /\ job[j].kind \notin MarkerKinds
             /\ job'[j] = r
             /\ r.kind \notin MarkerKinds => Same(j)
  BY <1>b, <1>i DEF Begin, Same, TypeOK
<1>1. ASSUME NEW h \in Handles, NEW s \in BOOLEAN,
             \/ Connect(h, s)
             \/ \E j \in Jobs : ConnectViaPipeline(j, h, s)
      PROVE  strategy' = strategy /\ BoundaryStep
  <2>1. CASE Connect(h, s)
    BY <1>x, <2>1 DEF Connect, AddConnection, BoundaryStep
  <2>2. ASSUME NEW j \in Jobs, ConnectViaPipeline(j, h, s) PROVE strategy' = strategy /\ BoundaryStep
    <3>1. PICK jobs : jobs = [job EXCEPT ![j] = [Idle EXCEPT !.kind = "capture", !.conn = h]]
      OBVIOUS
    <3>2. \A i \in Jobs : \/ jobs[i] = job[i]
                          \/ jobs[i].kind \notin MarkerKinds /\ job[i].kind \notin MarkerKinds
      BY <1>i, <2>2, <3>1 DEF ConnectViaPipeline, TypeOK, Idle, MarkerKinds
    <3>3. job' = Obsolete(jobs, Jobs)
      BY <2>2, <3>1 DEF ConnectViaPipeline, AddConnection
    <3>4. \A i \in Jobs : Same(i)
      BY <3>2, <3>3, SameWhenMarked
    <3> QED BY <2>2, <3>4 DEF ConnectViaPipeline, AddConnection, BoundaryStep
  <2> QED BY <1>1, <2>1, <2>2
<1>2. CASE Disconnect
  BY <1>2, <1>x DEF Disconnect, BoundaryStep
<1>3. ASSUME NEW d \in Databases,
             \/ RemoveDatabaseConnection(d) \/ CloseDatabase(d)
             \/ InvalidateTableDetails(d) \/ InvalidateObjectCache(d) \/ RefreshRefused(d)
      PROVE  strategy' = strategy /\ PlainStep
  <2>1. \A i \in Jobs : Same(i)
    BY <1>3, <1>x, <1>s DEF RemoveDatabaseConnection, CloseDatabase, InvalidateTableDetails,
       InvalidateObjectCache, RefreshRefused, SetSlot
  <2> QED BY <1>3, <2>1 DEF RemoveDatabaseConnection, CloseDatabase, InvalidateTableDetails,
       InvalidateObjectCache, RefreshRefused, PlainStep, session
<1>4. ASSUME NEW j \in Jobs,
             \/ ApplyFetchDatabaseList(j) \/ ApplyFetchExplicitDatabaseSchema(j)
             \/ ApplyFetchedTableDetails(j) \/ ApplyRefreshedViews(j) \/ JobFails(j)
             \/ PrefetchArrives(j) \/ TableDetailsArrive(j) \/ HydrateCurrentCapture(j)
      PROVE  strategy' = strategy /\ PlainStep
  <2>1. job' = End(j) /\ job[j].kind \notin MarkerKinds
    BY <1>4 DEF ApplyFetchDatabaseList, ApplyFetchExplicitDatabaseSchema, ApplyFetchedTableDetails,
       ApplyRefreshedViews, JobFails, PrefetchArrives, TableDetailsArrive, HydrateCurrentCapture,
       MarkerKinds, FetchKinds, Unchecked
  <2> QED BY <1>4, <1>p, <2>1 DEF ApplyFetchDatabaseList, ApplyFetchExplicitDatabaseSchema,
       ApplyFetchedTableDetails, ApplyRefreshedViews, JobFails, PrefetchArrives, TableDetailsArrive,
       HydrateCurrentCapture, PlainStep, session
<1>5. ASSUME NEW j \in Jobs,
             \/ DatabaseDropped(j) \/ RefreshSchemaArrives(j)
             \/ \E back \in BOOLEAN : DropFails(j, back)
      PROVE  strategy' = strategy /\ PlainStep
  <2>1. job[j].kind \notin MarkerKinds
    BY <1>5 DEF DatabaseDropped, RefreshSchemaArrives, DropFails, MarkerKinds
  <2>2. \A i \in Jobs : Same(i)
    BY <1>5, <1>p, <2>1 DEF DatabaseDropped, RefreshSchemaArrives, DropFails, SetSlot
  <2> QED BY <1>5, <2>2 DEF DatabaseDropped, RefreshSchemaArrives, DropFails, PlainStep, session
<1>6. ASSUME NEW j \in Jobs, NEW h \in Handles,
             ApplyGuardedDatabaseConnection(j, h) \/ ConnectToDatabaseArrives(j, h)
      PROVE  strategy' = strategy /\ PlainStep
  <2>1. job[j].kind \notin MarkerKinds
    BY <1>6 DEF ApplyGuardedDatabaseConnection, ConnectToDatabaseArrives, MarkerKinds
  <2>2. \A i \in Jobs : Same(i)
    BY <1>6, <1>p, <2>1 DEF ApplyGuardedDatabaseConnection, ConnectToDatabaseArrives, SetSlot
  <2> QED BY <1>6, <2>2 DEF ApplyGuardedDatabaseConnection, ConnectToDatabaseArrives, PlainStep, session
<1>7. ASSUME NEW j \in Jobs, RefreshStale(j) PROVE strategy' = strategy /\ EndStep(j)
  BY <1>7, <1>e, <1>f DEF RefreshStale, EndStep, MarkerKinds, session
<1>8. ASSUME NEW j \in Jobs, RefreshFails(j) \/ \E h \in Handles : RefreshArrives(j, h)
      PROVE  strategy' = strategy /\ EndStep(j)
  <2>1. \E S : job' = End(j) \/ job' = Obsolete(End(j), S)
    BY <1>8 DEF RefreshFails, RefreshArrives, SetSlot
  <2>2. ReleaseMarker(job[j]) /\ gen' = gen /\ strategy' = strategy /\ job[j].kind = "refresh"
    BY <1>8 DEF RefreshFails, RefreshArrives, RefreshCurrent, ReleaseMarker, session
  <2> QED BY <1>e, <1>f, <1>o, <2>1, <2>2 DEF EndStep, MarkerKinds
<1>9. ASSUME NEW j \in Jobs, NEW h \in Handles, NEW ok \in BOOLEAN, ClickArrives(j, h, ok)
      PROVE  strategy' = strategy /\ EndStep(j)
  <2>1. \E S : job' = End(j) \/ job' = Obsolete(End(j), S)
    BY <1>9 DEF ClickArrives, SetSlot
  <2> QED BY <1>9, <1>e, <1>f, <1>o, <2>1 DEF ClickArrives, EndStep, MarkerKinds, session
<1>10. ASSUME NEW j \in Jobs, PrepareFetchDatabaseList(j) \/ RefreshSchema(j)
       PROVE  strategy' = strategy /\ PlainStep
  <2>1. /\ [Idle EXCEPT !.kind = "list", !.gen = gen, !.conn = conn, !.inv = inv].kind = "list"
        /\ [Idle EXCEPT !.kind = "workspace"].kind = "workspace"
    BY DEF Idle
  <2> QED BY <1>10, <1>b, <2>1 DEF PrepareFetchDatabaseList, RefreshSchema, PlainStep, MarkerKinds, session
<1>11. ASSUME NEW j \in Jobs, NEW d \in Databases,
              \/ PrepareFetchExplicitDatabaseSchema(j, d)
              \/ PrepareFetchTableDetailsFenced(j, d)
              \/ PrepareDatabaseConnectionGuarded(j, d)
              \/ ConnectToDatabase(j, d) \/ PrefetchSchema(j, d)
              \/ PrefetchTableDetails(j, d) \/ StartDriftPreflight(j, d)
       PROVE  strategy' = strategy /\ PlainStep
  <2>0. /\ Capture("schema", d, Resolve(d), 0).kind = "schema"
        /\ Capture("details", d, Resolve(d), detRev[d]).kind = "details"
        /\ Capture("install", d, conn, 0).kind = "install"
        /\ [Idle EXCEPT !.kind = "context", !.db = d].kind = "context"
        /\ [Idle EXCEPT !.kind = "prefetch", !.db = d].kind = "prefetch"
        /\ [Idle EXCEPT !.kind = "lookup", !.db = d].kind = "lookup"
    BY DEF Capture, Idle
  <2>1. \E r : Begin(j, r) /\ r.kind \notin MarkerKinds
    BY <1>11, <2>0 DEF PrepareFetchExplicitDatabaseSchema, PrepareFetchTableDetailsFenced,
       PrepareDatabaseConnectionGuarded, ConnectToDatabase, PrefetchSchema, PrefetchTableDetails,
       StartDriftPreflight, MarkerKinds
  <2> QED BY <1>11, <1>b, <2>1 DEF PrepareFetchExplicitDatabaseSchema, PrepareFetchTableDetailsFenced,
       PrepareDatabaseConnectionGuarded, ConnectToDatabase, PrefetchSchema, PrefetchTableDetails,
       StartDriftPreflight, PlainStep, session
<1>12. ASSUME NEW j \in Jobs, NEW d \in Databases, PrepareRefreshViews(j, d)
       PROVE  strategy' = strategy /\ PlainStep
  <2>1. \E S : \A i \in Jobs \ {j} : job'[i] = Obsolete(job, S)[i]
    BY <1>12 DEF PrepareRefreshViews, Obsolete
  <2>2. job'[j] = Capture("views", d, Resolve(d), viewRev'[d]) /\ job[j] = Idle
    BY <1>12 DEF PrepareRefreshViews, Obsolete
  <2>3. job'[j].kind = "views"
    BY <2>2 DEF Capture, Idle
  <2>4. \A i \in Jobs : Same(i)
    BY <2>1, <2>2, <2>3, <1>i, SameWhenMarked DEF Same, MarkerKinds
  <2> QED BY <1>12, <2>4 DEF PrepareRefreshViews, PlainStep, session
<1>13. ASSUME NEW j \in Jobs, NEW d \in Databases, HandleConnectionPerDatabaseClick(j, d)
       PROVE  strategy' = strategy /\ BeginStep(j, d)
  <2>1. PICK r : r = Capture("click", d, conn, 0)
    OBVIOUS
  <2>2. r.kind = "click" /\ r.db = d /\ r.gen = gen
    BY <2>1 DEF Capture, Idle
  <2> QED BY <1>13, <1>b, <2>1, <2>2 DEF HandleConnectionPerDatabaseClick, MayPrepareDatabaseConnection,
       BeginStep, MarkerKinds, session
<1>14. ASSUME NEW j \in Jobs, NEW d \in Databases, StartRefresh(j, d)
       PROVE  strategy' = strategy /\ BeginStep(j, d)
  <2>1. \A i \in Jobs \ {j} : job'[i] = Obsolete(job, AboutDatabase(d))[i]
    BY <1>14 DEF StartRefresh, TakeRefreshState, Obsolete
  <2>2. job[j] = Idle /\ job'[j].kind = "refresh" /\ job'[j].db = d /\ job'[j].gen = gen
    BY <1>14 DEF StartRefresh, TakeRefreshState, Obsolete, Idle
  <2>3. \A i \in Jobs \ {j} : Same(i)
    BY <2>1, SameWhenMarked
  <2> QED BY <1>14, <1>i, <2>2, <2>3 DEF StartRefresh, MayRefresh, BeginStep, MarkerKinds, session
<1>15. ASSUME NEW j \in Jobs, NEW d \in Databases, PrepareDatabaseDropRelease(j, d)
       PROVE  strategy' = strategy /\ PlainStep
  <2>1. PICK r : /\ r.kind = "drop"
                 /\ \/ job' = [job EXCEPT ![j] = r]
                    \/ job' = Obsolete([job EXCEPT ![j] = r], AboutDatabase(d))
    BY <1>15 DEF PrepareDatabaseDropRelease, SetSlot, Idle
  <2>2. job[j].kind \notin MarkerKinds
    BY <1>15, <1>i DEF PrepareDatabaseDropRelease
  <2>3. \A i \in Jobs : Same(i)
    <3>1. CASE job' = [job EXCEPT ![j] = r]
      BY <2>1, <2>2, <3>1 DEF Same, MarkerKinds, TypeOK
    <3>2. CASE job' = Obsolete([job EXCEPT ![j] = r], AboutDatabase(d))
      <4> DEFINE jobs == [job EXCEPT ![j] = r]
      <4>1. \A i \in Jobs : jobs[i] = job[i] \/ (jobs[i].kind \notin MarkerKinds /\ job[i].kind \notin MarkerKinds)
        BY <2>1, <2>2 DEF MarkerKinds, TypeOK
      <4> HIDE DEF jobs
      <4> QED BY <3>2, <4>1, SameWhenMarked DEF jobs
    <3> QED BY <2>1, <3>1, <3>2
  <2> QED BY <1>15, <2>3 DEF PrepareDatabaseDropRelease, PlainStep, session
<1>16. CASE UNCHANGED vars
  BY <1>16, <1>s DEF vars, session, PlainStep
<1> QED
  BY <1>1, <1>2, <1>3, <1>4, <1>5, <1>6, <1>7, <1>8, <1>9, <1>10, <1>11, <1>12, <1>13, <1>14,
     <1>15, <1>16 DEF Next

\* Every step keeps what the refreshes hold with the session it came from.
LEMMA HoldingsStep ==
    ASSUME TypeOK, Holdings, SessionOwned, [Next]_vars
    PROVE  Holdings'
<1>1. strategy' = strategy
  BY StepKinds
<1>2. ASSUME NEW i \in Jobs, Same(i), job'[i].kind = "refresh"
      PROVE  LET r == job'[i] IN
             /\ strategy' = "perdb" /\ r.heldSlot = NoHandle => r.db = Primary
             /\ r.heldSchema \in {None, r.gen, Raw}
             /\ r.heldCache \in {None, r.gen, Raw}
             /\ r.heldDetails \in {None, r.gen, Raw}
  <2>1. /\ job[i].kind = "refresh" /\ job'[i].db = job[i].db /\ job'[i].gen = job[i].gen
        /\ job'[i].heldSlot = job[i].heldSlot /\ job'[i].heldCache = job[i].heldCache
        /\ job'[i].heldDetails = job[i].heldDetails /\ job'[i].heldSchema = job[i].heldSchema
    BY <1>2 DEF Same, MarkerKinds
  <2> QED BY <1>1, <2>1 DEF Holdings
<1>3. ASSUME NEW j \in Jobs, NEW d \in Databases, StartRefresh(j, d)
      PROVE  LET r == job'[j] IN
             /\ strategy' = "perdb" /\ r.heldSlot = NoHandle => r.db = Primary
             /\ r.heldSchema \in {None, r.gen, Raw}
             /\ r.heldCache \in {None, r.gen, Raw}
             /\ r.heldDetails \in {None, r.gen, Raw}
  <2>1. /\ job'[j].db = d /\ job'[j].gen = gen /\ job'[j].heldSlot = slot[d]
        /\ job'[j].heldCache = cache[d] /\ job'[j].heldDetails = details[d]
        /\ job'[j].heldSchema \in {None, schema}
    BY <1>3 DEF StartRefresh, TakeRefreshState, Obsolete, Idle
  <2>2. strategy = "perdb" /\ slot[d] = NoHandle => d = Primary
    BY <1>3 DEF StartRefresh, MayRefresh, Current
  <2> QED BY <1>1, <2>1, <2>2 DEF SessionOwned
<1>4. ASSUME NEW i \in Jobs, job'[i].kind = "refresh"
      PROVE  Same(i) \/ \E d \in Databases : StartRefresh(i, d)
  <2>1. CASE BoundaryStep \/ PlainStep
    BY <2>1 DEF BoundaryStep, PlainStep
  <2>2. ASSUME NEW j \in Jobs, NEW d \in Databases, BeginStep(j, d)
        PROVE  Same(i) \/ \E e \in Databases : StartRefresh(i, e)
    BY <1>4, <2>2 DEF BeginStep
  <2>3. ASSUME NEW j \in Jobs, EndStep(j) PROVE Same(i)
    BY <1>4, <2>3 DEF EndStep, MarkerKinds
  <2> QED BY <2>1, <2>2, <2>3, StepKinds
<1> QED BY <1>2, <1>3, <1>4 DEF Holdings

\* Every step keeps one owner per marker.
LEMMA MarkerStep ==
    ASSUME TypeOK, Fences, MarkerHasOneOwner, [Next]_vars
    PROVE  MarkerHasOneOwner'
<1> SUFFICES ASSUME gen' # None, NEW d \in Databases
             PROVE  /\ d \in pending' <=> MarkerOwners(d)' # {}
                    /\ \A i, j \in MarkerOwners(d)' : i = j
  BY DEF MarkerHasOneOwner
<1>o. \A i : i \in MarkerOwners(d) <=>
          i \in Jobs /\ job[i].kind \in MarkerKinds /\ job[i].db = d /\ job[i].gen = gen
  BY DEF MarkerOwners, MarkerKinds
<1>p. \A i : i \in MarkerOwners(d)' <=>
          i \in Jobs /\ job'[i].kind \in MarkerKinds /\ job'[i].db = d /\ job'[i].gen = gen'
  BY DEF MarkerOwners, MarkerKinds
<1>s. ASSUME NEW i \in Jobs, Same(i)
      PROVE  /\ job'[i].kind \in MarkerKinds <=> job[i].kind \in MarkerKinds
             /\ job[i].kind \in MarkerKinds => job'[i].db = job[i].db /\ job'[i].gen = job[i].gen
  BY <1>s DEF Same
<1>1. CASE BoundaryStep
  <2>1. ASSUME NEW i \in MarkerOwners(d)' PROVE FALSE
    <3>1. i \in Jobs /\ job[i].kind \in MarkerKinds /\ job[i].gen = gen'
      BY <1>1, <1>p, <1>s, <2>1 DEF BoundaryStep
    <3>2. job[i].gen \in 1..nextGen
      BY <3>1 DEF Fences, Fence, MarkerKinds, Fenced
    <3>3. gen' = nextGen + 1 /\ nextGen \in Nat
      BY <1>1 DEF BoundaryStep, TypeOK
    <3> QED BY <3>1, <3>2, <3>3
  <2> QED BY <1>1, <2>1 DEF BoundaryStep
<1>2. CASE PlainStep
  <2>1. gen' = gen /\ pending' = pending
    BY <1>2 DEF PlainStep
  <2>2. \A i : i \in MarkerOwners(d)' <=> i \in MarkerOwners(d)
    BY <1>2, <1>o, <1>p, <1>s, <2>1 DEF PlainStep
  <2> QED BY <2>1, <2>2 DEF MarkerHasOneOwner
<1>3. ASSUME NEW j \in Jobs, NEW e \in Databases, BeginStep(j, e)
      PROVE  /\ d \in pending' <=> MarkerOwners(d)' # {}
             /\ \A i, k \in MarkerOwners(d)' : i = k
  <2>1. gen' = gen /\ pending' = pending \union {e} /\ e \notin pending
    BY <1>3 DEF BeginStep
  <2>2. \A i \in Jobs \ {j} : i \in MarkerOwners(d)' <=> i \in MarkerOwners(d)
    BY <1>3, <1>o, <1>p, <1>s, <2>1 DEF BeginStep
  <2>3. j \notin MarkerOwners(d) /\ (j \in MarkerOwners(d)' <=> d = e)
    BY <1>3, <1>o, <1>p DEF BeginStep
  <2>4. \A i : i \in MarkerOwners(d)' \/ i \in MarkerOwners(d) => i \in Jobs
    BY <1>o, <1>p
  <2>5. d = e => MarkerOwners(d) = {}
    BY <2>1 DEF MarkerHasOneOwner
  <2> QED BY <2>1, <2>2, <2>3, <2>4, <2>5 DEF MarkerHasOneOwner
<1>4. ASSUME NEW j \in Jobs, EndStep(j)
      PROVE  /\ d \in pending' <=> MarkerOwners(d)' # {}
             /\ \A i, k \in MarkerOwners(d)' : i = k
  <2>1. gen' = gen
    BY <1>4 DEF EndStep
  <2>2. \A i \in Jobs \ {j} : i \in MarkerOwners(d)' <=> i \in MarkerOwners(d)
    BY <1>4, <1>o, <1>p, <1>s, <2>1 DEF EndStep
  <2>3. j \notin MarkerOwners(d)'
    BY <1>4, <1>p DEF EndStep
  <2>4. \A i : i \in MarkerOwners(d)' \/ i \in MarkerOwners(d) => i \in Jobs
    BY <1>o, <1>p
  <2>5. SameSession(job[j]) <=> gen = job[j].gen
    <3>1. Fence(job[j]) /\ job[j].kind \in MarkerKinds
      BY <1>4 DEF EndStep, Fences, MarkerKinds, Fenced
    <3>2. gen = job[j].gen => conn = job[j].conn
      BY <3>1 DEF Fence, OnTarget, MarkerKinds
    <3> QED BY <2>1, <3>2 DEF SameSession
  <2>6. d \in pending' <=> d \in pending /\ j \notin MarkerOwners(d)
    <3>1. CASE j \in MarkerOwners(d)
      BY <1>4, <1>o, <2>5, <3>1 DEF EndStep, ReleaseMarker
    <3>2. CASE j \notin MarkerOwners(d)
      BY <1>4, <1>o, <2>5, <3>2 DEF EndStep, ReleaseMarker
    <3> QED BY <3>1, <3>2
  <2>7. /\ d \in pending <=> MarkerOwners(d) # {}
        /\ \A i, k \in MarkerOwners(d) : i = k
    BY <2>1 DEF MarkerHasOneOwner
  <2> QED BY <2>2, <2>3, <2>4, <2>6, <2>7
<1> QED BY <1>1, <1>2, <1>3, <1>4, StepKinds

\* Every step keeps what the manager shows in the session it was read in.
LEMMA SessionOwnedStep ==
    ASSUME TypeOK, Fences, Holdings, SessionOwned, [Next]_vars
    PROVE  SessionOwned'
<1> USE DEF SessionOwned, session, caches
<1>d. ASSUME NEW j \in Jobs PROVE job[j].db \in Databases
  BY DEF TypeOK, JobRecords
<1>t. cache \in [Databases -> Origins] /\ details \in [Databases -> Origins]
  BY DEF TypeOK
<1>1. ASSUME NEW h \in Handles, NEW s \in BOOLEAN,
             \/ Connect(h, s)
             \/ \E j \in Jobs : ConnectViaPipeline(j, h, s)
      PROVE  SessionOwned'
  BY <1>1 DEF Connect, ConnectViaPipeline, AddConnection
<1>2. CASE Disconnect
  BY <1>2 DEF Disconnect
<1>3. ASSUME NEW d \in Databases,
             \/ RemoveDatabaseConnection(d) \/ CloseDatabase(d)
             \/ InvalidateTableDetails(d) \/ InvalidateObjectCache(d) \/ RefreshRefused(d)
      PROVE  SessionOwned'
  BY <1>3, <1>t DEF RemoveDatabaseConnection, CloseDatabase, InvalidateTableDetails,
     InvalidateObjectCache, RefreshRefused
<1>4. ASSUME NEW j \in Jobs, ApplyFetchDatabaseList(j) PROVE SessionOwned'
  BY <1>4 DEF ApplyFetchDatabaseList, ListCurrent
<1>5. ASSUME NEW j \in Jobs, ApplyFetchExplicitDatabaseSchema(j) PROVE SessionOwned'
  BY <1>5, <1>d, <1>t DEF ApplyFetchExplicitDatabaseSchema, SchemaCurrent
<1>6. ASSUME NEW j \in Jobs, ApplyFetchedTableDetails(j) PROVE SessionOwned'
  BY <1>6, <1>d, <1>t DEF ApplyFetchedTableDetails, DetailsCurrent
<1>7. ASSUME NEW j \in Jobs, NEW d \in Databases, StartRefresh(j, d) PROVE SessionOwned'
  BY <1>7, <1>t DEF StartRefresh, TakeRefreshState
<1>8. ASSUME NEW j \in Jobs, NEW h \in Handles, RefreshArrives(j, h) PROVE SessionOwned'
  <2>1. job[j].gen = gen
    BY <1>8 DEF RefreshArrives, RefreshCurrent, SameSession
  <2> QED BY <1>8, <1>d, <1>t, <2>1 DEF RefreshArrives
<1>9. ASSUME NEW j \in Jobs, RefreshFails(j) PROVE SessionOwned'
  <2>1. job[j].gen = gen
    BY <1>9 DEF RefreshFails, RefreshCurrent, SameSession
  <2>2. /\ job[j].heldCache \in {None, gen, Raw} /\ job[j].heldDetails \in {None, gen, Raw}
        /\ job[j].heldSchema \in {None, gen, Raw}
    BY <1>9, <2>1 DEF Holdings, RefreshFails
  <2> QED BY <1>9, <1>d, <1>t, <2>2 DEF RefreshFails
<1>10. ASSUME NEW j \in Jobs,
              \/ PrefetchArrives(j) \/ TableDetailsArrive(j) \/ HydrateCurrentCapture(j)
              \/ RefreshSchemaArrives(j)
              \/ DatabaseDropped(j) \/ \E back \in BOOLEAN : DropFails(j, back)
       PROVE  SessionOwned'
  BY <1>10, <1>d, <1>t DEF PrefetchArrives, TableDetailsArrive, HydrateCurrentCapture,
     RefreshSchemaArrives, DatabaseDropped, DropFails
<1>11. ASSUME NEW j \in Jobs, NEW d \in Databases, PrepareDatabaseDropRelease(j, d) PROVE SessionOwned'
  BY <1>11, <1>t DEF PrepareDatabaseDropRelease
<1>12. CASE UNCHANGED <<gen, list, schema, cache, details>>
  BY <1>12
<1> QED
  BY <1>1, <1>2, <1>3, <1>4, <1>5, <1>6, <1>7, <1>8, <1>9, <1>10, <1>11, <1>12
     DEF Next, vars, PrepareFetchDatabaseList, ApplyRefreshedViews, JobFails, RefreshStale,
     PrepareFetchExplicitDatabaseSchema, PrepareFetchTableDetailsFenced, PrepareRefreshViews,
     PrepareDatabaseConnectionGuarded, HandleConnectionPerDatabaseClick, ConnectToDatabase,
     PrefetchSchema, PrefetchTableDetails, StartDriftPreflight, RefreshSchema, ApplyGuardedDatabaseConnection, ClickArrives, ConnectToDatabaseArrives

(***************************************************************************)
(* Theorems                                                                *)
(***************************************************************************)
\* The inductive invariant: captured revisions are never ahead of the ledgers
\* of their session, and a request is obsolete exactly if one has moved or a
\* snapshot stored by the workspace hides the slot that it was sent through.
THEOREM FencingInvariant == Spec => []FencingInv
<1>1. Init => FencingInv
  <2> SUFFICES ASSUME Init PROVE FencingInv
    OBVIOUS
  <2>1. \A j \in Jobs : job[j].kind = "idle"
    BY DEF Init, Idle
  <2>2. Fences /\ Holdings
    BY <2>1 DEF Fences, Holdings, Fenced, FetchKinds
  <2>3. SessionOwned /\ MarkerHasOneOwner
    BY DEF Init, SessionOwned, MarkerHasOneOwner
  <2> QED BY <2>2, <2>3, TypeCorrectInit DEF FencingInv
<1>2. FencingInv /\ [Next]_vars => FencingInv'
  BY TypeCorrectStep, FencesStep, HoldingsStep, SessionOwnedStep, MarkerStep DEF FencingInv
<1> QED BY <1>1, <1>2, PTL DEF Spec

\* A result is stored exactly when no event made its request obsolete, for any
\* number of jobs and sessions and whichever connection objects come back
\* (the fences of apply_fetch_*, apply_guarded_database_connection and
\* apply_database_refresh_outcome).
THEOREM FenceIsExactHolds == Spec => []FenceIsExact
BY FencingInvariant, FenceIsExactFollows, PTL DEF FencingInv

\* The list, the snapshot, the schemas and the details shown were read in the
\* session that shows them or stored by a writer that looks at no generation
\* (add_connection over in-flight fetches, restore of a failed refresh).
THEOREM SessionOwnedHolds == Spec => []SessionOwned
BY FencingInvariant, PTL DEF FencingInv

\* A pending marker has exactly one owner, a job of the live session
\* (take_database_refresh_state, finish_pending_operation after the fence).
THEOREM MarkerHasOneOwnerHolds == Spec => []MarkerHasOneOwner
BY FencingInvariant, PTL DEF FencingInv
=============================================================================
