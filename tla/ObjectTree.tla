----------------------------- MODULE ObjectTree -----------------------------
(***************************************************************************)
(* The coordinator of the shared object tree and the sidebar that loads    *)
(* and refreshes table details through it, for one profile. Consumers (the *)
(* sidebar, the migration wizard) share one attempt per request; a request *)
(* for a database without a connection waits, with others, for one install *)
(* of its slot. The UI thread runs a handler undisturbed; the events it    *)
(* emits are handled when it has returned, before anything else runs.      *)
(*                                                                         *)
(* A task lives in the entry of its attempt, so dropping the entry cancels *)
(* it; attempt numbers say the same and are left out. Whether the manager  *)
(* accepts a result is FenceIsExact of SessionFencing: it does unless the  *)
(* request became obsolete. Each database has one table. add_waiter lists  *)
(* a request once, so the waiters of an install are a set; the events of   *)
(* one loop over waiters are handled in any order.                         *)
(***************************************************************************)
EXTENDS Naturals, Sequences

CONSTANTS
    Databases,     \* of a profile with one connection per database
    NoDatabase,
    MaxRequests    \* bounds what users, consumers and the manager do

ASSUME TreeAssumption ==
    /\ NoDatabase \notin Databases
    /\ MaxRequests \in Nat

None == 0          \* no session, no attempt

DatabaseList == [kind |-> "list", db |-> NoDatabase]
Keys == [kind : {"schema", "details"}, db : Databases] \union {DatabaseList}
Schema(d) == [kind |-> "schema", db |-> d]
Details(d) == [kind |-> "details", db |-> d]

VARIABLES
    gen, nextGen,  \* the session generation of the profile
    slot,          \* databases with a connection
    cached,        \* requests the manager's caches answer
    tree,          \* the coordinator, with the events it has emitted
    asked,         \* table_details_requests: the session that was asked in
    loading,       \* loading_items
    row,           \* table_refresh_tasks, and whether the task was cancelled
    rows,          \* history: refresh tasks of the table that run
    retry,         \* table_details_retry: the session of the failure
    recovery,      \* table_details_recovery
    superseded,    \* superseded_details_cancellations
    requests

manager == <<gen, nextGen, slot, cached>>
sidebar == <<asked, loading, row, rows, retry, recovery, superseded>>
vars == <<manager, tree, sidebar, requests>>

NoFetch == [gen |-> None, deferred |-> NoDatabase, stale |-> FALSE]
NoInstall == [gen |-> None, waiters |-> {}, invalid |-> FALSE, replaced |-> FALSE]

Init ==
    /\ gen = None /\ nextGen = 0
    /\ slot = {}
    /\ cached = {}
    /\ tree = [fetch |-> [k \in Keys |-> NoFetch],
               install |-> [d \in Databases |-> NoInstall],
               events |-> <<>>]
    /\ asked = [d \in Databases |-> None]
    /\ loading = {}
    /\ row = [d \in Databases |-> "none"]
    /\ rows = [d \in Databases |-> 0]
    /\ retry = [d \in Databases |-> None]
    /\ recovery = [d \in Databases |-> None]
    /\ superseded = {}
    /\ requests = 0

\* No event waits to be handled.
Quiet == tree.events = <<>>

Request ==
    /\ Quiet
    /\ requests < MaxRequests
    /\ requests' = requests + 1

(***************************************************************************)
(* The coordinator: each operation maps its state t to the next            *)
(***************************************************************************)
Pending(t, k) == t.fetch[k] # NoFetch

StaleSession(t, k) == Pending(t, k) /\ t.fetch[k].gen # gen

\* Releases the requests ks and tells every subscriber.
Settle(t, ks, outcome) ==
    [t EXCEPT
        !.fetch = [k \in Keys |-> IF k \in ks THEN NoFetch ELSE @[k]],
        !.events = IF ks = {} THEN @
                              ELSE Append(@, [keys |-> ks, outcome |-> outcome])]

\* Mutated form: the request stays among the waiters.
Cancel_StillWaiting(t, k) ==
    IF ~Pending(t, k) THEN t ELSE Settle(t, {k}, "cancelled")

\* A cancelled request leaves its install, which ends with its last waiter.
Cancel(t, k) ==
    LET d == t.fetch[k].deferred
        left == t.install[d].waiters \ {k}
        u == IF d # NoDatabase
               THEN [t EXCEPT !.install[d] =
                       IF left = {} THEN NoInstall ELSE [@ EXCEPT !.waiters = left]]
               ELSE t
    IN IF Pending(t, k) THEN Settle(u, {k}, "cancelled") ELSE t

\* Mutated form: the waiters of the old install are forgotten.
DropStaleInstall_Silent(t, d) ==
    IF t.install[d] # NoInstall /\ t.install[d].gen # gen
      THEN [t EXCEPT !.install[d] = NoInstall] ELSE t

\* An install of an earlier session ends, and its waiters with it.
DropStaleInstall(t, d) ==
    LET old == t.install[d]
    IN IF old # NoInstall /\ old.gen # gen
         THEN Settle([t EXCEPT !.install[d] = NoInstall],
                     {w \in old.waiters : StaleSession(t, w)},
                     "rejected")
         ELSE t

\* ok: a new install could be prepared.
DeferBehindInstall(t, k, ok) ==
    LET u == DropStaleInstall(t, k.db)
        v == IF u.install[k.db] = NoInstall
               THEN [u EXCEPT !.install[k.db].gen = gen] ELSE u
    IN IF u.install[k.db] = NoInstall /\ ~ok
         THEN Settle(u, {k}, "failed")
         ELSE [v EXCEPT
                 !.fetch[k] = [NoFetch EXCEPT !.gen = gen, !.deferred = k.db],
                 !.install[k.db].waiters = @ \union {k}]

Dispatch(t, k, ok) ==
    IF gen = None THEN Settle(t, {k}, "failed")
    ELSE IF k.kind # "list" /\ k.db \notin slot THEN DeferBehindInstall(t, k, ok)
    ELSE [t EXCEPT !.fetch[k] = [NoFetch EXCEPT !.gen = gen]]

\* object_tree_request, over the caches c.
Ask(t, c, k, ok) ==
    IF Pending(t, k) THEN t
    ELSE IF k \in c THEN Settle(t, {k}, "cached")
    ELSE Dispatch(t, k, ok)

\* object_tree_retry.
AskAgain(t, c, k, ok) == Ask(Cancel(t, k), c, k, ok)

\* The slot now exists: every waiter is asked for again.
Resume(t, ks) ==
    [Settle(t, ks \intersect cached, "cached") EXCEPT
        !.fetch = [k \in Keys |-> IF k \in ks \ cached
                                    THEN [NoFetch EXCEPT !.gen = gen] ELSE @[k]]]

(***************************************************************************)
(* What the manager does to requests under way                             *)
(***************************************************************************)
\* The slot of d changed.
SlotChanged(t, d) ==
    [t EXCEPT
        !.fetch = [k \in Keys |-> IF k.db = d /\ Pending(t, k)
                                    THEN [@[k] EXCEPT !.stale = TRUE] ELSE @[k]],
        !.install[d] = IF @ = NoInstall THEN @ ELSE [@ EXCEPT !.replaced = TRUE]]

\* The profile was invalidated.
Invalidated(t) ==
    [t EXCEPT
        !.fetch = [k \in Keys |-> IF Pending(t, k)
                                    THEN [@[k] EXCEPT !.stale = TRUE] ELSE @[k]],
        !.install = [d \in Databases |->
            IF @[d] = NoInstall THEN @[d] ELSE [@[d] EXCEPT !.invalid = TRUE]]]

\* A session begins, perhaps over another; nobody cancels what is pending.
Connect ==
    /\ Request
    /\ nextGen' = nextGen + 1
    /\ gen' = nextGen'
    /\ slot' = {} /\ cached' = {}
    /\ UNCHANGED <<tree, sidebar>>

Disconnect ==
    /\ gen # None
    /\ Request
    /\ gen' = None
    /\ slot' = {} /\ cached' = {}
    /\ UNCHANGED <<nextGen, tree, sidebar>>

\* Others open a connection of d or take it away.
OpenSlot(d) ==
    /\ gen # None
    /\ Request
    /\ slot' = slot \union {d}
    /\ tree' = SlotChanged(tree, d)
    /\ UNCHANGED <<gen, nextGen, cached, sidebar>>

TakeSlot(d) ==
    /\ d \in slot
    /\ Request
    /\ slot' = slot \ {d}
    /\ tree' = SlotChanged(tree, d)
    /\ UNCHANGED <<gen, nextGen, cached, sidebar>>

\* Others store a schema or details.
Store(k) ==
    /\ gen # None
    /\ k.kind # "list"
    /\ Request
    /\ cached' = cached \union {k}
    /\ UNCHANGED <<gen, nextGen, slot, tree, sidebar>>

\* invalidate_database_cache, after d was dropped.
InvalidateDatabaseCache(d) ==
    /\ gen # None
    /\ Request
    /\ cached' = {k \in cached : k.db # d}
    /\ slot' = slot \ {d}
    /\ tree' = LET t == Invalidated(tree)
               IN IF d \in slot THEN SlotChanged(t, d) ELSE t
    /\ retry' = [retry EXCEPT ![d] = None]
    /\ recovery' = [recovery EXCEPT ![d] = None]
    /\ UNCHANGED <<gen, nextGen, asked, loading, row, rows, superseded>>

(***************************************************************************)
(* Consumers and the answers of drivers                                    *)
(***************************************************************************)
ConsumerRequest(k, ok) ==
    /\ Request
    /\ tree' = Ask(tree, cached, k, ok)
    /\ UNCHANGED <<manager, sidebar>>

ConsumerRetry(k, ok) ==
    /\ Request
    /\ tree' = AskAgain(tree, cached, k, ok)
    /\ UNCHANGED <<manager, sidebar>>

\* object_tree_settle_database_list, _database_schema, _table_details.
FetchArrives(k, ok) ==
    LET f == tree.fetch[k]
        applied == f.gen = gen /\ ok /\ ~f.stale
    IN
    /\ Quiet
    /\ Pending(tree, k) /\ f.deferred = NoDatabase
    /\ tree' = Settle(tree, {k},
                      IF StaleSession(tree, k) THEN "rejected"
                      ELSE IF ~ok THEN "failed"
                      ELSE IF applied THEN "applied" ELSE "rejected")
    /\ cached' = IF applied THEN cached \union {k} ELSE cached
    /\ UNCHANGED <<gen, nextGen, slot, sidebar, requests>>

\* Waiters of an earlier session are rejected. The others share the result: a
\* slot replaced meanwhile will do if there is one now.
InstallArrives(d, ok) ==
    LET i == tree.install[d]
        old == {w \in i.waiters : StaleSession(tree, w)}
        now == i.waiters \ old
        t == Settle([tree EXCEPT !.install[d] = NoInstall], old, "rejected")
        accepted == i.gen = gen /\ ~i.invalid /\ ~i.replaced
    IN
    /\ Quiet
    /\ i # NoInstall
    /\ \/ /\ now = {}
          /\ tree' = t
          /\ UNCHANGED slot
       \/ /\ now # {} /\ ~ok
          /\ tree' = Settle(t, now, "failed")
          /\ UNCHANGED slot
       \/ /\ now # {} /\ ok /\ accepted
          /\ slot' = slot \union {d}
          /\ tree' = Resume(SlotChanged(t, d), now)
       \/ /\ now # {} /\ ok /\ ~accepted
          /\ tree' = IF i.gen = gen /\ ~i.invalid /\ d \in slot
                       THEN Resume(t, now)
                       ELSE Settle(t, now, "rejected")
          /\ UNCHANGED slot
    /\ UNCHANGED <<gen, nextGen, cached, sidebar, requests>>

(***************************************************************************)
(* The sidebar                                                             *)
(***************************************************************************)
\* Mutated form: the task is forgotten, not settled.
EndRow_TaskLeft(d) ==
    /\ row' = [row EXCEPT ![d] = "none"]
    /\ rows' = rows

\* The refresh task of d, if it runs, is completed, failed or cancelled.
EndRow(d) ==
    /\ row' = [row EXCEPT ![d] = "none"]
    /\ rows' = [rows EXCEPT ![d] = IF row[d] = "running" THEN @ - 1 ELSE @]

StaleItem(d) == asked[d] # None /\ asked[d] # gen

\* retire_stale_table_refresh.
Retire(d) ==
    /\ asked' = [asked EXCEPT ![d] = None]
    /\ loading' = loading \ {d}
    /\ EndRow(d)

\* reconcile_table_details_retry keeps a failure of this session only.
MayRetry(d) == gen # None /\ retry[d] = gen /\ Details(d) \notin cached

\* Mutated form: every request of the sidebar expects a cancellation.
Mark_Always(d, cancels) ==
    superseded' = superseded \union {<<d, gen>>}

\* The sidebar is about to cancel an attempt of its own accord.
Mark(d, cancels) ==
    superseded' = IF cancels THEN superseded \union {<<d, gen>>} ELSE superseded

\* Mutated form: an attempt of an earlier session is joined.
AskForDetails_Joining(d, ok) == Ask(tree, cached, Details(d), ok)

\* An attempt of an earlier session is cancelled, one of this session shared.
AskForDetails(d, ok) ==
    IF StaleSession(tree, Details(d))
      THEN AskAgain(tree, cached, Details(d), ok)
      ELSE Ask(tree, cached, Details(d), ok)

\* Expanding a table, or an action that needs its columns.
EnsureTableDetails(d, ok) ==
    LET t == AskForDetails(d, ok) IN
    /\ gen # None /\ asked[d] # gen
    /\ Details(d) \notin cached
    /\ ~MayRetry(d)
    /\ Request
    /\ tree' = t
    /\ Mark(d, StaleSession(tree, Details(d)))
    /\ asked' = [asked EXCEPT ![d] = IF Pending(t, Details(d)) THEN gen ELSE None]
    /\ loading' = IF StaleItem(d) THEN loading \ {d} ELSE loading
    /\ IF StaleItem(d) THEN EndRow(d) ELSE UNCHANGED <<row, rows>>
    /\ UNCHANGED <<manager, retry, recovery>>

\* A refresh without a session or at the limit of background tasks, and a
\* request for details that are there or failed before, only retire what an
\* earlier session left.
RetireStaleItem(d) ==
    /\ StaleItem(d)
    /\ Request
    /\ Retire(d)
    /\ UNCHANGED <<manager, tree, retry, recovery, superseded>>

RefreshTableDetails(d, ok) ==
    LET k == Details(d)
        t == AskAgain(tree, cached \ {k}, k, ok)
    IN
    /\ gen # None
    /\ d \notin loading \/ StaleItem(d)
    /\ Request
    /\ cached' = cached \ {k}
    /\ tree' = t
    /\ IF Pending(tree, k)
         THEN Mark(d, TRUE)
         ELSE superseded' = superseded \ {<<d, gen>>}
    /\ LET left == IF StaleItem(d) /\ row[d] = "running" THEN rows[d] - 1 ELSE rows[d]
       IN IF Pending(t, k)
            THEN /\ asked' = [asked EXCEPT ![d] = gen]
                 /\ loading' = loading \union {d}
                 /\ row' = [row EXCEPT ![d] = "running"]
                 /\ rows' = [rows EXCEPT ![d] = left + 1]
            ELSE IF StaleItem(d) THEN Retire(d)
            ELSE UNCHANGED <<asked, loading, row, rows>>
    /\ UNCHANGED <<gen, nextGen, slot, retry, recovery>>

\* The Retry row of a failed table reloads the schema of its database first.
RetryTable(d, ok) ==
    /\ MayRetry(d)
    /\ Request
    /\ recovery' = [recovery EXCEPT ![d] = gen]
    /\ tree' = AskAgain(tree, cached, Schema(d), ok)
    /\ UNCHANGED <<manager, asked, loading, row, rows, retry, superseded>>

\* The user cancels the task of a refresh.
CancelRow(d) ==
    /\ row[d] = "running"
    /\ Request
    /\ row' = [row EXCEPT ![d] = "cancelled"]
    /\ rows' = [rows EXCEPT ![d] = @ - 1]
    /\ UNCHANGED <<manager, tree, asked, loading, retry, recovery, superseded>>

\* The next event tells of k.
Emitted(k) == ~Quiet /\ k \in Head(tree.events).keys

\* Its handler has returned.
Handled(k) ==
    LET left == Head(tree.events).keys \ {k}
        e == [Head(tree.events) EXCEPT !.keys = left]
    IN [tree EXCEPT !.events = IF left = {} THEN Tail(@) ELSE [@ EXCEPT ![1] = e]]

\* The cancellation was the sidebar's own, to begin a newer attempt.
SettleSuperseded(d) ==
    /\ Emitted(Details(d))
    /\ Head(tree.events).outcome = "cancelled"
    /\ <<d, gen>> \in superseded
    /\ superseded' = superseded \ {<<d, gen>>}
    /\ tree' = Handled(Details(d))
    /\ UNCHANGED <<manager, asked, loading, row, rows, retry, recovery, requests>>

\* Mutated form: an event ends the item although a newer attempt is pending.
SettleTableDetails_AnyEvent(d) ==
    LET o == Head(tree.events).outcome IN
    /\ Emitted(Details(d))
    /\ ~(o = "cancelled" /\ <<d, gen>> \in superseded)
    /\ Retire(d)
    /\ retry' = [retry EXCEPT ![d] = IF o \in {"rejected", "failed"} THEN gen ELSE None]
    /\ tree' = Handled(Details(d))
    /\ UNCHANGED <<manager, recovery, superseded, requests>>

\* offered: the item's pending action is still the one the request was made for,
\* so its failure leaves a Retry row; a replaced action is left to its own request.
SettleTableDetails(d) ==
    LET o == Head(tree.events).outcome
        failed == o \in {"rejected", "failed"}
        settled == asked[d] # None /\ asked[d] = gen /\ ~Pending(tree, Details(d))
    IN
    /\ Emitted(Details(d))
    /\ ~(o = "cancelled" /\ <<d, gen>> \in superseded)
    /\ IF StaleItem(d) \/ settled
         THEN Retire(d)
         ELSE UNCHANGED <<asked, loading, row, rows>>
    /\ \E offered \in BOOLEAN :
         retry' = [retry EXCEPT ![d] = IF ~failed THEN None
                                       ELSE IF settled /\ offered THEN gen ELSE @]
    /\ tree' = Handled(Details(d))
    /\ UNCHANGED <<manager, recovery, superseded, requests>>

\* The schema a Retry row waited for; found: the table is in it.
SettleDetailsRecoverySchema(d, found, ok) ==
    LET reloaded == /\ recovery[d] # None /\ recovery[d] = gen
                    /\ Head(tree.events).outcome \in {"applied", "cached"}
                    /\ Schema(d) \in cached
    IN
    /\ Emitted(Schema(d))
    /\ recovery' = [recovery EXCEPT ![d] = None]
    /\ retry' = IF reloaded THEN [retry EXCEPT ![d] = None] ELSE retry
    /\ tree' = IF reloaded /\ found /\ Details(d) \notin cached
                 THEN AskAgain(Handled(Schema(d)), cached, Details(d), ok)
                 ELSE Handled(Schema(d))
    /\ UNCHANGED <<manager, asked, loading, row, rows, superseded, requests>>

SettleList ==
    /\ Emitted(DatabaseList)
    /\ tree' = Handled(DatabaseList)
    /\ UNCHANGED <<manager, sidebar, requests>>

HandleEvent ==
    \/ SettleList
    \/ \E d \in Databases :
         \/ SettleSuperseded(d)
         \/ SettleTableDetails(d)
         \/ \E found, ok \in BOOLEAN : SettleDetailsRecoverySchema(d, found, ok)

Next ==
    \/ Connect \/ Disconnect
    \/ HandleEvent
    \/ \E d \in Databases :
         \/ OpenSlot(d) \/ TakeSlot(d)
         \/ InvalidateDatabaseCache(d)
         \/ RetireStaleItem(d)
         \/ CancelRow(d)
    \/ \E d \in Databases, ok \in BOOLEAN :
         \/ InstallArrives(d, ok)
         \/ EnsureTableDetails(d, ok)
         \/ RefreshTableDetails(d, ok)
         \/ RetryTable(d, ok)
    \/ \E k \in Keys : Store(k)
    \/ \E k \in Keys, ok \in BOOLEAN :
         \/ ConsumerRequest(k, ok) \/ ConsumerRetry(k, ok)
         \/ FetchArrives(k, ok)

Spec == Init /\ [][Next]_vars

\* Every driver call returns, and the UI thread handles what was emitted.
FairSpec ==
    /\ Spec
    /\ WF_vars(HandleEvent)
    /\ \A k \in Keys : WF_vars(\E ok \in BOOLEAN : FetchArrives(k, ok))
    /\ \A d \in Databases : WF_vars(\E ok \in BOOLEAN : InstallArrives(d, ok))

(***************************************************************************)
(* Properties                                                              *)
(***************************************************************************)
Outcomes == {"applied", "cached", "cancelled", "rejected", "failed"}

Fetches == [gen : Nat, deferred : Databases \union {NoDatabase}, stale : BOOLEAN]
Installs == [gen : Nat, waiters : SUBSET Keys, invalid : BOOLEAN, replaced : BOOLEAN]
Events == [keys : SUBSET Keys, outcome : Outcomes]
Trees ==
    [fetch : [Keys -> Fetches], install : [Databases -> Installs], events : Seq(Events)]

\* Every variable has its type; no running task is counted twice.
TypeOK ==
    /\ nextGen \in Nat /\ gen \in 0..nextGen
    /\ slot \subseteq Databases
    /\ cached \subseteq Keys
    /\ tree \in Trees
    /\ asked \in [Databases -> 0..nextGen]
    /\ loading \subseteq Databases
    /\ row \in [Databases -> {"none", "running", "cancelled"}]
    /\ rows \in [Databases -> {0, 1}]
    /\ retry \in [Databases -> Nat]
    /\ recovery \in [Databases -> Nat]
    /\ superseded \subseteq Databases \X Nat
    /\ requests \in 0..MaxRequests

\* In t, a request is deferred exactly while an install of its database and of
\* its session lists it.
WaitersAgreeIn(t) ==
    \A d \in Databases :
        LET i == t.install[d] IN
        /\ i # NoInstall => i.waiters # {}
        /\ \A k \in Keys : k \in i.waiters <=> t.fetch[k].deferred = d
        /\ \A k \in i.waiters : k.db = d /\ t.fetch[k].gen = i.gen

\* "Waiters share one preparation and all resume once the slot exists": no
\* request waits for an install that is gone, and no install resumes a request
\* that was cancelled or asked for anew (object_tree_defer_behind_install,
\* object_tree_cancel).
WaitersAgree == WaitersAgreeIn(tree)

\* Between handlers, a table that was asked for in this session has an attempt
\* of this session under way, whoever else cancelled, retried or shared it; a
\* table that shows as loading has been asked for, and has one refresh task,
\* which nobody else owns (settle_table_details, retire_stale_table_refresh).
SpinnerHasAttempt ==
    Quiet =>
        \A d \in Databases :
            /\ (asked[d] # None /\ asked[d] = gen)
                  => tree.fetch[Details(d)].gen = gen
            /\ d \in loading => asked[d] # None
            /\ d \in loading <=> row[d] # "none"
            /\ rows[d] = IF row[d] = "running" THEN 1 ELSE 0

\* The mark by which the sidebar ignores its own cancellation is used up by
\* the event it was made for: none is left to swallow a later cancellation
\* (ensure_table_details, refresh_table_details_via_coordinator).
NoStrayMark == Quiet => superseded = {}

\* What makes the three inductive while events wait to be handled. An attempt
\* has the session it was begun in.
AttemptsHaveSessions(t) == \A k \in Keys : t.fetch[k].gen = None => t.fetch[k] = NoFetch

\* A mark is made together with the cancellation it is for, which is handled
\* next.
MarkHasEvent ==
    superseded # {} =>
        \E d \in Databases :
            /\ superseded = {<<d, gen>>}
            /\ ~Quiet
            /\ Head(tree.events) = [keys |-> {Details(d)}, outcome |-> "cancelled"]

\* An event for the table of d waits that is not the cancellation the sidebar
\* ignores.
Awaited(d) ==
    \E i \in DOMAIN tree.events :
        /\ Details(d) \in tree.events[i].keys
        /\ i = 1 => <<d, gen>> \notin superseded

\* A table asked for in this session has an attempt, or is about to be told
\* how its last one ended.
AskedHasAttempt ==
    \A d \in Databases :
        (asked[d] # None /\ asked[d] = gen) =>
            \/ tree.fetch[Details(d)].gen = gen
            \/ tree.fetch[Details(d)] = NoFetch /\ Awaited(d)

\* Loading items and refresh tasks agree, also between events.
RowsAgree ==
    \A d \in Databases :
        /\ d \in loading => asked[d] # None
        /\ d \in loading <=> row[d] # "none"
        /\ rows[d] = IF row[d] = "running" THEN 1 ELSE 0

TreeInv ==
    /\ WaitersAgree
    /\ AttemptsHaveSessions(tree)
    /\ MarkHasEvent
    /\ AskedHasAttempt
    /\ RowsAgree

\* A refresh task of this session ends only when no attempt for its table is
\* under way: a cancellation by another consumer that asks again at once does
\* not end it (settle_table_details).
RefreshOutlivesAttempt ==
    [][\A d \in Databases :
          (/\ row[d] = "running" /\ row'[d] = "none"
           /\ asked[d] = gen)
             => ~Pending(tree, Details(d))]_vars

\* "the node never sticks in Loading": a table that shows as loading stops
\* doing so if driver calls return, also when its session is replaced.
NeverSticks == \A d \in Databases : (d \in loading) ~> (d \notin loading)
=============================================================================
