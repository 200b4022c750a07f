-------------------------- MODULE ObjectTreeProofs --------------------------
(***************************************************************************)
(* Proofs about ObjectTree for every set of databases and every number of  *)
(* requests. The first part says, of each operation of the coordinator on  *)
(* any sound state, that its result is sound, that events are only added   *)
(* and that an attempt goes on, is begun in this session or is told to     *)
(* have ended. The second part shows from this that every handler of the   *)
(* sidebar keeps the invariant TreeInv, and draws the theorems from it.    *)
(***************************************************************************)
EXTENDS ObjectTree, TLAPS

-----------------------------------------------------------------------------
\* The operations of the coordinator, on any of its states t.

Sound(t) == t \in Trees /\ WaitersAgreeIn(t) /\ AttemptsHaveSessions(t)

\* u comes after the events of t; among the events in between is one for k.
Extends(t, u) ==
    /\ Len(t.events) <= Len(u.events)
    /\ \A i \in 1..Len(t.events) : u.events[i] = t.events[i]
Told(t, u, k) == \E i \in (Len(t.events) + 1)..Len(u.events) : k \in u.events[i].keys

\* An attempt goes on, is begun in this session, or its end is told.
Keeps(t, u, k) ==
    \/ u.fetch[k].gen = t.fetch[k].gen
    \/ u.fetch[k].gen = gen
    \/ u.fetch[k].gen = None /\ Told(t, u, k)

Advances(t, u) == Sound(u) /\ Extends(t, u) /\ \A k \in Keys : Keeps(t, u, k)

\* What asking for k brings: an attempt of this session, or an answer.
Answers(t, u, k) ==
    \/ gen # None /\ u.fetch[k].gen = gen
    \/ u.fetch[k] = NoFetch /\ Told(t, u, k)

\* What releasing the requests ks with outcome o does.
Settled(t, u, ks, o) ==
    /\ u \in Trees /\ u.install = t.install
    /\ \A k \in Keys : u.fetch[k] = IF k \in ks THEN NoFetch ELSE t.fetch[k]
    /\ Extends(t, u) /\ \A k \in ks : Told(t, u, k)
    /\ ks # {} => /\ Len(u.events) = Len(t.events) + 1
                  /\ u.events[Len(t.events) + 1] = [keys |-> ks, outcome |-> o]

\* Settle does just that.
LEMMA SettleEffect ==
    ASSUME NEW t \in Trees, NEW ks \in SUBSET Keys, NEW o \in Outcomes
    PROVE  Settled(t, Settle(t, ks, o), ks, o)
<1> SUFFICES ASSUME NEW u, u = Settle(t, ks, o)
             PROVE  Settled(t, u, ks, o)
  OBVIOUS
<1>1. NoFetch \in Fetches
  BY DEF NoFetch, Fetches, None
<1>2. /\ t.fetch \in [Keys -> Fetches] /\ t.install \in [Databases -> Installs]
      /\ t.events \in Seq(Events)
  BY DEF Trees
<1> DEFINE f == [k \in Keys |-> IF k \in ks THEN NoFetch ELSE t.fetch[k]]
           e == IF ks = {} THEN t.events ELSE Append(t.events, [keys |-> ks, outcome |-> o])
<1>3. u = [fetch |-> f, install |-> t.install, events |-> e]
  BY DEF Settle, Trees
<1>4. f \in [Keys -> Fetches]
  BY <1>1, <1>2
<1>5. e \in Seq(Events)
  <2>1. [keys |-> ks, outcome |-> o] \in Events
    BY DEF Events
  <2> QED BY <1>2, <2>1
<1>6. /\ u \in Trees /\ u.install = t.install
      /\ \A k \in Keys : u.fetch[k] = IF k \in ks THEN NoFetch ELSE t.fetch[k]
  BY <1>2, <1>3, <1>4, <1>5 DEF Trees
<1>7. CASE ks = {}
  BY <1>2, <1>3, <1>6, <1>7 DEF Extends, Told, Settled
<1>8. CASE ks # {}
  <2>1. u.events = Append(t.events, [keys |-> ks, outcome |-> o])
    BY <1>3, <1>8
  <2>2. /\ Len(u.events) = Len(t.events) + 1
        /\ u.events[Len(t.events) + 1] = [keys |-> ks, outcome |-> o]
        /\ \A i \in 1..Len(t.events) : u.events[i] = t.events[i]
    BY <1>2, <2>1 DEF Events
  <2>3. Len(t.events) \in Nat
    BY <1>2
  <2> QED BY <1>6, <2>2, <2>3 DEF Extends, Told, Settled
<1> QED BY <1>7, <1>8

\* The coordinator may do one thing after another.
LEMMA AdvancesTrans ==
    ASSUME NEW t, NEW u, NEW w, Sound(t), Advances(t, u), Advances(u, w)
    PROVE  Advances(t, w)
<1>1. Len(t.events) \in Nat /\ Len(u.events) \in Nat /\ Len(w.events) \in Nat
  BY DEF Advances, Sound, Trees
<1>2. Extends(t, w)
  BY <1>1 DEF Advances, Extends
<1>3. ASSUME NEW k \in Keys, Told(t, u, k) \/ Told(u, w, k) PROVE Told(t, w, k)
  BY <1>1, <1>3 DEF Advances, Extends, Told
<1>4. ASSUME NEW k \in Keys PROVE Keeps(t, w, k)
  <2>1. Keeps(t, u, k) /\ Keeps(u, w, k)
    BY DEF Advances
  <2> QED BY <1>3, <2>1 DEF Keeps
<1> QED BY <1>2, <1>4 DEF Advances

\* An answer stays an answer.
LEMMA AnswersAfter ==
    ASSUME NEW t, NEW u, NEW w, NEW k \in Keys, Sound(t), Advances(t, u), Sound(w),
           Extends(u, w), Answers(u, w, k)
    PROVE  Answers(t, w, k)
<1>1. Len(t.events) \in Nat /\ Len(u.events) \in Nat /\ Len(w.events) \in Nat
  BY DEF Advances, Sound, Trees
<1> QED BY <1>1 DEF Answers, Told, Advances, Extends

\* Nothing happens.
LEMMA AdvancesRefl ==
    ASSUME NEW t, Sound(t)
    PROVE  Advances(t, t)
<1>1. Len(t.events) \in Nat
  BY DEF Sound, Trees
<1> QED BY <1>1 DEF Advances, Extends, Keeps

\* The empty entries.
LEMMA Empty ==
    /\ NoFetch \in Fetches /\ NoFetch.gen = None /\ NoFetch.deferred = NoDatabase
    /\ NoInstall \in Installs /\ NoInstall.waiters = {}
    /\ NoDatabase \notin Databases
  BY TreeAssumption DEF NoFetch, Fetches, None, NoInstall, Installs

\* The entries of a state.
LEMMA Entries ==
    ASSUME NEW t \in Trees
    PROVE  /\ \A k \in Keys : t.fetch[k] \in Fetches /\ t.fetch[k].gen \in Nat
                              /\ t.fetch[k].deferred \in Databases \union {NoDatabase}
           /\ \A d \in Databases : t.install[d] \in Installs /\ t.install[d].gen \in Nat
                                   /\ t.install[d].waiters \subseteq Keys
           /\ t.events \in Seq(Events) /\ Len(t.events) \in Nat
  BY DEF Trees, Fetches, Installs

\* A request is under way when it has a session, and then only may wait.
LEMMA PendingHasSession ==
    ASSUME NEW t, NEW k \in Keys, Sound(t)
    PROVE  /\ Pending(t, k) <=> t.fetch[k].gen # None
           /\ t.fetch[k].deferred # NoDatabase => Pending(t, k)
  BY Empty DEF Sound, AttemptsHaveSessions, Pending

\* Cancelling k releases it, tells so, and leaves the other waiters.
LEMMA CancelEffect ==
    ASSUME NEW t, Sound(t), NEW k \in Keys, NEW u, u = Cancel(t, k)
    PROVE  /\ Advances(t, u) /\ ~Pending(u, k)
           /\ Pending(t, k) =>
                /\ Len(u.events) = Len(t.events) + 1
                /\ u.events[Len(t.events) + 1] = [keys |-> {k}, outcome |-> "cancelled"]
<1>1. CASE ~Pending(t, k)
  BY <1>1, AdvancesRefl DEF Cancel
<1>2. CASE Pending(t, k)
  <2> DEFINE d == t.fetch[k].deferred
             left == t.install[d].waiters \ {k}
             x == IF left = {} THEN NoInstall ELSE [t.install[d] EXCEPT !.waiters = left]
             v == IF d # NoDatabase THEN [t EXCEPT !.install[d] = x] ELSE t
  <2>1. u = Settle(v, {k}, "cancelled")
    BY <1>2 DEF Cancel
  <2>2. t \in Trees /\ d \in Databases \union {NoDatabase}
    BY Entries DEF Sound
  <2>3. d # NoDatabase => d \in Databases /\ k \in t.install[d].waiters
    BY <2>2 DEF Sound, WaitersAgreeIn
  <2>4. /\ d # NoDatabase => x \in Installs /\ x.waiters = left
        /\ (d # NoDatabase /\ x # NoInstall) => left # {} /\ x.gen = t.install[d].gen
    BY <2>2, <2>3, Empty, Entries DEF Installs
  <2> HIDE DEF x
  <2>5. /\ v \in Trees /\ v.fetch = t.fetch /\ v.events = t.events
        /\ \A e \in Databases : v.install[e] = IF e = d THEN x ELSE t.install[e]
    BY <2>2, <2>3, <2>4, Empty DEF Trees
  <2> HIDE DEF v
  <2>6. /\ u \in Trees /\ u.install = v.install
        /\ \A j \in Keys : u.fetch[j] = IF j = k THEN NoFetch ELSE t.fetch[j]
        /\ Extends(t, u) /\ Told(t, u, k)
        /\ Len(u.events) = Len(t.events) + 1
        /\ u.events[Len(t.events) + 1] = [keys |-> {k}, outcome |-> "cancelled"]
    <3>1. {k} \in SUBSET Keys /\ "cancelled" \in Outcomes
      BY DEF Outcomes
    <3>2. Settled(v, u, {k}, "cancelled")
      BY <2>1, <2>5, <3>1, SettleEffect
    <3> QED BY <2>5, <3>2 DEF Settled, Extends, Told
  <2>7. WaitersAgreeIn(u)
    <3>1. ASSUME NEW e \in Databases
          PROVE  /\ u.install[e] # NoInstall => u.install[e].waiters # {}
                 /\ u.install[e].waiters = t.install[e].waiters \ {k}
                 /\ u.install[e] # NoInstall => u.install[e].gen = t.install[e].gen
      <4>1. CASE e = d
        BY <2>3, <2>4, <2>5, <2>6, <4>1, Empty
      <4>2. CASE e # d
        BY <2>2, <2>5, <2>6, <4>2 DEF Sound, WaitersAgreeIn
      <4> QED BY <4>1, <4>2
    <3>2. ASSUME NEW e \in Databases
          PROVE  /\ \A j \in Keys : j \in u.install[e].waiters <=> u.fetch[j].deferred = e
                 /\ \A j \in u.install[e].waiters : j.db = e /\ u.fetch[j].gen = u.install[e].gen
      <4>1. \A j \in Keys : j \in t.install[e].waiters <=> t.fetch[j].deferred = e
        BY DEF Sound, WaitersAgreeIn
      <4>2. \A j \in t.install[e].waiters : j.db = e /\ t.fetch[j].gen = t.install[e].gen
        BY DEF Sound, WaitersAgreeIn
      <4>3. t.install[e].waiters \subseteq Keys
        BY <2>2, Entries
      <4> QED BY <2>6, <3>1, <4>1, <4>2, <4>3, Empty
    <3> QED BY <3>1, <3>2 DEF WaitersAgreeIn
  <2>8. Sound(u)
    BY <2>6, <2>7 DEF Sound, AttemptsHaveSessions
  <2>9. \A j \in Keys : Keeps(t, u, j)
    BY <2>6, Empty DEF Keeps
  <2> QED BY <1>2, <2>6, <2>8, <2>9 DEF Advances, Pending
<1> QED BY <1>1, <1>2

\* Releasing nothing changes nothing.
LEMMA SettleNone ==
    ASSUME NEW t \in Trees, NEW o
    PROVE  Settle(t, {}, o) = t
<1>1. [k \in Keys |-> t.fetch[k]] = t.fetch
  BY DEF Trees
<1>2. Settle(t, {}, o) = [t EXCEPT !.fetch = [k \in Keys |-> t.fetch[k]], !.events = t.events]
  BY DEF Settle, Trees
<1> QED BY <1>1, <1>2 DEF Trees

\* The entry of an install is taken out.
LEMMA TakeInstall ==
    ASSUME NEW t \in Trees, NEW d \in Databases
    PROVE  LET v == [t EXCEPT !.install[d] = NoInstall]
           IN  /\ v \in Trees /\ v.fetch = t.fetch /\ v.events = t.events
               /\ \A e \in Databases : v.install[e] = IF e = d THEN NoInstall ELSE t.install[e]
  BY Empty DEF Trees

\* Ending an install together with all its waiters.
Release(t, d, o) ==
    Settle([t EXCEPT !.install[d] = NoInstall], t.install[d].waiters, o)

\* Nobody waits for an install that ended, and each of its waiters is told.
LEMMA ReleaseEffect ==
    ASSUME NEW t, Sound(t), NEW d \in Databases, NEW o \in Outcomes, NEW u,
           u = Release(t, d, o)
    PROVE  /\ Advances(t, u)
           /\ u.install[d] = NoInstall
           /\ \A k \in Keys : ~Pending(t, k) => ~Pending(u, k)
<1> DEFINE ks == t.install[d].waiters
           v == [t EXCEPT !.install[d] = NoInstall]
<1>1. t \in Trees /\ ks \in SUBSET Keys
  BY Entries DEF Sound
<1>2. /\ v \in Trees /\ v.fetch = t.fetch /\ v.events = t.events
      /\ \A e \in Databases : v.install[e] = IF e = d THEN NoInstall ELSE t.install[e]
  BY <1>1, TakeInstall
<1>3. u = Settle(v, ks, o)
  BY DEF Release
<1> HIDE DEF v, ks
<1>4. Settled(v, u, ks, o)
  BY <1>1, <1>2, <1>3, SettleEffect
<1>5. /\ u \in Trees
      /\ \A k \in Keys : u.fetch[k] = IF k \in ks THEN NoFetch ELSE t.fetch[k]
      /\ \A e \in Databases : u.install[e] = IF e = d THEN NoInstall ELSE t.install[e]
      /\ Extends(t, u) /\ \A k \in ks : Told(t, u, k)
  BY <1>2, <1>4 DEF Settled, Extends, Told
<1>6. ASSUME NEW e \in Databases
      PROVE  /\ u.install[e] # NoInstall => u.install[e].waiters # {}
             /\ \A k \in Keys : k \in u.install[e].waiters <=> u.fetch[k].deferred = e
             /\ \A k \in u.install[e].waiters : k.db = e /\ u.fetch[k].gen = u.install[e].gen
  <2>1. /\ t.install[e] # NoInstall => t.install[e].waiters # {}
        /\ \A k \in Keys : k \in t.install[e].waiters <=> t.fetch[k].deferred = e
        /\ \A k \in t.install[e].waiters : k.db = e /\ t.fetch[k].gen = t.install[e].gen
        /\ \A k \in Keys : k \in ks <=> t.fetch[k].deferred = d
    BY DEF Sound, WaitersAgreeIn, ks
  <2>2. CASE e = d
    BY <1>5, <2>1, <2>2, Empty
  <2>3. CASE e # d
    <3>1. u.install[e] = t.install[e] /\ t.install[e].waiters \subseteq Keys
      BY <1>1, <1>5, <2>3, Entries
    <3>2. \A k \in Keys : k \in t.install[e].waiters => k \notin ks
      BY <2>1, <2>3
    <3> QED BY <1>5, <2>1, <3>1, <3>2, Empty
  <2> QED BY <2>2, <2>3
<1>7. Sound(u)
  BY <1>5, <1>6 DEF Sound, WaitersAgreeIn, AttemptsHaveSessions
<1>8. \A k \in Keys : Keeps(t, u, k)
  BY <1>5, Empty DEF Keeps
<1> QED BY <1>5, <1>7, <1>8 DEF Advances, Pending

\* The waiters of an install are of its session: all of them are stale, or none.
LEMMA WaitersOfOneSession ==
    ASSUME NEW t, Sound(t), NEW d \in Databases
    PROVE  {w \in t.install[d].waiters : StaleSession(t, w)} =
              IF t.install[d].gen # gen THEN t.install[d].waiters ELSE {}
<1>1. ASSUME NEW w \in t.install[d].waiters
      PROVE  StaleSession(t, w) <=> t.install[d].gen # gen
  <2>1. w \in Keys /\ t.fetch[w].deferred = d /\ t.fetch[w].gen = t.install[d].gen
    BY Entries DEF Sound, WaitersAgreeIn
  <2>2. Pending(t, w)
    BY <2>1, PendingHasSession, Empty
  <2> QED BY <2>1, <2>2 DEF StaleSession
<1> QED BY <1>1

\* An install of an earlier session ends with its waiters.
LEMMA DropStaleInstallEffect ==
    ASSUME NEW t, Sound(t), NEW d \in Databases, NEW u, u = DropStaleInstall(t, d)
    PROVE  /\ Advances(t, u)
           /\ u.install[d] = NoInstall \/ u.install[d].gen = gen
           /\ \A k \in Keys : ~Pending(t, k) => ~Pending(u, k)
<1>1. CASE t.install[d] # NoInstall /\ t.install[d].gen # gen
  <2>1. {w \in t.install[d].waiters : StaleSession(t, w)} = t.install[d].waiters
    BY <1>1, WaitersOfOneSession
  <2>2. u = Release(t, d, "rejected") /\ "rejected" \in Outcomes
    BY <1>1, <2>1 DEF DropStaleInstall, Release, Outcomes
  <2> QED BY <2>2, ReleaseEffect
<1>2. CASE ~(t.install[d] # NoInstall /\ t.install[d].gen # gen)
  BY <1>2, AdvancesRefl DEF DropStaleInstall
<1> QED BY <1>1, <1>2

\* The entry of a new attempt.
LEMMA NewAttempt ==
    ASSUME NEW g \in Nat
    PROVE  /\ [NoFetch EXCEPT !.gen = g] \in Fetches
           /\ [NoFetch EXCEPT !.gen = g].gen = g
           /\ [NoFetch EXCEPT !.gen = g].deferred = NoDatabase
  BY Empty DEF Fetches

\* The entry of an attempt that waits for d.
LEMMA NewWaiter ==
    ASSUME NEW g \in Nat, NEW d \in Databases
    PROVE  /\ [NoFetch EXCEPT !.gen = g, !.deferred = d] \in Fetches
           /\ [NoFetch EXCEPT !.gen = g, !.deferred = d].gen = g
           /\ [NoFetch EXCEPT !.gen = g, !.deferred = d].deferred = d
  BY Empty DEF Fetches

\* The entry of a new install.
LEMMA NewInstall ==
    ASSUME NEW g \in Nat
    PROVE  /\ [NoInstall EXCEPT !.gen = g] \in Installs
           /\ [NoInstall EXCEPT !.gen = g].gen = g
           /\ [NoInstall EXCEPT !.gen = g].waiters = {}
  BY Empty DEF Installs

\* An install with one more waiter.
LEMMA JoinInstall ==
    ASSUME NEW x \in Installs, NEW k \in Keys
    PROVE  /\ [x EXCEPT !.waiters = @ \union {k}] \in Installs
           /\ [x EXCEPT !.waiters = @ \union {k}].gen = x.gen
           /\ [x EXCEPT !.waiters = @ \union {k}].waiters = x.waiters \union {k}
  BY DEF Installs

\* Writes of single entries.
WithFetch(t, k, f) == [t EXCEPT !.fetch[k] = f]
WithInstall(t, d, x) == [t EXCEPT !.install[d] = x]

\* Writing the entry of a request touches nothing else.
LEMMA PutFetch ==
    ASSUME NEW t \in Trees, NEW k \in Keys, NEW f \in Fetches, NEW u,
           u = WithFetch(t, k, f)
    PROVE  /\ u \in Trees /\ u.install = t.install /\ u.events = t.events
           /\ \A j \in Keys : u.fetch[j] = IF j = k THEN f ELSE t.fetch[j]
  BY DEF Trees, WithFetch

\* Writing the entry of an install touches nothing else.
LEMMA PutInstall ==
    ASSUME NEW t \in Trees, NEW d \in Databases, NEW x \in Installs, NEW u,
           u = WithInstall(t, d, x)
    PROVE  /\ u \in Trees /\ u.fetch = t.fetch /\ u.events = t.events
           /\ \A e \in Databases : u.install[e] = IF e = d THEN x ELSE t.install[e]
  BY DEF Trees, WithInstall

WithWaiter(t, d, k, f) == [t EXCEPT !.fetch[k] = f, !.install[d].waiters = @ \union {k}]

\* A new waiter is two writes.
LEMMA PutWaiter ==
    ASSUME NEW t \in Trees, NEW k \in Keys, NEW f, NEW d \in Databases
    PROVE  WithWaiter(t, d, k, f) =
             WithFetch(WithInstall(t, d, [t.install[d] EXCEPT !.waiters = @ \union {k}]), k, f)
  BY DEF Trees, WithFetch, WithInstall, WithWaiter

\* An attempt of this session that waits for no install.
LEMMA BeginFetch ==
    ASSUME NEW t, Sound(t), NEW k \in Keys, ~Pending(t, k), gen \in Nat \ {None},
           NEW f \in Fetches, f.gen = gen, f.deferred = NoDatabase,
           NEW u, u = WithFetch(t, k, f)
    PROVE  Advances(t, u) /\ Answers(t, u, k)
<1>1. gen # None
  OBVIOUS
<1>2. t \in Trees
  BY DEF Sound
<1>3. /\ u \in Trees /\ u.install = t.install /\ u.events = t.events
      /\ \A j \in Keys : u.fetch[j] = IF j = k THEN f ELSE t.fetch[j]
  BY <1>2, PutFetch
<1>4. ASSUME NEW d \in Databases
      PROVE  /\ u.install[d] # NoInstall => u.install[d].waiters # {}
             /\ \A j \in Keys : j \in u.install[d].waiters <=> u.fetch[j].deferred = d
             /\ \A j \in u.install[d].waiters : j.db = d /\ u.fetch[j].gen = u.install[d].gen
  <2>1. /\ t.install[d] # NoInstall => t.install[d].waiters # {}
        /\ \A j \in Keys : j \in t.install[d].waiters <=> t.fetch[j].deferred = d
        /\ \A j \in t.install[d].waiters : j.db = d /\ t.fetch[j].gen = t.install[d].gen
    BY DEF Sound, WaitersAgreeIn
  <2>2. k \notin t.install[d].waiters /\ t.install[d].waiters \subseteq Keys
    BY <1>2, <2>1, Empty, Entries DEF Pending
  <2> QED BY <1>1, <1>3, <2>1, <2>2, Empty
<1>5. Sound(u)
  BY <1>1, <1>3, <1>4 DEF Sound, WaitersAgreeIn, AttemptsHaveSessions
<1>6. Extends(t, u)
  <2>1. Len(t.events) \in Nat
    BY <1>2, Entries
  <2> QED BY <1>3, <2>1 DEF Extends
<1>7. \A j \in Keys : Keeps(t, u, j)
  BY <1>1, <1>3 DEF Keeps
<1>8. Answers(t, u, k)
  BY <1>1, <1>3 DEF Answers
<1> QED BY <1>5, <1>6, <1>7, <1>8 DEF Advances

\* A request that waits for no install is answered.
LEMMA AnswerAtOnce ==
    ASSUME NEW t, Sound(t), NEW k \in Keys, t.fetch[k].deferred = NoDatabase,
           NEW o \in Outcomes, NEW u, u = Settle(t, {k}, o)
    PROVE  Advances(t, u) /\ Answers(t, u, k)
<1>1. t \in Trees /\ {k} \in SUBSET Keys
  BY DEF Sound
<1>2. Settled(t, u, {k}, o)
  BY <1>1, SettleEffect
<1>3. /\ u \in Trees /\ u.install = t.install /\ Extends(t, u) /\ Told(t, u, k)
      /\ \A j \in Keys : u.fetch[j] = IF j = k THEN NoFetch ELSE t.fetch[j]
  BY <1>2 DEF Settled
<1>4. \A d \in Databases : t.install[d].waiters \subseteq Keys
  BY <1>1, Entries
<1>5. ASSUME NEW d \in Databases
      PROVE  /\ u.install[d] # NoInstall => u.install[d].waiters # {}
             /\ \A j \in Keys : j \in u.install[d].waiters <=> u.fetch[j].deferred = d
             /\ \A j \in u.install[d].waiters : j.db = d /\ u.fetch[j].gen = u.install[d].gen
  <2>1. /\ t.install[d] # NoInstall => t.install[d].waiters # {}
        /\ \A j \in Keys : j \in t.install[d].waiters <=> t.fetch[j].deferred = d
        /\ \A j \in t.install[d].waiters : j.db = d /\ t.fetch[j].gen = t.install[d].gen
    BY DEF Sound, WaitersAgreeIn
  <2>2. k \notin t.install[d].waiters
    BY <2>1, Empty
  <2> QED BY <1>3, <1>4, <2>1, <2>2, Empty
<1>6. Sound(u)
  <2>1. WaitersAgreeIn(u)
    BY <1>5 DEF WaitersAgreeIn
  <2>2. AttemptsHaveSessions(u)
    BY <1>3 DEF Sound, AttemptsHaveSessions
  <2> QED BY <1>3, <2>1, <2>2 DEF Sound
<1> QED BY <1>3, <1>6, Empty DEF Advances, Keeps, Answers

\* A request joins the install of its database, or begins it.
LEMMA DeferEffect ==
    ASSUME NEW t, Sound(t), NEW k \in Keys, ~Pending(t, k), k.db \in Databases,
           gen \in Nat \ {None}, NEW ok, NEW u, u = DeferBehindInstall(t, k, ok)
    PROVE  Advances(t, u) /\ Answers(t, u, k)
<1> DEFINE s == DropStaleInstall(t, k.db)
           i == s.install[k.db]
           v == IF i = NoInstall THEN [s EXCEPT !.install[k.db].gen = gen] ELSE s
<1>1. /\ Advances(t, s) /\ Sound(s) /\ s \in Trees /\ ~Pending(s, k)
      /\ i = NoInstall \/ i.gen = gen
  BY DropStaleInstallEffect DEF Advances, Sound
<1>2. ASSUME Advances(s, u), Answers(s, u, k) PROVE Advances(t, u) /\ Answers(t, u, k)
  BY <1>1, <1>2, AdvancesTrans, AnswersAfter DEF Advances
<1>3. CASE i = NoInstall /\ ~ok
  <2>1. u = Settle(s, {k}, "failed") /\ "failed" \in Outcomes
    BY <1>3 DEF DeferBehindInstall, Outcomes
  <2> HIDE DEF s
  <2> QED BY <1>1, <1>2, <2>1, AnswerAtOnce, Empty DEF Pending
<1>4. CASE ~(i = NoInstall /\ ~ok)
  <2>1. u = WithWaiter(v, k.db, k, [NoFetch EXCEPT !.gen = gen, !.deferred = k.db])
    BY <1>4 DEF DeferBehindInstall, WithWaiter
  <2> DEFINE f == [NoFetch EXCEPT !.gen = gen, !.deferred = k.db]
             x == IF i = NoInstall THEN [NoInstall EXCEPT !.gen = gen] ELSE i
             y == [x EXCEPT !.waiters = @ \union {k}]
  <2> HIDE DEF s
  <2>2. f \in Fetches /\ f.gen = gen /\ f.deferred = k.db /\ gen # None
    BY NewWaiter
  <2>3. i \in Installs
    BY <1>1, Entries
  <2>4. x \in Installs /\ x.gen = gen /\ x.waiters = i.waiters
    BY <1>1, <2>3, NewInstall, Empty
  <2>5. v = WithInstall(s, k.db, x)
    BY <1>1 DEF Trees, WithInstall
  <2> HIDE DEF i, x, v
  <2>a. /\ v \in Trees /\ v.fetch = s.fetch /\ v.events = s.events
        /\ \A e \in Databases : v.install[e] = IF e = k.db THEN x ELSE s.install[e]
    BY <1>1, <2>4, <2>5, PutInstall
  <2>6. y \in Installs /\ y.gen = gen /\ y.waiters = i.waiters \union {k}
    BY <2>4, JoinInstall
  <2>7. u = WithFetch(WithInstall(v, k.db, [v.install[k.db] EXCEPT !.waiters = @ \union {k}]), k, f)
    BY <2>1, <2>a, PutWaiter
  <2>b. y = [v.install[k.db] EXCEPT !.waiters = @ \union {k}]
    BY <2>a
  <2>c. PICK w : w = WithInstall(v, k.db, y) /\ u = WithFetch(w, k, f)
    BY <2>7, <2>b
  <2> HIDE DEF f, y
  <2>8. /\ u \in Trees /\ u.events = s.events
        /\ \A j \in Keys : u.fetch[j] = IF j = k THEN f ELSE s.fetch[j]
        /\ \A d \in Databases : u.install[d] = IF d = k.db THEN y ELSE s.install[d]
    <3>1. /\ w \in Trees /\ w.fetch = v.fetch /\ w.events = v.events
          /\ \A e \in Databases : w.install[e] = IF e = k.db THEN y ELSE v.install[e]
      BY <2>a, <2>6, <2>c, PutInstall
    <3>2. /\ u \in Trees /\ u.install = w.install /\ u.events = w.events
          /\ \A j \in Keys : u.fetch[j] = IF j = k THEN f ELSE w.fetch[j]
      BY <2>2, <2>c, <3>1, PutFetch
    <3> QED BY <2>a, <3>1, <3>2
  <2>9. ASSUME NEW d \in Databases
        PROVE  /\ u.install[d] # NoInstall => u.install[d].waiters # {}
               /\ \A j \in Keys : j \in u.install[d].waiters <=> u.fetch[j].deferred = d
               /\ \A j \in u.install[d].waiters : j.db = d /\ u.fetch[j].gen = u.install[d].gen
    <3>1. /\ s.install[d] # NoInstall => s.install[d].waiters # {}
          /\ \A j \in Keys : j \in s.install[d].waiters <=> s.fetch[j].deferred = d
          /\ \A j \in s.install[d].waiters : j.db = d /\ s.fetch[j].gen = s.install[d].gen
      BY <1>1 DEF Sound, WaitersAgreeIn
    <3>2. k \notin s.install[d].waiters /\ s.install[d].waiters \subseteq Keys
      BY <1>1, <3>1, Empty, Entries DEF Pending
    <3>3. CASE d = k.db
      BY <1>1, <2>2, <2>6, <2>8, <3>1, <3>2, <3>3, Empty DEF i
    <3>4. CASE d # k.db
      BY <2>2, <2>8, <3>1, <3>2, <3>4
    <3> QED BY <3>3, <3>4
  <2>10. Sound(u)
    BY <1>1, <2>2, <2>8, <2>9 DEF Sound, WaitersAgreeIn, AttemptsHaveSessions
  <2>11. Len(s.events) \in Nat
    BY <1>1, Entries
  <2>12. Extends(s, u)
    BY <2>8, <2>11 DEF Extends
  <2>13. \A j \in Keys : Keeps(s, u, j)
    BY <2>2, <2>8 DEF Keeps
  <2>14. Advances(s, u) /\ Answers(s, u, k)
    BY <2>2, <2>8, <2>10, <2>12, <2>13 DEF Advances, Answers
  <2> QED BY <1>2, <2>14
<1> QED BY <1>3, <1>4

\* Asking for k brings an attempt or an answer; a pending request is shared.
LEMMA AskEffect ==
    ASSUME NEW t, Sound(t), NEW c, NEW k \in Keys, NEW ok, gen \in Nat, NEW u,
           u = Ask(t, c, k, ok)
    PROVE  /\ Advances(t, u)
           /\ ~Pending(t, k) => Answers(t, u, k)
           /\ Pending(t, k) => u = t
<1>1. CASE Pending(t, k)
  BY <1>1, AdvancesRefl DEF Ask
<1>2. CASE ~Pending(t, k) /\ k \in c
  <2>1. u = Settle(t, {k}, "cached") /\ "cached" \in Outcomes
    BY <1>2 DEF Ask, Outcomes
  <2> QED BY <1>2, <2>1, AnswerAtOnce, Empty DEF Pending
<1>3. CASE ~Pending(t, k) /\ k \notin c
  <2>1. u = Dispatch(t, k, ok)
    BY <1>3 DEF Ask
  <2>2. CASE gen = None
    <3>1. u = Settle(t, {k}, "failed") /\ "failed" \in Outcomes
      BY <2>1, <2>2 DEF Dispatch, Outcomes
    <3> QED BY <1>3, <3>1, AnswerAtOnce, Empty DEF Pending
  <2>3. CASE gen # None /\ k.kind # "list" /\ k.db \notin slot
    <3>1. u = DeferBehindInstall(t, k, ok)
      BY <2>1, <2>3 DEF Dispatch
    <3>2. k.db \in Databases
      BY <2>3 DEF Keys, DatabaseList
    <3> QED BY <1>3, <2>3, <3>1, <3>2, DeferEffect
  <2>4. CASE gen # None /\ ~(k.kind # "list" /\ k.db \notin slot)
    <3> DEFINE f == [NoFetch EXCEPT !.gen = gen]
    <3>1. u = WithFetch(t, k, f)
      BY <2>1, <2>4 DEF Dispatch, WithFetch
    <3>2. f \in Fetches /\ f.gen = gen /\ f.deferred = NoDatabase
      BY NewAttempt
    <3> HIDE DEF f
    <3> QED BY <1>3, <2>4, <3>1, <3>2, BeginFetch
  <2> QED BY <2>2, <2>3, <2>4
<1> QED BY <1>1, <1>2, <1>3

\* What asking again for k does: a pending attempt is cancelled, first of all, and
\* replaced, or how the new one ended is told after that.
Replaces(t, u, k) ==
    /\ Advances(t, u)
    /\ \/ gen # None /\ u.fetch[k].gen = gen
       \/ /\ u.fetch[k] = NoFetch /\ Told(t, u, k)
          /\ Pending(t, k) =>
               \E i \in (Len(t.events) + 2)..Len(u.events) : k \in u.events[i].keys
    /\ Pending(t, k) =>
         /\ Len(u.events) > Len(t.events)
         /\ u.events[Len(t.events) + 1] = [keys |-> {k}, outcome |-> "cancelled"]

\* object_tree_retry does just that.
LEMMA AskAgainEffect ==
    ASSUME NEW t, Sound(t), NEW c, NEW k \in Keys, NEW ok, gen \in Nat, NEW u,
           u = AskAgain(t, c, k, ok)
    PROVE  Replaces(t, u, k)
<1> DEFINE s == Cancel(t, k)
<1>1. /\ Advances(t, s) /\ Sound(s) /\ ~Pending(s, k)
      /\ Pending(t, k) =>
           /\ Len(s.events) = Len(t.events) + 1
           /\ s.events[Len(t.events) + 1] = [keys |-> {k}, outcome |-> "cancelled"]
  BY CancelEffect DEF Advances
<1>2. u = Ask(s, c, k, ok)
  BY DEF AskAgain
<1> HIDE DEF s
<1>3. Advances(s, u) /\ Answers(s, u, k)
  BY <1>1, <1>2, AskEffect
<1>4. Advances(t, u) /\ Answers(t, u, k)
  BY <1>1, <1>3, AdvancesTrans, AnswersAfter DEF Advances
<1>5. Len(t.events) \in Nat /\ Len(s.events) \in Nat /\ Len(u.events) \in Nat
  BY <1>1, <1>4, Entries DEF Advances, Sound
<1>6. Pending(t, k) =>
        /\ Len(u.events) > Len(t.events)
        /\ u.events[Len(t.events) + 1] = [keys |-> {k}, outcome |-> "cancelled"]
  BY <1>1, <1>3, <1>5 DEF Advances, Extends
<1>7. CASE gen # None /\ u.fetch[k].gen = gen
  BY <1>4, <1>6, <1>7 DEF Replaces
<1>8. CASE u.fetch[k] = NoFetch /\ Told(s, u, k)
  <2>1. Told(t, u, k)
    BY <1>1, <1>5, <1>8 DEF Told, Advances, Extends
  <2>2. Pending(t, k) =>
          \E i \in (Len(t.events) + 2)..Len(u.events) : k \in u.events[i].keys
    BY <1>1, <1>5, <1>8 DEF Told
  <2> QED BY <1>4, <1>6, <1>8, <2>1, <2>2 DEF Replaces
<1> QED BY <1>3, <1>7, <1>8 DEF Answers

\* The manager changes what an entry says of its result, never its session or
\* what it waits for.
Resembles(t, u) ==
    /\ u \in Trees /\ u.events = t.events
    /\ \A k \in Keys : /\ u.fetch[k].gen = t.fetch[k].gen
                       /\ u.fetch[k].deferred = t.fetch[k].deferred
                       /\ t.fetch[k] = NoFetch => u.fetch[k] = NoFetch
    /\ \A d \in Databases : /\ u.install[d].gen = t.install[d].gen
                            /\ u.install[d].waiters = t.install[d].waiters
                            /\ t.install[d] = NoInstall => u.install[d] = NoInstall

\* A result that will be refused is still a result of its session.
LEMMA StaleEntry ==
    ASSUME NEW f \in Fetches
    PROVE  /\ [f EXCEPT !.stale = TRUE] \in Fetches
           /\ [f EXCEPT !.stale = TRUE].gen = f.gen
           /\ [f EXCEPT !.stale = TRUE].deferred = f.deferred
  BY DEF Fetches

\* So is an install.
LEMMA StaleInstall ==
    ASSUME NEW x \in Installs
    PROVE  /\ [x EXCEPT !.replaced = TRUE] \in Installs
           /\ [x EXCEPT !.replaced = TRUE].gen = x.gen
           /\ [x EXCEPT !.replaced = TRUE].waiters = x.waiters
           /\ [x EXCEPT !.invalid = TRUE] \in Installs
           /\ [x EXCEPT !.invalid = TRUE].gen = x.gen
           /\ [x EXCEPT !.invalid = TRUE].waiters = x.waiters
  BY DEF Installs

\* A state with other tables.
WithTables(t, f, x) == [t EXCEPT !.fetch = f, !.install = x]

\* Writing both tables leaves the events.
LEMMA PutTables ==
    ASSUME NEW t \in Trees, NEW f \in [Keys -> Fetches], NEW x \in [Databases -> Installs],
           NEW u, u = WithTables(t, f, x)
    PROVE  u \in Trees /\ u.fetch = f /\ u.install = x /\ u.events = t.events
  BY DEF Trees, WithTables

\* A change of a slot is such a change.
LEMMA SlotChangedEffect ==
    ASSUME NEW t \in Trees, NEW d \in Databases, NEW u, u = SlotChanged(t, d)
    PROVE  Resembles(t, u)
<1> DEFINE f == [k \in Keys |-> IF k.db = d /\ Pending(t, k)
                                  THEN [t.fetch[k] EXCEPT !.stale = TRUE] ELSE t.fetch[k]]
           y == IF t.install[d] = NoInstall THEN t.install[d]
                ELSE [t.install[d] EXCEPT !.replaced = TRUE]
           x == [t.install EXCEPT ![d] = y]
<1>1. u = WithTables(t, f, x)
  BY DEF SlotChanged, Trees, WithTables
<1>2. /\ f \in [Keys -> Fetches]
      /\ \A k \in Keys : /\ f[k].gen = t.fetch[k].gen
                         /\ f[k].deferred = t.fetch[k].deferred
                         /\ t.fetch[k] = NoFetch => f[k] = NoFetch
  <2>1. ASSUME NEW k \in Keys
        PROVE  /\ f[k] \in Fetches
               /\ f[k].gen = t.fetch[k].gen
               /\ f[k].deferred = t.fetch[k].deferred
               /\ t.fetch[k] = NoFetch => f[k] = NoFetch
    BY Entries, StaleEntry DEF Pending
  <2> QED BY <2>1
<1>3. /\ y \in Installs /\ y.gen = t.install[d].gen /\ y.waiters = t.install[d].waiters
      /\ t.install[d] = NoInstall => y = NoInstall
  BY Entries, StaleInstall
<1> HIDE DEF f, y
<1>4. /\ x \in [Databases -> Installs]
      /\ \A e \in Databases : /\ x[e].gen = t.install[e].gen
                              /\ x[e].waiters = t.install[e].waiters
                              /\ t.install[e] = NoInstall => x[e] = NoInstall
  BY <1>3 DEF Trees
<1> HIDE DEF x
<1>5. u \in Trees /\ u.fetch = f /\ u.install = x /\ u.events = t.events
  BY <1>1, <1>2, <1>4, PutTables
<1> QED BY <1>2, <1>4, <1>5 DEF Resembles

\* So is an invalidation of the profile.
LEMMA InvalidatedEffect ==
    ASSUME NEW t \in Trees, NEW u, u = Invalidated(t)
    PROVE  Resembles(t, u)
<1> DEFINE f == [k \in Keys |-> IF Pending(t, k)
                                  THEN [t.fetch[k] EXCEPT !.stale = TRUE] ELSE t.fetch[k]]
           x == [d \in Databases |-> IF t.install[d] = NoInstall THEN t.install[d]
                                     ELSE [t.install[d] EXCEPT !.invalid = TRUE]]
<1>1. u = WithTables(t, f, x)
  BY DEF Invalidated, Trees, WithTables
<1>2. /\ f \in [Keys -> Fetches]
      /\ \A k \in Keys : /\ f[k].gen = t.fetch[k].gen
                         /\ f[k].deferred = t.fetch[k].deferred
                         /\ t.fetch[k] = NoFetch => f[k] = NoFetch
  <2>1. ASSUME NEW k \in Keys
        PROVE  /\ f[k] \in Fetches
               /\ f[k].gen = t.fetch[k].gen
               /\ f[k].deferred = t.fetch[k].deferred
               /\ t.fetch[k] = NoFetch => f[k] = NoFetch
    BY Entries, StaleEntry DEF Pending
  <2> QED BY <2>1
<1>3. /\ x \in [Databases -> Installs]
      /\ \A e \in Databases : /\ x[e].gen = t.install[e].gen
                              /\ x[e].waiters = t.install[e].waiters
                              /\ t.install[e] = NoInstall => x[e] = NoInstall
  <2>1. ASSUME NEW e \in Databases
        PROVE  /\ x[e] \in Installs
               /\ x[e].gen = t.install[e].gen
               /\ x[e].waiters = t.install[e].waiters
               /\ t.install[e] = NoInstall => x[e] = NoInstall
    BY Entries, StaleInstall
  <2> QED BY <2>1
<1> HIDE DEF f, x
<1>4. u \in Trees /\ u.fetch = f /\ u.install = x /\ u.events = t.events
  BY <1>1, <1>2, <1>3, PutTables
<1> QED BY <1>2, <1>3, <1>4 DEF Resembles

\* Such a change breaks nothing.
LEMMA ResemblesAdvances ==
    ASSUME NEW t, Sound(t), NEW u, Resembles(t, u)
    PROVE  Advances(t, u)
<1>1. \A d \in Databases : t.install[d].waiters \subseteq Keys
  BY Entries DEF Sound
<1>2. WaitersAgreeIn(u)
  <2>1. ASSUME NEW d \in Databases
        PROVE  /\ u.install[d] # NoInstall => u.install[d].waiters # {}
               /\ \A k \in Keys : k \in u.install[d].waiters <=> u.fetch[k].deferred = d
               /\ \A k \in u.install[d].waiters : k.db = d /\ u.fetch[k].gen = u.install[d].gen
    <3>1. /\ t.install[d] # NoInstall => t.install[d].waiters # {}
          /\ \A k \in Keys : k \in t.install[d].waiters <=> t.fetch[k].deferred = d
          /\ \A k \in t.install[d].waiters : k.db = d /\ t.fetch[k].gen = t.install[d].gen
      BY DEF Sound, WaitersAgreeIn
    <3> QED BY <1>1, <3>1 DEF Resembles
  <2> QED BY <2>1 DEF WaitersAgreeIn
<1>3. AttemptsHaveSessions(u)
  BY DEF Resembles, Sound, AttemptsHaveSessions
<1>4. Extends(t, u)
  <2>1. Len(t.events) \in Nat
    BY Entries DEF Sound
  <2> QED BY <2>1 DEF Resembles, Extends
<1> QED BY <1>2, <1>3, <1>4 DEF Advances, Sound, Resembles, Keeps

\* The slot exists: what waited for it is answered or begun in this session. v is
\* t without the install.
LEMMA ResumeEffect ==
    ASSUME NEW t, Sound(t), NEW d \in Databases, t.install[d].gen = gen, gen \in Nat \ {None},
           NEW v, Resembles(WithInstall(t, d, NoInstall), v),
           NEW u, u = Resume(v, t.install[d].waiters)
    PROVE  Advances(t, u)
<1> DEFINE ks == t.install[d].waiters
           s == Settle(v, ks \intersect cached, "cached")
           f == [NoFetch EXCEPT !.gen = gen]
           g == [k \in Keys |-> IF k \in ks \ cached THEN f ELSE s.fetch[k]]
<1>1. t \in Trees /\ ks \in SUBSET Keys /\ "cached" \in Outcomes /\ gen # None
  BY Entries DEF Sound, Outcomes
<1>2. /\ v \in Trees /\ v.events = t.events
      /\ \A k \in Keys : /\ v.fetch[k].gen = t.fetch[k].gen
                         /\ v.fetch[k].deferred = t.fetch[k].deferred
                         /\ t.fetch[k] = NoFetch => v.fetch[k] = NoFetch
      /\ v.install[d] = NoInstall
      /\ \A e \in Databases \ {d} : /\ v.install[e].gen = t.install[e].gen
                                    /\ v.install[e].waiters = t.install[e].waiters
                                    /\ t.install[e] = NoInstall => v.install[e] = NoInstall
  <2>1. PICK w : w = WithInstall(t, d, NoInstall)
    OBVIOUS
  <2>2. /\ w.fetch = t.fetch /\ w.events = t.events
        /\ \A e \in Databases : w.install[e] = IF e = d THEN NoInstall ELSE t.install[e]
    BY <1>1, <2>1, PutInstall, Empty
  <2>3. Resembles(w, v)
    BY <2>1
  <2> QED BY <2>2, <2>3 DEF Resembles
<1>3. f \in Fetches /\ f.gen = gen /\ f.deferred = NoDatabase
  BY NewAttempt
<1>4. u = [s EXCEPT !.fetch = g]
  BY DEF Resume
<1> HIDE DEF ks, f
<1>5. Settled(v, s, ks \intersect cached, "cached")
  BY <1>1, <1>2, SettleEffect
<1> HIDE DEF s
<1>6. g \in [Keys -> Fetches]
  <2>1. s \in Trees
    BY <1>5 DEF Settled
  <2> QED BY <1>3, <2>1, Entries
<1>7. u \in Trees /\ u.install = s.install /\ u.events = s.events /\ u.fetch = g
  <2>1. s \in Trees
    BY <1>5 DEF Settled
  <2> HIDE DEF g
  <2> QED BY <1>4, <1>6, <2>1 DEF Trees
<1>8. /\ u \in Trees /\ u.install = v.install
      /\ \A k \in Keys : u.fetch[k] = IF k \in ks THEN IF k \in cached THEN NoFetch ELSE f
                                      ELSE v.fetch[k]
      /\ Extends(t, u) /\ \A k \in ks \intersect cached : Told(t, u, k)
  <2>1. /\ s.install = v.install
        /\ \A k \in Keys : s.fetch[k] = IF k \in ks \intersect cached THEN NoFetch
                                        ELSE v.fetch[k]
        /\ Extends(v, s) /\ \A k \in ks \intersect cached : Told(v, s, k)
    BY <1>5 DEF Settled
  <2>2. Extends(t, u) /\ \A k \in ks \intersect cached : Told(t, u, k)
    BY <1>2, <1>7, <2>1 DEF Extends, Told
  <2> QED BY <1>7, <2>1, <2>2
<1>9. ASSUME NEW e \in Databases
      PROVE  /\ u.install[e] # NoInstall => u.install[e].waiters # {}
             /\ \A k \in Keys : k \in u.install[e].waiters <=> u.fetch[k].deferred = e
             /\ \A k \in u.install[e].waiters : k.db = e /\ u.fetch[k].gen = u.install[e].gen
  <2>1. /\ t.install[e] # NoInstall => t.install[e].waiters # {}
        /\ \A k \in Keys : k \in t.install[e].waiters <=> t.fetch[k].deferred = e
        /\ \A k \in t.install[e].waiters : k.db = e /\ t.fetch[k].gen = t.install[e].gen
        /\ \A k \in Keys : k \in ks <=> t.fetch[k].deferred = d
    BY DEF Sound, WaitersAgreeIn, ks
  <2>2. CASE e = d
    BY <1>2, <1>3, <1>8, <2>1, <2>2, Empty
  <2>3. CASE e # d
    <3>1. /\ u.install[e].gen = t.install[e].gen /\ u.install[e].waiters = t.install[e].waiters
          /\ t.install[e] = NoInstall => u.install[e] = NoInstall
          /\ t.install[e].waiters \subseteq Keys
      BY <1>1, <1>2, <1>8, <2>3, Entries
    <3>2. \A k \in Keys : k \in t.install[e].waiters => k \notin ks
      BY <2>1, <2>3
    <3> QED BY <1>2, <1>3, <1>8, <2>1, <3>1, <3>2, Empty
  <2> QED BY <2>2, <2>3
<1>10. AttemptsHaveSessions(u)
  BY <1>1, <1>2, <1>3, <1>8 DEF Sound, AttemptsHaveSessions
<1>11. Sound(u)
  BY <1>8, <1>9, <1>10 DEF Sound, WaitersAgreeIn
<1>12. \A k \in Keys : Keeps(t, u, k)
  BY <1>2, <1>3, <1>8, Empty DEF Keeps
<1> QED BY <1>8, <1>11, <1>12 DEF Advances

\* A driver answers a request that waits for no install.
LEMMA FetchArrivesEffect ==
    ASSUME NEW k \in Keys, NEW ok \in BOOLEAN, Sound(tree), FetchArrives(k, ok)
    PROVE  Advances(tree, tree')
<1>1. PICK o \in Outcomes : tree' = Settle(tree, {k}, o)
  BY DEF FetchArrives, Outcomes
<1>2. tree.fetch[k].deferred = NoDatabase
  BY DEF FetchArrives
<1>3. ASSUME NEW u, u = Settle(tree, {k}, o) PROVE Advances(tree, u)
  BY <1>2, <1>3, AnswerAtOnce
<1> QED BY <1>1, <1>3

\* An install ends: its waiters are resumed or told, all of them.
LEMMA InstallArrivesEffect ==
    ASSUME NEW d \in Databases, NEW ok \in BOOLEAN, gen \in Nat, Sound(tree),
           InstallArrives(d, ok)
    PROVE  Advances(tree, tree')
<1> DEFINE i == tree.install[d]
           old == {w \in i.waiters : StaleSession(tree, w)}
           v == WithInstall(tree, d, NoInstall)
<1>1. /\ tree \in Trees /\ v = [tree EXCEPT !.install[d] = NoInstall] /\ v \in Trees
      /\ "rejected" \in Outcomes /\ "failed" \in Outcomes
  BY PutInstall, Empty DEF Sound, WithInstall, Outcomes
<1>2. i # NoInstall
  BY DEF InstallArrives
<1>3. ASSUME NEW o \in Outcomes, tree' = Release(tree, d, o)
      PROVE  Advances(tree, tree')
  <2>1. ASSUME NEW u, u = Release(tree, d, o) PROVE Advances(tree, u)
    BY <2>1, ReleaseEffect
  <2> QED BY <1>3, <2>1
<1>4. CASE i.gen # gen
  <2>1. old = i.waiters
    BY <1>4, WaitersOfOneSession
  <2>2. i.waiters \ old = {}
    BY <2>1
  <2>3. tree' = Settle([tree EXCEPT !.install[d] = NoInstall], old, "rejected")
    BY <2>2 DEF InstallArrives
  <2>4. tree' = Release(tree, d, "rejected")
    BY <2>1, <2>3 DEF Release
  <2> QED BY <1>1, <1>3, <2>4
<1>5. CASE i.gen = gen
  <2>1. old = {}
    BY <1>5, WaitersOfOneSession
  <2>2. i.waiters \ old = i.waiters
    BY <2>1
  <2>3. Settle([tree EXCEPT !.install[d] = NoInstall], old, "rejected") = v
    BY <1>1, <2>1, SettleNone
  <2>4. i.waiters # {}
    BY <1>2 DEF Sound, WaitersAgreeIn
  <2>5. gen \in Nat \ {None}
    <3>1. PICK w \in i.waiters : TRUE
      BY <2>4
    <3>2. w \in Keys /\ tree.fetch[w].deferred = d /\ tree.fetch[w].gen = gen
      BY <1>1, <1>5, Entries DEF Sound, WaitersAgreeIn
    <3> QED BY <3>2, PendingHasSession, Empty
  <2>6. \/ tree' = Settle(v, i.waiters, "failed")
        \/ tree' = Settle(v, i.waiters, "rejected")
        \/ tree' = Resume(SlotChanged(v, d), i.waiters)
        \/ tree' = Resume(v, i.waiters)
    <3> HIDE DEF v, old
    <3> QED BY <2>2, <2>3, <2>4 DEF InstallArrives, old
  <2>7. CASE tree' = Settle(v, i.waiters, "failed") \/ tree' = Settle(v, i.waiters, "rejected")
    BY <1>1, <1>3, <2>7 DEF Release
  <2>8. ASSUME NEW w, Resembles(v, w), tree' = Resume(w, i.waiters)
        PROVE  Advances(tree, tree')
    <3>1. ASSUME NEW u, u = Resume(w, i.waiters) PROVE Advances(tree, u)
      BY <1>5, <2>5, <2>8, <3>1, ResumeEffect
    <3> QED BY <2>8, <3>1
  <2>9. CASE tree' = Resume(SlotChanged(v, d), i.waiters)
    <3>1. Resembles(v, SlotChanged(v, d))
      <4> HIDE DEF v
      <4> QED BY <1>1, SlotChangedEffect
    <3> QED BY <2>8, <2>9, <3>1
  <2>10. CASE tree' = Resume(v, i.waiters)
    <3>1. Resembles(v, v)
      BY <1>1 DEF Resembles
    <3> QED BY <2>8, <2>10, <3>1
  <2> QED BY <2>6, <2>7, <2>9, <2>10
<1> QED BY <1>4, <1>5

\* Handling an event for k leaves the entries, and the events for the others.
LEMMA HandledEffect ==
    ASSUME Sound(tree), NEW k \in Keys, Emitted(k), NEW u, u = Handled(k)
    PROVE  /\ Sound(u) /\ u.fetch = tree.fetch
           /\ \A j \in Keys : \A i \in DOMAIN tree.events :
                j \in tree.events[i].keys /\ (j = k => i # 1)
                  => \E n \in DOMAIN u.events : j \in u.events[n].keys
<1> DEFINE q == tree.events
           e == [Head(q) EXCEPT !.keys = Head(q).keys \ {k}]
           r == IF Head(q).keys \ {k} = {} THEN Tail(q) ELSE [q EXCEPT ![1] = e]
<1>1. tree \in Trees /\ q \in Seq(Events) /\ q # <<>> /\ Len(q) \in Nat \ {0}
      /\ 1 \in DOMAIN q /\ Head(q) = q[1] /\ k \in q[1].keys /\ q[1] \in Events
  BY Entries DEF Sound, Emitted, Quiet
<1>2. u = [tree EXCEPT !.events = r]
  BY <1>1 DEF Handled
<1>3. e \in Events /\ e.keys = q[1].keys \ {k}
  BY <1>1 DEF Events
<1> HIDE DEF e
<1>4. r \in Seq(Events)
  BY <1>1, <1>3
<1>5. ASSUME NEW j \in Keys, NEW i \in DOMAIN q, j \in q[i].keys, j = k => i # 1
      PROVE  \E n \in DOMAIN r : j \in r[n].keys
  <2>1. CASE Head(q).keys \ {k} = {}
    <3>1. i - 1 \in DOMAIN r /\ r[i - 1] = q[i]
      BY <1>1, <1>5, <2>1
    <3> QED BY <1>5, <3>1
  <2>2. CASE Head(q).keys \ {k} # {}
    <3>1. i \in DOMAIN r /\ r[i] = IF i = 1 THEN e ELSE q[i]
      BY <1>1, <2>2
    <3> QED BY <1>3, <1>5, <3>1
  <2> QED BY <2>1, <2>2
<1> HIDE DEF r
<1>6. u \in Trees /\ u.fetch = tree.fetch /\ u.install = tree.install /\ u.events = r
  BY <1>1, <1>2, <1>4 DEF Trees
<1>7. Sound(u)
  <2>1. WaitersAgreeIn(u)
    <3>1. ASSUME NEW d \in Databases
          PROVE  /\ u.install[d] # NoInstall => u.install[d].waiters # {}
                 /\ \A j \in Keys : j \in u.install[d].waiters <=> u.fetch[j].deferred = d
                 /\ \A j \in u.install[d].waiters : j.db = d /\ u.fetch[j].gen = u.install[d].gen
      BY <1>6 DEF Sound, WaitersAgreeIn
    <3> QED BY <3>1 DEF WaitersAgreeIn
  <2>2. AttemptsHaveSessions(u)
    BY <1>6 DEF Sound, AttemptsHaveSessions
  <2> QED BY <1>6, <2>1, <2>2 DEF Sound
<1> QED BY <1>5, <1>6, <1>7

-----------------------------------------------------------------------------
\* The sidebar on top of the coordinator.

\* Requests are told apart by what they ask for.
LEMMA RequestKeys ==
    /\ DatabaseList \in Keys
    /\ \A d \in Databases :
         /\ Details(d) \in Keys /\ Schema(d) \in Keys
         /\ Details(d) # DatabaseList
         /\ \A e \in Databases : Details(d) # Schema(e) /\ (Details(d) = Details(e) => d = e)
  BY DEF Keys, DatabaseList, Details, Schema

\* AskedHasAttempt when no mark waits for its cancellation.
AskedIn(t) ==
    \A d \in Databases :
        (asked[d] # None /\ asked[d] = gen) =>
            \/ t.fetch[Details(d)].gen = gen
            \/ /\ t.fetch[Details(d)] = NoFetch
               /\ \E i \in DOMAIN t.events : Details(d) \in t.events[i].keys

\* Whatever the coordinator does, a table asked for has an attempt or is told.
LEMMA AskedKept ==
    ASSUME NEW t, Sound(t), NEW u, Advances(t, u), AskedIn(t)
    PROVE  AskedIn(u)
<1> SUFFICES ASSUME NEW d \in Databases, asked[d] # None, asked[d] = gen
             PROVE  \/ u.fetch[Details(d)].gen = gen
                    \/ /\ u.fetch[Details(d)] = NoFetch
                       /\ \E i \in DOMAIN u.events : Details(d) \in u.events[i].keys
  BY DEF AskedIn
<1> DEFINE k == Details(d)
<1>1. k \in Keys
  BY RequestKeys
<1> HIDE DEF k
<1>2. /\ t.events \in Seq(Events) /\ Len(t.events) \in Nat
      /\ u.events \in Seq(Events) /\ Len(u.events) \in Nat
  BY Entries DEF Advances, Sound
<1>3. Keeps(t, u, k) /\ Extends(t, u) /\ AttemptsHaveSessions(u)
  BY <1>1 DEF Advances, Sound
<1>4. u.fetch[k].gen = None => u.fetch[k] = NoFetch
  BY <1>1, <1>3 DEF AttemptsHaveSessions
<1>5. Told(t, u, k) => \E i \in DOMAIN u.events : k \in u.events[i].keys
  BY <1>2 DEF Told
<1>6. \/ t.fetch[k].gen = gen
      \/ /\ t.fetch[k] = NoFetch
         /\ \E i \in DOMAIN t.events : k \in t.events[i].keys
  BY DEF AskedIn, k
<1>7. CASE t.fetch[k].gen = gen
  BY <1>3, <1>4, <1>5, <1>7 DEF Keeps, k
<1>8. CASE /\ t.fetch[k] = NoFetch
           /\ \E i \in DOMAIN t.events : k \in t.events[i].keys
  <2>1. PICK i \in DOMAIN t.events : k \in t.events[i].keys
    BY <1>8
  <2>2. i \in DOMAIN u.events /\ u.events[i] = t.events[i]
    BY <1>2, <1>3 DEF Extends
  <2>3. t.fetch[k].gen = None
    BY <1>8, Empty
  <2> QED BY <1>3, <1>4, <2>1, <2>2, <2>3 DEF Keeps, k
<1> QED BY <1>6, <1>7, <1>8

\* Between handlers nothing is marked, and what was asked for is under way.
LEMMA BetweenHandlers ==
    ASSUME TypeOK, TreeInv, Quiet
    PROVE  /\ Sound(tree) /\ superseded = {} /\ AskedIn(tree)
           /\ Len(tree.events) = 0
           /\ \A d \in Databases : (asked[d] # None /\ asked[d] = gen)
                                      => tree.fetch[Details(d)].gen = gen
<1>1. Sound(tree)
  BY DEF TypeOK, TreeInv, WaitersAgree, Sound
<1>2. superseded = {}
  BY DEF TreeInv, MarkHasEvent
<1>3. tree.events = <<>>
  BY DEF Quiet
<1>4. \A d \in Databases : ~Awaited(d)
  BY <1>3 DEF Awaited
<1> QED BY <1>1, <1>2, <1>3, <1>4 DEF TreeInv, AskedHasAttempt, AskedIn

\* A step that leaves no mark and whose tables have attempts or are told.
LEMMA Unmarked ==
    ASSUME superseded' = {}, Sound(tree'), AskedIn(tree)', RowsAgree'
    PROVE  TreeInv'
<1>1. MarkHasEvent'
  BY DEF MarkHasEvent
<1>2. AskedHasAttempt'
  BY DEF AskedHasAttempt, AskedIn, Awaited
<1>3. WaitersAgree' /\ AttemptsHaveSessions(tree)'
  BY DEF Sound, WaitersAgree, AttemptsHaveSessions, WaitersAgreeIn
<1> QED BY <1>1, <1>2, <1>3 DEF TreeInv

\* A step of the coordinator that the sidebar has no part in.
LEMMA CoordinatorStep ==
    ASSUME TypeOK, TreeInv, Quiet, Advances(tree, tree'), UNCHANGED <<gen, superseded>>,
           asked' = asked, RowsAgree'
    PROVE  TreeInv'
<1>1. Sound(tree) /\ superseded = {} /\ AskedIn(tree)
  BY BetweenHandlers
<1>2. AskedIn(tree')
  BY <1>1, AskedKept
<1>3. AskedIn(tree)'
  BY <1>2 DEF AskedIn
<1> QED BY <1>1, <1>3, Unmarked DEF Advances

\* Steps that leave the items of the sidebar leave them in agreement.
LEMMA RowsKept ==
    ASSUME RowsAgree, UNCHANGED <<asked, loading, row, rows>>
    PROVE  RowsAgree'
  BY DEF RowsAgree

\* Retiring the item of d ends its refresh task, and touches no other item.
LEMMA RetireRows ==
    ASSUME TypeOK, RowsAgree, NEW d \in Databases, Retire(d)
    PROVE  /\ RowsAgree'
           /\ asked' \in [Databases -> 0..nextGen]
           /\ loading' \subseteq Databases
           /\ row' \in [Databases -> {"none", "running", "cancelled"}]
           /\ rows' \in [Databases -> {0, 1}]
           /\ asked'[d] = None
           /\ \A e \in Databases : e # d => asked'[e] = asked[e]
<1>1. /\ asked' \in [Databases -> 0..nextGen] /\ asked'[d] = None
      /\ \A e \in Databases : e # d => asked'[e] = asked[e]
  BY DEF TypeOK, Retire, None
<1>2. /\ row' \in [Databases -> {"none", "running", "cancelled"}]
      /\ rows' \in [Databases -> {0, 1}]
      /\ row'[d] = "none" /\ rows'[d] = 0
      /\ \A e \in Databases : e # d => row'[e] = row[e] /\ rows'[e] = rows[e]
  BY DEF TypeOK, Retire, EndRow, RowsAgree
<1>3. loading' = loading \ {d} /\ loading' \subseteq Databases
  BY DEF TypeOK, Retire
<1>4. RowsAgree'
  BY <1>1, <1>2, <1>3 DEF RowsAgree
<1> QED BY <1>1, <1>2, <1>3, <1>4

\* Sessions: nothing was asked for in the session that begins.
LEMMA SessionStep ==
    ASSUME TypeOK, TreeInv, Connect \/ Disconnect
    PROVE  TypeOK' /\ TreeInv'
<1>1. /\ Sound(tree) /\ superseded = {} /\ UNCHANGED <<tree, sidebar>>
      /\ slot' = {} /\ cached' = {} /\ requests' \in 0..MaxRequests
  BY BetweenHandlers, TreeAssumption DEF Connect, Disconnect, Request, TypeOK
<1>2. /\ nextGen' \in Nat /\ nextGen' >= nextGen /\ gen' \in 0..nextGen'
      /\ gen' = None \/ gen' > nextGen
  BY DEF Connect, Disconnect, TypeOK, None
<1>3. \A d \in Databases : asked'[d] = asked[d] /\ asked[d] \in 0..nextGen
  BY <1>1 DEF TypeOK, sidebar
<1>4. asked' \in [Databases -> 0..nextGen']
  BY <1>1, <1>2 DEF TypeOK, sidebar
<1>5. AskedIn(tree)'
  BY <1>2, <1>3 DEF AskedIn, TypeOK
<1>6. RowsAgree'
  BY <1>1, RowsKept DEF TreeInv, sidebar
<1>7. TreeInv'
  BY <1>1, <1>5, <1>6, Unmarked DEF sidebar
<1>8. TypeOK'
  BY <1>1, <1>2, <1>4 DEF TypeOK, sidebar
<1> QED BY <1>7, <1>8

\* Slots, caches, other consumers and drivers.
LEMMA ManagerStep ==
    ASSUME TypeOK, TreeInv,
           \/ \E d \in Databases :
                OpenSlot(d) \/ TakeSlot(d) \/ InvalidateDatabaseCache(d)
           \/ \E d \in Databases, ok \in BOOLEAN : InstallArrives(d, ok)
           \/ \E k \in Keys : Store(k)
           \/ \E k \in Keys, ok \in BOOLEAN :
                \/ ConsumerRequest(k, ok) \/ ConsumerRetry(k, ok)
                \/ FetchArrives(k, ok)
    PROVE  TypeOK' /\ TreeInv'
<1> DEFINE Kept == /\ Quiet
                   /\ UNCHANGED <<gen, nextGen, asked, loading, row, rows, superseded>>
                   /\ requests' \in 0..MaxRequests
                   /\ slot' \subseteq Databases /\ cached' \subseteq Keys
                   /\ retry' \in [Databases -> Nat] /\ recovery' \in [Databases -> Nat]
<1>1. Kept
  <2>1. ASSUME NEW d \in Databases, OpenSlot(d) \/ TakeSlot(d) PROVE Kept
    BY <2>1, TreeAssumption DEF OpenSlot, TakeSlot, Request, sidebar, TypeOK
  <2>2. ASSUME NEW d \in Databases, InvalidateDatabaseCache(d) PROVE Kept
    <3>1. retry' \in [Databases -> Nat] /\ recovery' \in [Databases -> Nat]
      BY <2>2 DEF InvalidateDatabaseCache, TypeOK, None
    <3> QED BY <2>2, <3>1, TreeAssumption DEF InvalidateDatabaseCache, Request, TypeOK
  <2>3. ASSUME NEW d \in Databases, NEW ok \in BOOLEAN, InstallArrives(d, ok) PROVE Kept
    <3>1. slot' = slot \/ slot' = slot \union {d}
      BY <2>3 DEF InstallArrives
    <3>2. Quiet /\ UNCHANGED <<gen, nextGen, cached, sidebar, requests>>
      BY <2>3 DEF InstallArrives
    <3> QED BY <3>1, <3>2 DEF sidebar, TypeOK
  <2>4. ASSUME NEW k \in Keys, Store(k) PROVE Kept
    BY <2>4, TreeAssumption DEF Store, Request, sidebar, TypeOK
  <2>5. ASSUME NEW k \in Keys, NEW ok \in BOOLEAN,
               ConsumerRequest(k, ok) \/ ConsumerRetry(k, ok)
        PROVE  Kept
    BY <2>5, TreeAssumption DEF ConsumerRequest, ConsumerRetry, Request, manager, sidebar,
       TypeOK
  <2>6. ASSUME NEW k \in Keys, NEW ok \in BOOLEAN, FetchArrives(k, ok) PROVE Kept
    <3>1. cached' = cached \/ cached' = cached \union {k}
      BY <2>6 DEF FetchArrives
    <3>2. Quiet /\ UNCHANGED <<gen, nextGen, slot, sidebar, requests>>
      BY <2>6 DEF FetchArrives
    <3> QED BY <3>1, <3>2 DEF sidebar, TypeOK
  <2> QED BY <2>1, <2>2, <2>3, <2>4, <2>5, <2>6
<1>2. Sound(tree) /\ gen \in Nat /\ tree \in Trees
  BY <1>1, BetweenHandlers DEF TypeOK, Sound
<1>5. Advances(tree, tree')
  <2>1. ASSUME NEW d \in Databases, OpenSlot(d) \/ TakeSlot(d)
        PROVE  Advances(tree, tree')
    <3>1. tree' = SlotChanged(tree, d)
      BY <2>1 DEF OpenSlot, TakeSlot
    <3>2. ASSUME NEW u, u = SlotChanged(tree, d) PROVE Advances(tree, u)
      BY <1>2, <3>2, SlotChangedEffect, ResemblesAdvances
    <3> QED BY <3>1, <3>2
  <2>2. ASSUME NEW d \in Databases, InvalidateDatabaseCache(d)
        PROVE  Advances(tree, tree')
    <3> DEFINE t == Invalidated(tree)
    <3>1. tree' = t \/ tree' = SlotChanged(t, d)
      BY <2>2 DEF InvalidateDatabaseCache
    <3>2. Advances(tree, t)
      BY <1>2, InvalidatedEffect, ResemblesAdvances
    <3>3. Sound(t) /\ t \in Trees
      BY <3>2 DEF Advances, Sound
    <3> HIDE DEF t
    <3>4. ASSUME NEW u, u = SlotChanged(t, d) PROVE Advances(tree, u)
      BY <1>2, <3>2, <3>3, <3>4, SlotChangedEffect, ResemblesAdvances, AdvancesTrans
    <3> QED BY <3>1, <3>2, <3>4
  <2>3. ASSUME NEW d \in Databases, NEW ok \in BOOLEAN, InstallArrives(d, ok)
        PROVE  Advances(tree, tree')
    BY <1>2, <2>3, InstallArrivesEffect
  <2>4. ASSUME NEW k \in Keys, Store(k) PROVE Advances(tree, tree')
    BY <1>2, <2>4, AdvancesRefl DEF Store
  <2>5. ASSUME NEW k \in Keys, NEW ok \in BOOLEAN, ConsumerRequest(k, ok)
        PROVE  Advances(tree, tree')
    <3>1. ASSUME NEW u, u = Ask(tree, cached, k, ok) PROVE Advances(tree, u)
      BY <1>2, <3>1, AskEffect
    <3> QED BY <2>5, <3>1 DEF ConsumerRequest
  <2>6. ASSUME NEW k \in Keys, NEW ok \in BOOLEAN, ConsumerRetry(k, ok)
        PROVE  Advances(tree, tree')
    <3>1. ASSUME NEW u, u = AskAgain(tree, cached, k, ok) PROVE Advances(tree, u)
      BY <1>2, <3>1, AskAgainEffect DEF Replaces
    <3> QED BY <2>6, <3>1 DEF ConsumerRetry
  <2>7. ASSUME NEW k \in Keys, NEW ok \in BOOLEAN, FetchArrives(k, ok)
        PROVE  Advances(tree, tree')
    BY <1>2, <2>7, FetchArrivesEffect
  <2> QED BY <2>1, <2>2, <2>3, <2>4, <2>5, <2>6, <2>7
<1>6. RowsAgree'
  BY <1>1, RowsKept DEF TreeInv
<1>7. TreeInv'
  BY <1>1, <1>5, <1>6, CoordinatorStep
<1>8. tree' \in Trees
  BY <1>5 DEF Advances, Sound
<1>9. TypeOK'
  BY <1>1, <1>8 DEF TypeOK
<1> QED BY <1>7, <1>9

\* Requests of the sidebar that mark nothing.
LEMMA PlainRequestStep ==
    ASSUME TypeOK, TreeInv, NEW d \in Databases, NEW ok \in BOOLEAN,
           RetireStaleItem(d) \/ CancelRow(d) \/ RetryTable(d, ok)
    PROVE  TypeOK' /\ TreeInv'
<1>1. /\ Quiet /\ UNCHANGED <<gen, nextGen, slot, cached, superseded>>
      /\ requests' \in 0..MaxRequests
  BY TreeAssumption DEF RetireStaleItem, CancelRow, RetryTable, Request, manager, TypeOK
<1>2. Sound(tree) /\ superseded = {} /\ AskedIn(tree) /\ gen \in Nat
  BY <1>1, BetweenHandlers DEF TypeOK
<1>3. CASE RetireStaleItem(d)
  <2>1. Retire(d) /\ UNCHANGED <<tree, retry, recovery>>
    BY <1>3 DEF RetireStaleItem
  <2>2. /\ RowsAgree' /\ asked' \in [Databases -> 0..nextGen]
        /\ loading' \subseteq Databases
        /\ row' \in [Databases -> {"none", "running", "cancelled"}]
        /\ rows' \in [Databases -> {0, 1}]
        /\ asked'[d] = None
        /\ \A e \in Databases : e # d => asked'[e] = asked[e]
    BY <2>1, RetireRows DEF TreeInv
  <2>3. AskedIn(tree)'
    BY <1>1, <1>2, <2>1, <2>2 DEF AskedIn
  <2>4. TypeOK'
    BY <1>1, <2>1, <2>2 DEF TypeOK
  <2> QED BY <1>1, <1>2, <2>1, <2>2, <2>3, <2>4, Unmarked
<1>4. CASE CancelRow(d)
  <2>1. /\ UNCHANGED <<tree, asked, loading, retry, recovery>>
        /\ row[d] = "running"
        /\ row' = [row EXCEPT ![d] = "cancelled"]
        /\ rows' = [rows EXCEPT ![d] = rows[d] - 1]
    BY <1>4 DEF CancelRow
  <2>2. rows[d] = 1
    BY <2>1 DEF TreeInv, RowsAgree
  <2>3. /\ row' \in [Databases -> {"none", "running", "cancelled"}]
        /\ rows' \in [Databases -> {0, 1}]
    BY <2>1, <2>2 DEF TypeOK
  <2>4. RowsAgree'
    BY <2>1, <2>2 DEF TreeInv, RowsAgree, TypeOK
  <2>5. AskedIn(tree)'
    BY <1>1, <1>2, <2>1 DEF AskedIn
  <2>6. TypeOK'
    BY <1>1, <2>1, <2>3 DEF TypeOK
  <2> QED BY <1>1, <1>2, <2>1, <2>4, <2>5, <2>6, Unmarked
<1>5. CASE RetryTable(d, ok)
  <2>1. /\ UNCHANGED <<asked, loading, row, rows, retry>>
        /\ tree' = AskAgain(tree, cached, Schema(d), ok)
        /\ recovery' \in [Databases -> Nat]
    BY <1>2, <1>5 DEF RetryTable, TypeOK
  <2>2. ASSUME NEW u, u = AskAgain(tree, cached, Schema(d), ok) PROVE Advances(tree, u)
    BY <1>2, <2>2, AskAgainEffect, RequestKeys DEF Replaces
  <2>3. Advances(tree, tree')
    BY <2>1, <2>2
  <2>4. RowsAgree'
    BY <2>1, RowsKept DEF TreeInv
  <2>5. TreeInv'
    BY <1>1, <2>1, <2>3, <2>4, CoordinatorStep
  <2>6. TypeOK'
    BY <1>1, <2>1, <2>3 DEF TypeOK, Advances, Sound
  <2> QED BY <2>5, <2>6
<1> QED BY <1>3, <1>4, <1>5

\* A request that cancels an attempt of its own accord: the mark it leaves is for
\* the first event, which is that cancellation, and the other tables are told by
\* events of their own.
LEMMA MarkedStep ==
    ASSUME TypeOK, TreeInv, Quiet, NEW d \in Databases, gen' = gen,
           superseded' = {<<d, gen>>}, Advances(tree, tree'),
           Len(tree'.events) > 0,
           tree'.events[1] = [keys |-> {Details(d)}, outcome |-> "cancelled"],
           \A e \in Databases : e # d => asked'[e] = asked[e],
           (asked'[d] # None /\ asked'[d] = gen) =>
              \/ tree'.fetch[Details(d)].gen = gen
              \/ /\ tree'.fetch[Details(d)] = NoFetch
                 /\ \E i \in 2..Len(tree'.events) : Details(d) \in tree'.events[i].keys,
           RowsAgree'
    PROVE  TreeInv'
<1>1. /\ Sound(tree) /\ AskedIn(tree)
  BY BetweenHandlers
<1>2. AskedIn(tree')
  BY <1>1, AskedKept
<1>3. Sound(tree') /\ tree'.events \in Seq(Events) /\ Len(tree'.events) \in Nat
  BY Entries DEF Advances, Sound
<1>4. MarkHasEvent'
  <2>1. tree'.events # <<>> /\ Head(tree'.events) = tree'.events[1]
    BY <1>3
  <2> QED BY <2>1 DEF MarkHasEvent, Quiet
<1>5. ASSUME NEW e \in Databases, asked'[e] # None, asked'[e] = gen'
      PROVE  \/ tree'.fetch[Details(e)].gen = gen'
             \/ tree'.fetch[Details(e)] = NoFetch /\ Awaited(e)'
  <2>1. CASE e = d
    <3>1. CASE tree'.fetch[Details(d)].gen = gen
      BY <2>1, <3>1
    <3>2. CASE /\ tree'.fetch[Details(d)] = NoFetch
               /\ \E i \in 2..Len(tree'.events) : Details(d) \in tree'.events[i].keys
      <4>1. PICK i \in 2..Len(tree'.events) : Details(d) \in tree'.events[i].keys
        BY <3>2
      <4>2. i \in DOMAIN tree'.events /\ i # 1
        BY <1>3
      <4>3. Awaited(d)'
        BY <4>1, <4>2 DEF Awaited
      <4> QED BY <2>1, <3>2, <4>3
    <3> QED BY <1>5, <2>1, <3>1, <3>2
  <2>2. CASE e # d
    <3>1. \/ tree'.fetch[Details(e)].gen = gen
          \/ /\ tree'.fetch[Details(e)] = NoFetch
             /\ \E i \in DOMAIN tree'.events : Details(e) \in tree'.events[i].keys
      BY <1>2, <1>5, <2>2 DEF AskedIn
    <3>2. <<e, gen>> \notin superseded'
      BY <2>2
    <3>3. (\E i \in DOMAIN tree'.events : Details(e) \in tree'.events[i].keys) => Awaited(e)'
      BY <3>2 DEF Awaited
    <3> QED BY <3>1, <3>3
  <2> QED BY <2>1, <2>2
<1>6. AskedHasAttempt'
  BY <1>5 DEF AskedHasAttempt
<1>7. WaitersAgree' /\ AttemptsHaveSessions(tree)'
  BY <1>3 DEF Sound, WaitersAgree, AttemptsHaveSessions, WaitersAgreeIn
<1> QED BY <1>4, <1>6, <1>7 DEF TreeInv

\* Expanding a table.
LEMMA EnsureStep ==
    ASSUME TypeOK, TreeInv, NEW d \in Databases, NEW ok \in BOOLEAN,
           EnsureTableDetails(d, ok)
    PROVE  TypeOK' /\ TreeInv'
<1> DEFINE k == Details(d)
<1>1. /\ Quiet /\ UNCHANGED <<manager, retry, recovery>> /\ requests' \in 0..MaxRequests
      /\ gen # None /\ asked[d] # gen
      /\ tree' = AskForDetails(d, ok)
      /\ Mark(d, StaleSession(tree, k))
      /\ asked' = [asked EXCEPT ![d] = IF Pending(tree', k) THEN gen ELSE None]
      /\ loading' = IF StaleItem(d) THEN loading \ {d} ELSE loading
      /\ IF StaleItem(d) THEN EndRow(d) ELSE UNCHANGED <<row, rows>>
  BY TreeAssumption DEF EnsureTableDetails, Request, TypeOK
<1>2. /\ Sound(tree) /\ superseded = {} /\ AskedIn(tree) /\ gen \in Nat /\ k \in Keys
      /\ Len(tree.events) = 0
  BY <1>1, BetweenHandlers, RequestKeys DEF TypeOK
<1>3. /\ asked' \in [Databases -> 0..nextGen] /\ asked'[d] = IF Pending(tree', k) THEN gen ELSE None
      /\ \A e \in Databases : e # d => asked'[e] = asked[e]
  BY <1>1 DEF TypeOK, None
<1>4. /\ RowsAgree' /\ loading' \subseteq Databases
      /\ row' \in [Databases -> {"none", "running", "cancelled"}]
      /\ rows' \in [Databases -> {0, 1}]
  <2>1. CASE StaleItem(d)
    <3>1. /\ loading' = loading \ {d}
          /\ row' = [row EXCEPT ![d] = "none"]
          /\ rows' = [rows EXCEPT ![d] = IF row[d] = "running" THEN rows[d] - 1 ELSE rows[d]]
      BY <1>1, <2>1 DEF EndRow
    <3>2. /\ row' \in [Databases -> {"none", "running", "cancelled"}]
          /\ rows' \in [Databases -> {0, 1}]
          /\ row'[d] = "none" /\ rows'[d] = 0
          /\ \A e \in Databases : e # d => row'[e] = row[e] /\ rows'[e] = rows[e]
      BY <3>1 DEF TypeOK, TreeInv, RowsAgree
    <3> QED BY <1>3, <3>1, <3>2 DEF TypeOK, TreeInv, RowsAgree
  <2>2. CASE ~StaleItem(d)
    <3>1. asked[d] = None /\ UNCHANGED <<loading, row, rows>>
      BY <1>1, <2>2 DEF StaleItem
    <3>2. d \notin loading
      BY <3>1 DEF TreeInv, RowsAgree
    <3> QED BY <1>3, <3>1, <3>2 DEF TypeOK, TreeInv, RowsAgree
  <2> QED BY <2>1, <2>2
<1> HIDE DEF k
<1>5. CASE StaleSession(tree, k)
  <2>1. tree' = AskAgain(tree, cached, k, ok) /\ Pending(tree, k)
    BY <1>1, <1>5 DEF AskForDetails, StaleSession, k
  <2>2. ASSUME NEW u, u = AskAgain(tree, cached, k, ok)
        PROVE  /\ Advances(tree, u)
               /\ Pending(u, k) => u.fetch[k].gen = gen
               /\ Len(u.events) > 0
               /\ u.events[1] = [keys |-> {k}, outcome |-> "cancelled"]
    <3>1. /\ Advances(tree, u)
          /\ Pending(u, k) => u.fetch[k].gen = gen
          /\ Len(u.events) > Len(tree.events)
          /\ u.events[Len(tree.events) + 1] = [keys |-> {k}, outcome |-> "cancelled"]
      <4>1. Replaces(tree, u, k)
        BY <1>2, <2>2, AskAgainEffect
      <4> QED BY <2>1, <4>1 DEF Replaces, Pending
    <3>2. Len(tree.events) + 1 = 1
      BY <1>2
    <3> QED BY <1>2, <3>1, <3>2
  <2>3. /\ Advances(tree, tree')
        /\ Pending(tree', k) => tree'.fetch[k].gen = gen
        /\ Len(tree'.events) > 0
        /\ tree'.events[1] = [keys |-> {k}, outcome |-> "cancelled"]
    BY <2>1, <2>2
  <2>4. superseded' = {<<d, gen>>} /\ gen' = gen
    BY <1>1, <1>2, <1>5 DEF Mark, manager
  <2>5. (asked'[d] # None /\ asked'[d] = gen) => tree'.fetch[k].gen = gen
    BY <1>3, <2>3
  <2>6. TreeInv'
    BY <1>1, <1>3, <1>4, <2>3, <2>4, <2>5, MarkedStep DEF k
  <2>7. superseded' \subseteq Databases \X Nat
    BY <1>2, <2>4
  <2>8. TypeOK'
    BY <1>1, <1>3, <1>4, <2>3, <2>7 DEF TypeOK, manager, Advances, Sound
  <2> QED BY <2>6, <2>8
<1>6. CASE ~StaleSession(tree, k)
  <2>1. tree' = Ask(tree, cached, k, ok)
    BY <1>1, <1>6 DEF AskForDetails, k
  <2>2. ASSUME NEW u, u = Ask(tree, cached, k, ok)
        PROVE  /\ Advances(tree, u)
               /\ Pending(u, k) => u.fetch[k].gen = gen
    <3>1. /\ Advances(tree, u)
          /\ ~Pending(tree, k) => Answers(tree, u, k)
          /\ Pending(tree, k) => u = tree
      BY <1>2, <2>2, AskEffect
    <3> QED BY <1>6, <3>1 DEF StaleSession, Answers, Pending
  <2>3. Advances(tree, tree') /\ (Pending(tree', k) => tree'.fetch[k].gen = gen)
    BY <2>1, <2>2
  <2>4. superseded' = {} /\ gen' = gen
    BY <1>1, <1>2, <1>6 DEF Mark, manager
  <2>5. AskedIn(tree')
    BY <1>2, <2>3, AskedKept
  <2>6. ASSUME NEW e \in Databases, asked'[e] # None, asked'[e] = gen
        PROVE  \/ tree'.fetch[Details(e)].gen = gen
               \/ /\ tree'.fetch[Details(e)] = NoFetch
                  /\ \E i \in DOMAIN tree'.events : Details(e) \in tree'.events[i].keys
    <3>1. CASE e = d
      BY <1>3, <2>3, <2>6, <3>1 DEF k
    <3>2. CASE e # d
      BY <1>3, <2>5, <2>6, <3>2 DEF AskedIn
    <3> QED BY <3>1, <3>2
  <2>7. AskedIn(tree)'
    BY <2>4, <2>6 DEF AskedIn
  <2>8. TreeInv'
    BY <1>4, <2>3, <2>4, <2>7, Unmarked DEF Advances
  <2>9. TypeOK'
    BY <1>1, <1>3, <1>4, <2>3, <2>4 DEF TypeOK, manager, Advances, Sound
  <2> QED BY <2>8, <2>9
<1> QED BY <1>5, <1>6

\* Refreshing a table: when its attempt ends at once, the event that tells so comes
\* after the cancellation the sidebar ignores.
LEMMA RefreshStep ==
    ASSUME TypeOK, TreeInv, NEW d \in Databases, NEW ok \in BOOLEAN,
           RefreshTableDetails(d, ok)
    PROVE  TypeOK' /\ TreeInv'
<1> DEFINE k == Details(d)
           left == IF StaleItem(d) /\ row[d] = "running" THEN rows[d] - 1 ELSE rows[d]
<1>1. /\ Quiet /\ UNCHANGED <<gen, nextGen, slot, retry, recovery>>
      /\ requests' \in 0..MaxRequests
      /\ gen # None /\ (d \notin loading \/ StaleItem(d))
      /\ cached' \subseteq Keys
      /\ tree' = AskAgain(tree, cached \ {k}, k, ok)
      /\ IF Pending(tree, k) THEN superseded' = superseded \union {<<d, gen>>}
         ELSE superseded' = superseded \ {<<d, gen>>}
  BY TreeAssumption DEF RefreshTableDetails, Request, TypeOK, Mark
<1>2. \/ /\ Pending(tree', k)
         /\ asked' = [asked EXCEPT ![d] = gen]
         /\ loading' = loading \union {d}
         /\ row' = [row EXCEPT ![d] = "running"]
         /\ rows' = [rows EXCEPT ![d] = left + 1]
      \/ ~Pending(tree', k) /\ StaleItem(d) /\ Retire(d)
      \/ ~Pending(tree', k) /\ ~StaleItem(d) /\ UNCHANGED <<asked, loading, row, rows>>
  BY <1>1 DEF RefreshTableDetails
<1>3. /\ Sound(tree) /\ superseded = {} /\ AskedIn(tree) /\ gen \in Nat /\ k \in Keys
      /\ Len(tree.events) = 0 /\ gen \in 0..nextGen
      /\ (asked[d] # None /\ asked[d] = gen) => tree.fetch[k].gen = gen
  BY <1>1, BetweenHandlers, RequestKeys DEF TypeOK
<1> HIDE DEF k
<1>4. /\ RowsAgree' /\ asked' \in [Databases -> 0..nextGen] /\ loading' \subseteq Databases
      /\ row' \in [Databases -> {"none", "running", "cancelled"}]
      /\ rows' \in [Databases -> {0, 1}]
      /\ \A e \in Databases : e # d => asked'[e] = asked[e]
      /\ asked'[d] = IF Pending(tree', k) THEN gen
                     ELSE IF StaleItem(d) THEN None ELSE asked[d]
  <2>1. CASE /\ Pending(tree', k)
             /\ asked' = [asked EXCEPT ![d] = gen]
             /\ loading' = loading \union {d}
             /\ row' = [row EXCEPT ![d] = "running"]
             /\ rows' = [rows EXCEPT ![d] = left + 1]
    <3>1. left = 0
      <4>1. rows[d] = IF row[d] = "running" THEN 1 ELSE 0
        BY DEF TreeInv, RowsAgree
      <4>2. d \notin loading => row[d] = "none"
        BY DEF TreeInv, RowsAgree
      <4> QED BY <1>1, <4>1, <4>2
    <3>2. /\ asked' \in [Databases -> 0..nextGen] /\ asked'[d] = gen
          /\ \A e \in Databases : e # d => asked'[e] = asked[e]
      BY <1>3, <2>1 DEF TypeOK
    <3>3. /\ row' \in [Databases -> {"none", "running", "cancelled"}] /\ row'[d] = "running"
          /\ rows' \in [Databases -> {0, 1}] /\ rows'[d] = 1
          /\ \A e \in Databases : e # d => row'[e] = row[e] /\ rows'[e] = rows[e]
      <4> HIDE DEF left
      <4> QED BY <2>1, <3>1 DEF TypeOK
    <3>4. RowsAgree'
      BY <1>1, <2>1, <3>2, <3>3 DEF TreeInv, RowsAgree, TypeOK
    <3> QED BY <2>1, <3>2, <3>3, <3>4 DEF TypeOK
  <2>2. CASE ~Pending(tree', k) /\ StaleItem(d) /\ Retire(d)
    BY <2>2, RetireRows DEF TreeInv
  <2>3. CASE ~Pending(tree', k) /\ ~StaleItem(d) /\ UNCHANGED <<asked, loading, row, rows>>
    <3>1. RowsAgree'
      BY <2>3, RowsKept DEF TreeInv
    <3> QED BY <2>3, <3>1 DEF TypeOK
  <2> QED BY <1>2, <2>1, <2>2, <2>3
<1>5. ASSUME NEW u, u = AskAgain(tree, cached \ {k}, k, ok)
      PROVE  /\ Advances(tree, u)
             /\ Pending(u, k) => u.fetch[k].gen = gen
             /\ Pending(tree, k) =>
                  /\ Len(u.events) > 0
                  /\ u.events[1] = [keys |-> {k}, outcome |-> "cancelled"]
                  /\ ~Pending(u, k) => \E i \in 2..Len(u.events) : k \in u.events[i].keys
  <2>1. Replaces(tree, u, k)
    BY <1>3, <1>5, AskAgainEffect
  <2>2. Len(tree.events) + 1 = 1 /\ Len(tree.events) + 2 = 2
    BY <1>3
  <2>3. u.fetch[k].gen = gen => Pending(u, k)
    BY <1>1, Empty DEF Pending
  <2> QED BY <1>3, <2>1, <2>2, <2>3 DEF Pending, Replaces
<1>6. Advances(tree, tree') /\ (Pending(tree', k) => tree'.fetch[k].gen = gen)
  BY <1>1, <1>5
<1>7. CASE Pending(tree, k)
  <2>1. /\ Len(tree'.events) > 0
        /\ tree'.events[1] = [keys |-> {k}, outcome |-> "cancelled"]
        /\ ~Pending(tree', k) => \E i \in 2..Len(tree'.events) : k \in tree'.events[i].keys
    BY <1>1, <1>5, <1>7
  <2>2. superseded' = {<<d, gen>>}
    BY <1>1, <1>3, <1>7
  <2>3. (asked'[d] # None /\ asked'[d] = gen) =>
           \/ tree'.fetch[k].gen = gen
           \/ /\ tree'.fetch[k] = NoFetch
              /\ \E i \in 2..Len(tree'.events) : k \in tree'.events[i].keys
    BY <1>6, <2>1 DEF Pending
  <2>4. TreeInv'
    BY <1>1, <1>4, <1>6, <2>1, <2>2, <2>3, MarkedStep DEF k
  <2>5. superseded' \subseteq Databases \X Nat
    BY <1>3, <2>2
  <2>6. TypeOK'
    BY <1>1, <1>4, <1>6, <2>5 DEF TypeOK, Advances, Sound
  <2> QED BY <2>4, <2>6
<1>8. CASE ~Pending(tree, k)
  <2>1. superseded' = {} /\ gen' = gen
    BY <1>1, <1>3, <1>8
  <2>2. AskedIn(tree')
    BY <1>3, <1>6, AskedKept
  <2>3. asked[d] = None \/ StaleItem(d)
    BY <1>3, <1>1, <1>8, Empty DEF StaleItem, Pending
  <2>4. ASSUME NEW e \in Databases, asked'[e] # None, asked'[e] = gen
        PROVE  \/ tree'.fetch[Details(e)].gen = gen
               \/ /\ tree'.fetch[Details(e)] = NoFetch
                  /\ \E i \in DOMAIN tree'.events : Details(e) \in tree'.events[i].keys
    <3>1. CASE e = d
      BY <1>4, <1>6, <2>3, <2>4, <3>1 DEF k
    <3>2. CASE e # d
      BY <1>4, <2>2, <2>4, <3>2 DEF AskedIn
    <3> QED BY <3>1, <3>2
  <2>5. AskedIn(tree)'
    BY <2>1, <2>4 DEF AskedIn
  <2>6. TreeInv'
    BY <1>4, <1>6, <2>1, <2>5, Unmarked DEF Advances
  <2>7. TypeOK'
    BY <1>1, <1>4, <1>6, <2>1 DEF TypeOK, Advances, Sound
  <2> QED BY <2>6, <2>7
<1> QED BY <1>7, <1>8

\* An event that is not the marked cancellation finds no mark: the marked one is
\* always the next.
LEMMA NextEvent ==
    ASSUME TypeOK, TreeInv, NEW k \in Keys, Emitted(k),
           \A d \in Databases :
              k = Details(d) => ~(/\ Head(tree.events).outcome = "cancelled"
                                  /\ <<d, gen>> \in superseded)
    PROVE  Sound(tree) /\ superseded = {} /\ AskedIn(tree)
<1>1. Sound(tree)
  BY DEF TypeOK, TreeInv, WaitersAgree, Sound
<1>2. superseded = {}
  <2> SUFFICES ASSUME superseded # {} PROVE FALSE
    OBVIOUS
  <2>1. PICK d \in Databases :
          /\ superseded = {<<d, gen>>}
          /\ Head(tree.events) = [keys |-> {Details(d)}, outcome |-> "cancelled"]
    BY DEF TreeInv, MarkHasEvent
  <2>2. k = Details(d) /\ Head(tree.events).outcome = "cancelled"
    BY <2>1 DEF Emitted
  <2> QED BY <2>1, <2>2
<1>3. AskedIn(tree)
  BY <1>2 DEF TreeInv, AskedHasAttempt, Awaited, AskedIn
<1> QED BY <1>1, <1>2, <1>3

\* Handling the event of k leaves the tables of other requests as they were.
LEMMA HandledKeepsAsked ==
    ASSUME Sound(tree), NEW k \in Keys, Emitted(k), AskedIn(tree), NEW u, u = Handled(k)
    PROVE  \A d \in Databases :
              (asked[d] # None /\ asked[d] = gen /\ Details(d) # k) =>
                 \/ u.fetch[Details(d)].gen = gen
                 \/ /\ u.fetch[Details(d)] = NoFetch
                    /\ \E i \in DOMAIN u.events : Details(d) \in u.events[i].keys
<1>1. /\ Sound(u) /\ u.fetch = tree.fetch
      /\ \A j \in Keys : \A i \in DOMAIN tree.events :
           j \in tree.events[i].keys /\ (j = k => i # 1)
             => \E n \in DOMAIN u.events : j \in u.events[n].keys
  BY HandledEffect
<1> SUFFICES ASSUME NEW d \in Databases, asked[d] # None, asked[d] = gen, Details(d) # k
             PROVE  \/ u.fetch[Details(d)].gen = gen
                    \/ /\ u.fetch[Details(d)] = NoFetch
                       /\ \E i \in DOMAIN u.events : Details(d) \in u.events[i].keys
  OBVIOUS
<1> DEFINE j == Details(d)
<1>2. j \in Keys
  BY RequestKeys
<1>3. \/ tree.fetch[j].gen = gen
      \/ /\ tree.fetch[j] = NoFetch
         /\ \E i \in DOMAIN tree.events : j \in tree.events[i].keys
  BY DEF AskedIn
<1> HIDE DEF j
<1>4. j # k
  BY DEF j
<1>5. \/ u.fetch[j].gen = gen
      \/ /\ u.fetch[j] = NoFetch
         /\ \E i \in DOMAIN u.events : j \in u.events[i].keys
  BY <1>1, <1>2, <1>3, <1>4
<1> QED BY <1>5 DEF j

\* The sidebar ignores its own cancellation.
LEMMA SupersededStep ==
    ASSUME TypeOK, TreeInv, NEW d \in Databases, SettleSuperseded(d)
    PROVE  TypeOK' /\ TreeInv'
<1> DEFINE k == Details(d)
<1>1. /\ Emitted(k) /\ <<d, gen>> \in superseded
      /\ superseded' = superseded \ {<<d, gen>>} /\ tree' = Handled(k)
      /\ UNCHANGED <<manager, asked, loading, row, rows, retry, recovery, requests>>
  BY DEF SettleSuperseded
<1>2. Sound(tree) /\ k \in Keys
  BY RequestKeys DEF TypeOK, TreeInv, WaitersAgree, Sound
<1>3. superseded = {<<d, gen>>} /\ superseded' = {}
  BY <1>1 DEF TreeInv, MarkHasEvent
<1>4. Head(tree.events).keys = {k}
  <2>1. PICK e \in Databases :
          /\ superseded = {<<e, gen>>}
          /\ Head(tree.events) = [keys |-> {Details(e)}, outcome |-> "cancelled"]
    BY <1>3 DEF TreeInv, MarkHasEvent
  <2>2. <<e, gen>> = <<d, gen>>
    BY <1>3, <2>1
  <2>3. e = d
    BY <2>2
  <2> QED BY <2>1, <2>3
<1>5. tree.events \in Seq(Events) /\ tree.events # <<>> /\ Head(tree.events) = tree.events[1]
  BY <1>1, <1>2, Entries DEF Sound, Emitted, Quiet
<1> HIDE DEF k
<1>6. ASSUME NEW u, u = Handled(k)
      PROVE  Sound(u) /\ AskedIn(u)
  <2>1. /\ Sound(u) /\ u.fetch = tree.fetch
        /\ \A j \in Keys : \A i \in DOMAIN tree.events :
             j \in tree.events[i].keys /\ (j = k => i # 1)
               => \E n \in DOMAIN u.events : j \in u.events[n].keys
    BY <1>1, <1>2, <1>6, HandledEffect
  <2>2. ASSUME NEW e \in Databases, asked[e] # None, asked[e] = gen
        PROVE  \/ u.fetch[Details(e)].gen = gen
               \/ /\ u.fetch[Details(e)] = NoFetch
                  /\ \E i \in DOMAIN u.events : Details(e) \in u.events[i].keys
    <3>1. CASE tree.fetch[Details(e)].gen = gen
      BY <2>1, <3>1
    <3>2. CASE tree.fetch[Details(e)] = NoFetch /\ Awaited(e)
      <4>1. PICK i \in DOMAIN tree.events : /\ Details(e) \in tree.events[i].keys
                                            /\ i = 1 => <<e, gen>> \notin superseded
        BY <3>2 DEF Awaited
      <4>2. i # 1
        <5> SUFFICES ASSUME i = 1 PROVE FALSE
          OBVIOUS
        <5>1. Details(e) = k
          BY <1>4, <1>5, <4>1
        <5>2. e = d
          BY <5>1, RequestKeys DEF k
        <5> QED BY <1>3, <4>1, <5>2
      <4>3. Details(e) \in Keys
        BY RequestKeys
      <4>4. \E n \in DOMAIN u.events : Details(e) \in u.events[n].keys
        BY <2>1, <4>1, <4>2, <4>3
      <4> QED BY <2>1, <3>2, <4>4
    <3> QED BY <2>2, <3>1, <3>2 DEF TreeInv, AskedHasAttempt
  <2> QED BY <2>1, <2>2 DEF AskedIn
<1>7. Sound(tree') /\ AskedIn(tree')
  BY <1>1, <1>6
<1>8. AskedIn(tree)'
  BY <1>1, <1>7 DEF AskedIn, manager
<1>9. RowsAgree'
  BY <1>1, RowsKept DEF TreeInv
<1>10. TreeInv'
  BY <1>3, <1>7, <1>8, <1>9, Unmarked
<1>11. TypeOK'
  BY <1>1, <1>3, <1>7 DEF TypeOK, manager, Sound
<1> QED BY <1>10, <1>11

\* The end of an attempt ends the item, unless a newer attempt is under way.
LEMMA DetailsStep ==
    ASSUME TypeOK, TreeInv, NEW d \in Databases, SettleTableDetails(d)
    PROVE  TypeOK' /\ TreeInv'
<1> DEFINE k == Details(d)
           settled == asked[d] # None /\ asked[d] = gen /\ ~Pending(tree, k)
<1>1. /\ Emitted(k) /\ tree' = Handled(k)
      /\ ~(Head(tree.events).outcome = "cancelled" /\ <<d, gen>> \in superseded)
      /\ UNCHANGED <<manager, recovery, superseded, requests>>
      /\ \/ Retire(d)
         \/ ~StaleItem(d) /\ ~settled /\ UNCHANGED <<asked, loading, row, rows>>
  BY DEF SettleTableDetails
<1>2. retry' \in [Databases -> Nat]
  BY DEF SettleTableDetails, TypeOK, None
<1>3. k \in Keys /\ \A e \in Databases : k = Details(e) => e = d
  BY RequestKeys
<1>4. Sound(tree) /\ superseded = {} /\ AskedIn(tree)
  BY <1>1, <1>3, NextEvent
<1>5. ASSUME NEW u, u = Handled(k)
      PROVE  /\ Sound(u) /\ u.fetch = tree.fetch
             /\ \A e \in Databases :
                  (asked[e] # None /\ asked[e] = gen /\ e # d) =>
                     \/ u.fetch[Details(e)].gen = gen
                     \/ /\ u.fetch[Details(e)] = NoFetch
                        /\ \E i \in DOMAIN u.events : Details(e) \in u.events[i].keys
  <2>1. Sound(u) /\ u.fetch = tree.fetch
    BY <1>1, <1>3, <1>4, <1>5, HandledEffect
  <2>2. \A e \in Databases :
           (asked[e] # None /\ asked[e] = gen /\ Details(e) # k) =>
              \/ u.fetch[Details(e)].gen = gen
              \/ /\ u.fetch[Details(e)] = NoFetch
                 /\ \E i \in DOMAIN u.events : Details(e) \in u.events[i].keys
    BY <1>1, <1>3, <1>4, <1>5, HandledKeepsAsked
  <2> QED BY <1>3, <2>1, <2>2
<1>6. /\ Sound(tree') /\ tree'.fetch = tree.fetch
      /\ \A e \in Databases :
           (asked[e] # None /\ asked[e] = gen /\ e # d) =>
              \/ tree'.fetch[Details(e)].gen = gen
              \/ /\ tree'.fetch[Details(e)] = NoFetch
                 /\ \E i \in DOMAIN tree'.events : Details(e) \in tree'.events[i].keys
  BY <1>1, <1>5
<1>7. /\ RowsAgree' /\ asked' \in [Databases -> 0..nextGen] /\ loading' \subseteq Databases
      /\ row' \in [Databases -> {"none", "running", "cancelled"}]
      /\ rows' \in [Databases -> {0, 1}]
      /\ \A e \in Databases : e # d => asked'[e] = asked[e]
      /\ asked'[d] # None => asked'[d] = asked[d] /\ ~StaleItem(d) /\ ~settled
  <2>1. CASE Retire(d)
    BY <2>1, RetireRows DEF TreeInv
  <2>2. CASE ~StaleItem(d) /\ ~settled /\ UNCHANGED <<asked, loading, row, rows>>
    <3>1. RowsAgree'
      BY <2>2, RowsKept DEF TreeInv
    <3> QED BY <2>2, <3>1 DEF TypeOK
  <2> QED BY <1>1, <2>1, <2>2
<1>8. ASSUME NEW e \in Databases, asked'[e] # None, asked'[e] = gen
      PROVE  \/ tree'.fetch[Details(e)].gen = gen
             \/ /\ tree'.fetch[Details(e)] = NoFetch
                /\ \E i \in DOMAIN tree'.events : Details(e) \in tree'.events[i].keys
  <2>1. CASE e = d
    <3>1. Pending(tree, k) /\ asked[d] # None /\ asked[d] = gen
      BY <1>7, <1>8, <2>1
    <3>2. tree.fetch[k].gen = gen
      BY <1>4, <3>1 DEF AskedIn, Pending
    <3> QED BY <1>6, <2>1, <3>2
  <2>2. CASE e # d
    BY <1>6, <1>7, <1>8, <2>2
  <2> QED BY <2>1, <2>2
<1>9. AskedIn(tree)'
  BY <1>1, <1>8 DEF AskedIn, manager
<1>10. TreeInv'
  BY <1>1, <1>4, <1>6, <1>7, <1>9, Unmarked
<1>11. TypeOK'
  BY <1>1, <1>2, <1>6, <1>7 DEF TypeOK, manager, Sound
<1> QED BY <1>10, <1>11

\* The other events: a Retry row may ask for the details of its table.
LEMMA OtherEventStep ==
    ASSUME TypeOK, TreeInv,
           \/ SettleList
           \/ \E d \in Databases, found, ok \in BOOLEAN :
                SettleDetailsRecoverySchema(d, found, ok)
    PROVE  TypeOK' /\ TreeInv'
<1>1. PICK k \in Keys :
        /\ Emitted(k) /\ \A d \in Databases : k # Details(d)
        /\ UNCHANGED <<manager, asked, loading, row, rows, superseded, requests>>
        /\ retry' \in [Databases -> Nat] /\ recovery' \in [Databases -> Nat]
        /\ \/ tree' = Handled(k)
           \/ \E d \in Databases, ok \in BOOLEAN :
                tree' = AskAgain(Handled(k), cached, Details(d), ok)
  <2>1. CASE SettleList
    BY <2>1, RequestKeys DEF SettleList, sidebar, TypeOK
  <2>2. ASSUME NEW d \in Databases, NEW found \in BOOLEAN, NEW ok \in BOOLEAN,
               SettleDetailsRecoverySchema(d, found, ok)
        PROVE  /\ Emitted(Schema(d))
               /\ UNCHANGED <<manager, asked, loading, row, rows, superseded, requests>>
               /\ retry' \in [Databases -> Nat] /\ recovery' \in [Databases -> Nat]
               /\ \/ tree' = Handled(Schema(d))
                  \/ tree' = AskAgain(Handled(Schema(d)), cached, Details(d), ok)
    <3>1. /\ Emitted(Schema(d))
          /\ UNCHANGED <<manager, asked, loading, row, rows, superseded, requests>>
          /\ \/ tree' = Handled(Schema(d))
             \/ tree' = AskAgain(Handled(Schema(d)), cached, Details(d), ok)
      BY <2>2 DEF SettleDetailsRecoverySchema
    <3>2. /\ recovery' = [recovery EXCEPT ![d] = None]
          /\ retry' = retry \/ retry' = [retry EXCEPT ![d] = None]
      BY <2>2 DEF SettleDetailsRecoverySchema
    <3> QED BY <3>1, <3>2 DEF TypeOK, None
  <2> QED BY <2>1, <2>2, RequestKeys
<1>2. Sound(tree) /\ superseded = {} /\ AskedIn(tree) /\ gen \in Nat
  BY <1>1, NextEvent DEF TypeOK
<1>3. ASSUME NEW h, h = Handled(k) PROVE Sound(h) /\ AskedIn(h)
  <2>1. Sound(h)
    BY <1>1, <1>2, <1>3, HandledEffect
  <2>2. \A d \in Databases :
           (asked[d] # None /\ asked[d] = gen /\ Details(d) # k) =>
              \/ h.fetch[Details(d)].gen = gen
              \/ /\ h.fetch[Details(d)] = NoFetch
                 /\ \E i \in DOMAIN h.events : Details(d) \in h.events[i].keys
    BY <1>1, <1>2, <1>3, HandledKeepsAsked
  <2> QED BY <1>1, <2>1, <2>2 DEF AskedIn
<1>4. Sound(tree') /\ AskedIn(tree')
  <2>1. CASE tree' = Handled(k)
    BY <1>3, <2>1
  <2>2. ASSUME NEW d \in Databases, NEW ok \in BOOLEAN,
               tree' = AskAgain(Handled(k), cached, Details(d), ok)
        PROVE  Sound(tree') /\ AskedIn(tree')
    <3>1. PICK h : h = Handled(k)
      OBVIOUS
    <3>2. Sound(h) /\ AskedIn(h) /\ Details(d) \in Keys
      BY <1>3, <3>1, RequestKeys
    <3>3. ASSUME NEW u, u = AskAgain(h, cached, Details(d), ok)
          PROVE  Sound(u) /\ AskedIn(u)
      <4>1. Replaces(h, u, Details(d))
        BY <1>2, <3>2, <3>3, AskAgainEffect
      <4>2. Advances(h, u)
        BY <4>1 DEF Replaces
      <4> QED BY <3>2, <4>2, AskedKept DEF Advances
    <3> QED BY <2>2, <3>1, <3>3
  <2> QED BY <1>1, <2>1, <2>2
<1>5. AskedIn(tree)'
  BY <1>1, <1>4 DEF AskedIn, manager
<1>6. RowsAgree'
  BY <1>1, RowsKept DEF TreeInv
<1>7. TreeInv'
  BY <1>1, <1>2, <1>4, <1>5, <1>6, Unmarked
<1>8. TypeOK'
  BY <1>1, <1>4 DEF TypeOK, manager, Sound
<1> QED BY <1>7, <1>8

\* Nothing is connected, pending or asked for at first.
LEMMA InitTree == Init => TypeOK /\ TreeInv
<1> SUFFICES ASSUME Init PROVE TypeOK /\ TreeInv
  OBVIOUS
<1>1. tree \in Trees
  <2>1. /\ [k \in Keys |-> NoFetch] \in [Keys -> Fetches]
        /\ [d \in Databases |-> NoInstall] \in [Databases -> Installs]
        /\ <<>> \in Seq(Events)
    BY Empty
  <2> QED BY <2>1 DEF Init, Trees
<1>2. TypeOK
  BY <1>1, TreeAssumption DEF Init, TypeOK, None
<1>3. /\ \A k \in Keys : tree.fetch[k] = NoFetch
      /\ \A d \in Databases : tree.install[d] = NoInstall
  BY DEF Init
<1>4. WaitersAgree /\ AttemptsHaveSessions(tree)
  BY <1>3, Empty DEF WaitersAgree, WaitersAgreeIn, AttemptsHaveSessions
<1>5. MarkHasEvent /\ AskedHasAttempt /\ RowsAgree
  BY DEF Init, MarkHasEvent, AskedHasAttempt, RowsAgree
<1> QED BY <1>2, <1>4, <1>5 DEF TreeInv

\* Every step keeps the invariant.
LEMMA TreeStep ==
    ASSUME TypeOK, TreeInv, [Next]_vars
    PROVE  TypeOK' /\ TreeInv'
<1>1. CASE Connect \/ Disconnect
  BY <1>1, SessionStep
<1>2. CASE \/ \E d \in Databases :
                OpenSlot(d) \/ TakeSlot(d) \/ InvalidateDatabaseCache(d)
           \/ \E d \in Databases, ok \in BOOLEAN : InstallArrives(d, ok)
           \/ \E k \in Keys : Store(k)
           \/ \E k \in Keys, ok \in BOOLEAN :
                \/ ConsumerRequest(k, ok) \/ ConsumerRetry(k, ok)
                \/ FetchArrives(k, ok)
  BY <1>2, ManagerStep
<1>3. ASSUME NEW d \in Databases, RetireStaleItem(d) \/ CancelRow(d)
      PROVE  TypeOK' /\ TreeInv'
  BY <1>3, PlainRequestStep
<1>4. ASSUME NEW d \in Databases, NEW ok \in BOOLEAN,
             EnsureTableDetails(d, ok) \/ RefreshTableDetails(d, ok) \/ RetryTable(d, ok)
      PROVE  TypeOK' /\ TreeInv'
  BY <1>4, EnsureStep, RefreshStep, PlainRequestStep
<1>5. CASE HandleEvent
  BY <1>5, SupersededStep, DetailsStep, OtherEventStep DEF HandleEvent
<1>6. CASE UNCHANGED vars
  BY <1>6 DEF vars, manager, sidebar, TypeOK, TreeInv, WaitersAgree, WaitersAgreeIn,
     AttemptsHaveSessions, MarkHasEvent, AskedHasAttempt, Awaited, RowsAgree, Quiet
<1> QED BY <1>1, <1>2, <1>3, <1>4, <1>5, <1>6 DEF Next

\* The inductive invariant.
LEMMA TreeInvariant == Spec => [](TypeOK /\ TreeInv)
<1>1. TypeOK /\ TreeInv /\ [Next]_vars => (TypeOK /\ TreeInv)'
  BY TreeStep
<1> QED BY InitTree, <1>1, PTL DEF Spec

\* Every variable keeps its type in every behaviour; in particular a table never
\* has two running refresh tasks, whoever starts, cancels or retires them.
THEOREM TypeCorrect == Spec => []TypeOK
  BY TreeInvariant, PTL

\* No request waits for an install that is gone, and no install resumes a request
\* that was cancelled or asked for anew (object_tree_defer_behind_install,
\* object_tree_cancel), for every set of databases and number of requests.
THEOREM WaitersAgreeHolds == Spec => []WaitersAgree
<1>1. TypeOK /\ TreeInv => WaitersAgree
  BY DEF TreeInv
<1> QED BY <1>1, TreeInvariant, PTL

\* Between handlers, a table asked for in this session has an attempt of this
\* session under way, and loading items, requests and refresh tasks agree
\* (settle_table_details, retire_stale_table_refresh).
THEOREM SpinnerHasAttemptHolds == Spec => []SpinnerHasAttempt
<1>1. TypeOK /\ TreeInv => SpinnerHasAttempt
  <2> SUFFICES ASSUME TypeOK, TreeInv, Quiet PROVE SpinnerHasAttempt
    BY DEF SpinnerHasAttempt
  <2> QED BY BetweenHandlers DEF TreeInv, RowsAgree, SpinnerHasAttempt
<1> QED BY <1>1, TreeInvariant, PTL

\* The mark by which the sidebar ignores its own cancellation is used up by the
\* event it was made for (ensure_table_details,
\* refresh_table_details_via_coordinator).
THEOREM NoStrayMarkHolds == Spec => []NoStrayMark
<1>1. TypeOK /\ TreeInv => NoStrayMark
  BY BetweenHandlers DEF NoStrayMark
<1> QED BY <1>1, TreeInvariant, PTL

\* A refresh task may end when its session did, or when nothing is pending.
RowMayEnd(d) == StaleItem(d) \/ ~Pending(tree, Details(d))
RowStep(d) == row[d] = "running" /\ row'[d] = "none" => RowMayEnd(d)

\* Only retiring an item, or its request being refused, ends a refresh task.
LEMMA RowEnds ==
    ASSUME TypeOK, Next
    PROVE  \A e \in Databases : RowStep(e)
<1>1. ASSUME NEW d \in Databases, RowMayEnd(d), row' = [row EXCEPT ![d] = "none"]
      PROVE  \A e \in Databases : RowStep(e)
  BY <1>1 DEF TypeOK, RowStep
<1>2. ASSUME row' = row PROVE \A e \in Databases : RowStep(e)
  BY <1>2 DEF RowStep
<1>3. ASSUME NEW d \in Databases, NEW x \in {"running", "cancelled"},
             row' = [row EXCEPT ![d] = x]
      PROVE  \A e \in Databases : RowStep(e)
  BY <1>3 DEF TypeOK, RowStep
<1>4. ASSUME NEW d \in Databases, RetireStaleItem(d) \/ CancelRow(d)
      PROVE  \A e \in Databases : RowStep(e)
  <2>1. \/ RowMayEnd(d) /\ row' = [row EXCEPT ![d] = "none"]
        \/ row' = [row EXCEPT ![d] = "cancelled"]
    BY <1>4 DEF RetireStaleItem, CancelRow, Retire, EndRow, RowMayEnd
  <2> QED BY <1>1, <1>3, <2>1
<1>5. ASSUME NEW d \in Databases, NEW ok \in BOOLEAN,
             EnsureTableDetails(d, ok) \/ RefreshTableDetails(d, ok) \/ RetryTable(d, ok)
      PROVE  \A e \in Databases : RowStep(e)
  <2>1. CASE EnsureTableDetails(d, ok)
    <3>1. row' = row \/ (RowMayEnd(d) /\ row' = [row EXCEPT ![d] = "none"])
      BY <2>1 DEF EnsureTableDetails, EndRow, RowMayEnd
    <3> QED BY <1>1, <1>2, <3>1
  <2>2. CASE RefreshTableDetails(d, ok)
    <3>1. \/ row' = [row EXCEPT ![d] = "running"]
          \/ RowMayEnd(d) /\ row' = [row EXCEPT ![d] = "none"]
          \/ row' = row
      BY <2>2 DEF RefreshTableDetails, Retire, EndRow, RowMayEnd
    <3> QED BY <1>1, <1>2, <1>3, <3>1
  <2>3. CASE RetryTable(d, ok)
    BY <1>2, <2>3 DEF RetryTable
  <2> QED BY <1>5, <2>1, <2>2, <2>3
<1>6. CASE HandleEvent
  <2>1. ASSUME NEW d \in Databases, SettleTableDetails(d)
        PROVE  \A e \in Databases : RowStep(e)
    <3>1. row' = row \/ (RowMayEnd(d) /\ row' = [row EXCEPT ![d] = "none"])
      BY <2>1 DEF SettleTableDetails, Retire, EndRow, RowMayEnd
    <3> QED BY <1>1, <1>2, <3>1
  <2>2. CASE \/ SettleList
             \/ \E d \in Databases : SettleSuperseded(d)
             \/ \E d \in Databases : \E found, ok \in BOOLEAN :
                  SettleDetailsRecoverySchema(d, found, ok)
    BY <1>2, <2>2 DEF SettleList, SettleSuperseded, SettleDetailsRecoverySchema, sidebar
  <2> QED BY <1>6, <2>1, <2>2 DEF HandleEvent
<1>7. CASE \/ Connect \/ Disconnect
           \/ \E d \in Databases :
                OpenSlot(d) \/ TakeSlot(d) \/ InvalidateDatabaseCache(d)
           \/ \E d \in Databases, ok \in BOOLEAN : InstallArrives(d, ok)
           \/ \E k \in Keys : Store(k)
           \/ \E k \in Keys, ok \in BOOLEAN :
                \/ ConsumerRequest(k, ok) \/ ConsumerRetry(k, ok)
                \/ FetchArrives(k, ok)
  BY <1>2, <1>7 DEF Connect, Disconnect, OpenSlot, TakeSlot, InvalidateDatabaseCache,
     InstallArrives, Store, ConsumerRequest, ConsumerRetry, FetchArrives, sidebar
<1> QED BY <1>4, <1>5, <1>6, <1>7 DEF Next

\* A refresh task of the current session ends only when no attempt for its
\* table is under way, whoever cancels, retries or shares the attempt and
\* whatever the manager does to it (settle_table_details).
THEOREM RefreshOutlivesAttemptHolds == Spec => RefreshOutlivesAttempt
<1>1. TypeOK /\ [Next]_vars
        => [\A d \in Databases :
              (/\ row[d] = "running" /\ row'[d] = "none"
               /\ asked[d] = gen)
                 => ~Pending(tree, Details(d))]_vars
  <2> SUFFICES ASSUME TypeOK, Next, NEW d \in Databases,
                      row[d] = "running", row'[d] = "none", asked[d] = gen
               PROVE  ~Pending(tree, Details(d))
    OBVIOUS
  <2>1. RowStep(d)
    BY RowEnds
  <2> QED BY <2>1 DEF RowStep, RowMayEnd, StaleItem
<1> QED BY <1>1, TypeCorrect, PTL DEF Spec, RefreshOutlivesAttempt
=============================================================================
