--------------------- MODULE DatabaseConnectionProofs ---------------------
(***************************************************************************)
(* Theorems about DatabaseConnection, for any number of scrapers, metric   *)
(* goroutines and handles, and with or without the deadline race.          *)
(***************************************************************************)
EXTENDS DatabaseConnection, TLAPS

-----------------------------------------------------------------------------
(* The inductive invariant, in named parts                                 *)

\* e.mu: a scraper is active exactly when it holds the exporter's mutex.
MutexInv == \A s \in Scrapers : pc[s] # "idle" <=> mu = s

\* The readiness flag is the last thing the warmup sets.
StartupInv == startupReady <=> pc[Warmer] = "done"

\* Metric goroutines live inside the scrape that forked them.
WorkersInv == \A w \in Workers : pc[w] # "idle" => \E s \in Scrapers : pc[s] = "wait"

\* Inside a ping or a query the read lock is held and the handle is the session.
ReadersInv ==
  \A a \in Actors : pc[a] \in ReadPoints =>
    a \in readers /\ using[a] = session /\ session # NoHandle

\* A warmup works on the session, a reconnect on a handle of its own.
UsingInv ==
  /\ \A a \in Actors : using[a] # NoHandle =>
       pc[a] \in ReadPoints \cup {"warming"} \/ (a \in Scrapers /\ pc[a] = "publish")
  /\ pc[Warmer] = "warming" => using[Warmer] = session /\ session # NoHandle
  /\ \A s \in Scrapers : pc[s] \in {"warming", "publish"} =>
       using[s] \in Handles /\ using[s] # session /\ handle[using[s]] = "open"

SessionInv == session # NoHandle => handle[session] = "open"

OwnershipInv ==
  /\ TypeOK
  /\ MutexInv
  /\ StartupInv
  /\ WorkersInv
  /\ NoTrafficDuringWarmup
  /\ ReadersInv
  /\ UsingInv
  /\ SessionInv
  /\ NoHandleLeak

\* While the warmup runs nobody has started a backoff; a raised up flag under a
\* backoff is about to clear it; a backoff is only begun with the flag down.
HealthInv ==
  /\ pc[Warmer] \notin {"ready", "done"} => invalid = "nil"
  /\ up = 1 /\ invalid = "future" => \E s \in Scrapers : pc[s] = "clear"
  /\ \A a \in Scrapers \cup {Warmer} : pc[a] = "invalidate" => up = 0

-----------------------------------------------------------------------------
(* Type correctness                                                        *)

\* Scrapers, metric goroutines, the warmup and the alert log are distinct actors.
LEMMA ActorsDistinct ==
  /\ Scrapers \subseteq Actors /\ Workers \subseteq Actors
  /\ Warmer \in Actors /\ AlertLog \in Actors /\ NoActor \notin Actors
  /\ Warmer \notin Scrapers \cup Workers
  /\ AlertLog \notin Scrapers \cup Workers
  /\ Warmer # AlertLog
  /\ \A s \in Scrapers : s \notin Workers
BY ActorsAssumption DEF Actors, Warmer, AlertLog, NoActor

LEMMA TypeInit == Init => TypeOK
BY ActorsDistinct DEF Init, TypeOK, ScraperPoints, WorkerPoints, WarmerPoints, AlertPoints

LEMMA TypeStep == TypeOK /\ [Next]_vars => TypeOK'
<1> SUFFICES ASSUME TypeOK, [Next]_vars PROVE TypeOK'
  OBVIOUS
<1> USE ActorsDistinct DEF TypeOK, fields, locks, At, Goto, Take, Drop, CanRLock, RLock,
      RUnlock, Locked, ScraperPoints, WorkerPoints, WarmerPoints, AlertPoints,
      ReconnectPoints, LockPoints, DownPoints
<1>1. CASE WarmupNext
  <2>1. CASE WarmCopy
    BY <2>1 DEF WarmCopy
  <2>2. CASE WarmSession
    BY <2>2 DEF WarmSession
  <2>3. CASE WarmReady
    BY <2>3 DEF WarmReady
  <2> QED
    BY <1>1, <2>1, <2>2, <2>3 DEF WarmupNext
<1>2. ASSUME NEW s \in Scrapers, ScrapeNext(s) PROVE TypeOK'
  <2>1. CASE ScrapeStart(s) \/ ScrapeIsValid(s) \/ ScrapeStartupReady(s)
    BY <2>1 DEF ScrapeStart, ScrapeIsValid, ScrapeStartupReady
  <2>2. CASE PingBegin(s) \/ PingEnd(s)
    BY <2>2 DEF PingBegin, PingEnd
  <2>3. CASE ScrapeMetrics(s) \/ ScrapeWait(s) \/ ScrapeReport(s)
    BY <2>3 DEF ScrapeMetrics, ScrapeWait, ScrapeReport
  <2>4. CASE ReconnectBegin(s) \/ Connect(s) \/ ReconnectWarm(s)
    BY <2>4 DEF ReconnectBegin, Connect, ReconnectWarm
  <2>5. CASE ReconnectFail(s)
    BY <2>5 DEF ReconnectFail
  <2>6. CASE ReconnectPublish(s)
    <3>1. handle' \in [Handles -> {"unused", "open", "closed"}]
      BY <2>6 DEF ReconnectPublish, Retire
    <3> QED
      BY <2>6, <3>1 DEF ReconnectPublish
  <2> QED
    BY <1>2, <2>1, <2>2, <2>3, <2>4, <2>5, <2>6 DEF ScrapeNext
<1>3. ASSUME NEW w \in Workers, MetricNext(w) PROVE TypeOK'
  BY <1>3 DEF MetricNext, MetricSkip, QueryLate, QueryNext, QueryBegin, QueryFail, QueryRows,
     RowsDone
<1>4. CASE AlertNext
  BY <1>4 DEF AlertNext, AlertTick, AlertIsValid, QueryNext, QueryBegin, QueryFail, QueryRows,
     RowsDone
<1>5. ASSUME NEW a \in Scrapers \cup {Warmer}, LockNext(a) PROVE TypeOK'
  BY <1>5 DEF LockNext, AnnounceLock, SetUp, ClearInvalid, AfterClear, SetDown, AfterDown,
     DownFlag, Invalidate
<1>6. CASE EnvNext
  BY <1>6 DEF EnvNext, BackoffExpires, ReachabilityChanges
<1>7. CASE UNCHANGED vars
  BY <1>7 DEF vars
<1> QED
  BY <1>1, <1>2, <1>3, <1>4, <1>5, <1>6, <1>7 DEF Next

\* Every field, lock and control point of the connection keeps its type.
THEOREM TypeCorrect == Spec => []TypeOK
BY TypeInit, TypeStep, PTL DEF Spec

-----------------------------------------------------------------------------
(* The ownership invariant                                                 *)

LEMMA OwnershipInit == Init => OwnershipInv
<1> SUFFICES ASSUME Init PROVE OwnershipInv
  OBVIOUS
<1>1. TypeOK
  BY TypeInit
<1> QED
  BY <1>1, ActorsDistinct, HandlesAssumption
  DEF Init, OwnershipInv, MutexInv, StartupInv, WorkersInv, NoTrafficDuringWarmup, ReadersInv,
      UsingInv, SessionInv, NoHandleLeak, ReadPoints, At, Warmer

LEMMA OwnershipStep == OwnershipInv /\ [Next]_vars => OwnershipInv'
<1> SUFFICES ASSUME OwnershipInv, [Next]_vars PROVE OwnershipInv'
  OBVIOUS
<1>0. TypeOK'
  BY TypeStep DEF OwnershipInv
<1> USE <1>0, ActorsDistinct, HandlesAssumption
    DEF OwnershipInv, TypeOK, MutexInv, StartupInv, WorkersInv, NoTrafficDuringWarmup,
        ReadersInv, UsingInv, SessionInv, NoHandleLeak, ReadPoints, fields, locks, At, Goto,
        Take, Drop, CanRLock, RLock, RUnlock, Locked
<1>1. CASE WarmupNext
  <2>1. CASE WarmCopy
    BY <2>1 DEF WarmCopy
  <2>2. CASE WarmSession
    BY <2>2 DEF WarmSession
  <2>3. CASE WarmReady
    BY <2>3 DEF WarmReady
  <2> QED
    BY <1>1, <2>1, <2>2, <2>3 DEF WarmupNext
<1>2. ASSUME NEW s \in Scrapers, ScrapeNext(s) PROVE OwnershipInv'
  <2>1. CASE ScrapeStart(s)
    BY <2>1 DEF ScrapeStart
  <2>2. CASE ScrapeIsValid(s)
    BY <2>2 DEF ScrapeIsValid
  <2>3. CASE ScrapeStartupReady(s)
    BY <2>3 DEF ScrapeStartupReady, StartupReady
  <2>4. CASE PingBegin(s)
    BY <2>4 DEF PingBegin
  <2>5. CASE PingEnd(s)
    BY <2>5 DEF PingEnd, DownPoints
  <2>6. CASE ScrapeMetrics(s)
    BY <2>6 DEF ScrapeMetrics
  <2>7. CASE ScrapeWait(s)
    BY <2>7 DEF ScrapeWait
  <2>8. CASE ScrapeReport(s)
    BY <2>8 DEF ScrapeReport
  <2>9. CASE ReconnectBegin(s)
    BY <2>9 DEF ReconnectBegin
  <2>10. CASE Connect(s)
    BY <2>10 DEF Connect, Fresh
  <2>11. CASE ReconnectWarm(s)
    BY <2>11 DEF ReconnectWarm
  <2>12. CASE ReconnectFail(s)
    BY <2>12 DEF ReconnectFail
  <2>13. CASE ReconnectPublish(s)
    BY <2>13 DEF ReconnectPublish, Retire
  <2> QED
    BY <1>2, <2>1, <2>2, <2>3, <2>4, <2>5, <2>6, <2>7, <2>8, <2>9, <2>10, <2>11, <2>12, <2>13 DEF ScrapeNext
<1>3. ASSUME NEW w \in Workers, MetricNext(w) PROVE OwnershipInv'
  <2>1. CASE MetricSkip(w)
    BY <2>1 DEF MetricSkip
  <2>2. CASE QueryLate(w)
    BY <2>2 DEF QueryLate
  <2>3. CASE QueryBegin(w)
    BY <2>3 DEF QueryBegin
  <2>4. CASE QueryFail(w)
    BY <2>4 DEF QueryFail
  <2>5. CASE QueryRows(w)
    BY <2>5 DEF QueryRows
  <2>6. CASE RowsDone(w)
    BY <2>6 DEF RowsDone
  <2> QED
    BY <1>3, <2>1, <2>2, <2>3, <2>4, <2>5, <2>6 DEF MetricNext, QueryNext
<1>4. CASE AlertNext
  <2>1. CASE AlertTick
    BY <2>1 DEF AlertTick, StartupReady
  <2>2. CASE AlertIsValid
    BY <2>2 DEF AlertIsValid
  <2>3. CASE QueryBegin(AlertLog)
    BY <2>3 DEF QueryBegin
  <2>4. CASE QueryFail(AlertLog)
    BY <2>4 DEF QueryFail
  <2>5. CASE QueryRows(AlertLog)
    BY <2>5 DEF QueryRows
  <2>6. CASE RowsDone(AlertLog)
    BY <2>6 DEF RowsDone
  <2> QED
    BY <1>4, <2>1, <2>2, <2>3, <2>4, <2>5, <2>6 DEF AlertNext, QueryNext
<1>5. ASSUME NEW a \in Scrapers \cup {Warmer}, LockNext(a) PROVE OwnershipInv'
  <2>1. CASE AnnounceLock(a)
    BY <2>1 DEF AnnounceLock
  <2>2. CASE SetUp(a)
    BY <2>2 DEF SetUp
  <2>3. CASE ClearInvalid(a)
    BY <2>3 DEF ClearInvalid, AfterClear
  <2>4. CASE SetDown(a)
    BY <2>4 DEF SetDown, AfterDown, DownPoints
  <2>5. CASE Invalidate(a)
    BY <2>5 DEF Invalidate
  <2> QED
    BY <1>5, <2>1, <2>2, <2>3, <2>4, <2>5 DEF LockNext
<1>6. CASE EnvNext
  BY <1>6 DEF EnvNext, BackoffExpires, ReachabilityChanges
<1>7. CASE UNCHANGED vars
  BY <1>7 DEF vars
<1> QED
  BY <1>1, <1>2, <1>3, <1>4, <1>5, <1>6, <1>7 DEF Next
\* The whole ownership argument holds in every reachable state.
THEOREM OwnershipCorrect == Spec => []OwnershipInv
BY OwnershipInit, OwnershipStep, PTL DEF Spec

\* Whatever a goroutine pings, queries, reads from or warms is an open handle: reconnect
\* closes the old one in a section no reader and no warmup can be in.
THEOREM SessionsInUseAreOpen == Spec => []NoUseAfterClose
<1>1. OwnershipInv => NoUseAfterClose
  BY ActorsDistinct
  DEF OwnershipInv, TypeOK, ReadersInv, UsingInv, SessionInv, NoUseAfterClose, ReadPoints,
      Actors, WorkerPoints, AlertPoints
<1> QED
  BY <1>1, OwnershipCorrect, PTL

\* Every open handle is the published session or belongs to the reconnect that opened it.
THEOREM HandlesAreClosed == Spec => []NoHandleLeak
<1>1. OwnershipInv => NoHandleLeak
  BY DEF OwnershipInv
<1> QED
  BY <1>1, OwnershipCorrect, PTL

\* No scrape, reconnect or alert log query touches a database before its warmup is over.
THEOREM WarmupIsAlone == Spec => []NoTrafficDuringWarmup
<1>1. OwnershipInv => NoTrafficDuringWarmup
  BY DEF OwnershipInv
<1> QED
  BY <1>1, OwnershipCorrect, PTL

-----------------------------------------------------------------------------
(* The read lock                                                           *)

LEMMA LockStep ==
  ASSUME DeadlineRaces = FALSE, OwnershipInv, LockReleased, [Next]_vars
  PROVE  LockReleased'
<1> USE ActorsDistinct
    DEF OwnershipInv, TypeOK, MutexInv, WorkersInv, LockReleased, ReadPoints, fields, locks,
        At, Goto, Take, Drop, CanRLock, RLock, RUnlock, Locked
<1>1. CASE WarmupNext
  <2>1. CASE WarmCopy
    BY <2>1 DEF WarmCopy
  <2>2. CASE WarmSession
    BY <2>2 DEF WarmSession
  <2>3. CASE WarmReady
    BY <2>3 DEF WarmReady
  <2> QED
    BY <1>1, <2>1, <2>2, <2>3 DEF WarmupNext
<1>2. ASSUME NEW s \in Scrapers, ScrapeNext(s) PROVE LockReleased'
  <2>1. CASE ScrapeStart(s)
    BY <2>1 DEF ScrapeStart
  <2>2. CASE ScrapeIsValid(s)
    BY <2>2 DEF ScrapeIsValid
  <2>3. CASE ScrapeStartupReady(s)
    BY <2>3 DEF ScrapeStartupReady, StartupReady
  <2>4. CASE PingBegin(s)
    BY <2>4 DEF PingBegin
  <2>5. CASE PingEnd(s)
    BY <2>5 DEF PingEnd, DownPoints
  <2>6. CASE ScrapeMetrics(s)
    BY <2>6 DEF ScrapeMetrics
  <2>7. CASE ScrapeWait(s)
    BY <2>7 DEF ScrapeWait
  <2>8. CASE ScrapeReport(s)
    BY <2>8 DEF ScrapeReport
  <2>9. CASE ReconnectBegin(s)
    BY <2>9 DEF ReconnectBegin
  <2>10. CASE Connect(s)
    BY <2>10 DEF Connect
  <2>11. CASE ReconnectWarm(s)
    BY <2>11 DEF ReconnectWarm
  <2>12. CASE ReconnectFail(s)
    BY <2>12 DEF ReconnectFail
  <2>13. CASE ReconnectPublish(s)
    BY <2>13 DEF ReconnectPublish, Retire
  <2> QED
    BY <1>2, <2>1, <2>2, <2>3, <2>4, <2>5, <2>6, <2>7, <2>8, <2>9, <2>10, <2>11, <2>12, <2>13 DEF ScrapeNext
<1>3. ASSUME NEW w \in Workers, MetricNext(w) PROVE LockReleased'
  <2>1. CASE MetricSkip(w)
    BY <2>1 DEF MetricSkip
  <2>2. CASE QueryLate(w)
    BY <2>2 DEF QueryLate
  <2>3. CASE QueryBegin(w)
    BY <2>3 DEF QueryBegin
  <2>4. CASE QueryFail(w)
    BY <2>4 DEF QueryFail
  <2>5. CASE QueryRows(w)
    BY <2>5 DEF QueryRows
  <2>6. CASE RowsDone(w)
    BY <2>6 DEF RowsDone
  <2> QED
    BY <1>3, <2>1, <2>2, <2>3, <2>4, <2>5, <2>6 DEF MetricNext, QueryNext
<1>4. CASE AlertNext
  <2>1. CASE AlertTick
    BY <2>1 DEF AlertTick, StartupReady
  <2>2. CASE AlertIsValid
    BY <2>2 DEF AlertIsValid
  <2>3. CASE QueryBegin(AlertLog)
    BY <2>3 DEF QueryBegin
  <2>4. CASE QueryFail(AlertLog)
    BY <2>4 DEF QueryFail
  <2>5. CASE QueryRows(AlertLog)
    BY <2>5 DEF QueryRows
  <2>6. CASE RowsDone(AlertLog)
    BY <2>6 DEF RowsDone
  <2> QED
    BY <1>4, <2>1, <2>2, <2>3, <2>4, <2>5, <2>6 DEF AlertNext, QueryNext
<1>5. ASSUME NEW a \in Scrapers \cup {Warmer}, LockNext(a) PROVE LockReleased'
  <2>1. CASE AnnounceLock(a)
    BY <2>1 DEF AnnounceLock
  <2>2. CASE SetUp(a)
    BY <2>2 DEF SetUp
  <2>3. CASE ClearInvalid(a)
    BY <2>3 DEF ClearInvalid, AfterClear
  <2>4. CASE SetDown(a)
    BY <2>4 DEF SetDown, AfterDown, DownPoints
  <2>5. CASE Invalidate(a)
    BY <2>5 DEF Invalidate
  <2> QED
    BY <1>5, <2>1, <2>2, <2>3, <2>4, <2>5 DEF LockNext
<1>6. CASE EnvNext
  BY <1>6 DEF EnvNext, BackoffExpires, ReachabilityChanges
<1>7. CASE UNCHANGED vars
  BY <1>7 DEF vars
<1> QED
  BY <1>1, <1>2, <1>3, <1>4, <1>5, <1>6, <1>7 DEF Next

\* If QueryContext never returns rows after its deadline, the read lock is always held by
\* exactly the goroutines inside a ping or a query.
THEOREM LockIsReleased == DeadlineRaces = FALSE => (Spec => []LockReleased)
<1> SUFFICES ASSUME DeadlineRaces = FALSE PROVE Spec => []LockReleased
  OBVIOUS
<1>1. Init => LockReleased
  BY DEF Init, LockReleased, ReadPoints
<1>2. OwnershipInv /\ LockReleased /\ [Next]_vars => LockReleased'
  BY LockStep
<1> QED
  BY <1>1, <1>2, OwnershipCorrect, PTL DEF Spec

-----------------------------------------------------------------------------
(* No deadlock                                                             *)

\* The writer is on its way through Lock, and reconnectAttemptMU is held in a reconnect.
LocksInv ==
  /\ writer # NoActor => writer \in Scrapers \cup {Warmer} /\ pc[writer] \in LockPoints
  /\ attemptMU # NoActor => attemptMU \in Scrapers /\ pc[attemptMU] \in ReconnectPoints

\* A goroutine waits for another one: for the read lock or the write lock of reconnectMU,
\* for e.mu, for reconnectAttemptMU or for its metric goroutines.
Waits(a) ==
  \/ pc[a] \in {"copy", "valid", "ping", "report", "query"} /\ ~CanRLock
  \/ pc[a] \in LockPoints /\ IF writer = a THEN readers # {} ELSE writer # NoActor
  \/ a \in Scrapers /\ pc[a] = "idle" /\ mu # NoActor
  \/ pc[a] = "connect" /\ attemptMU # NoActor
  \/ pc[a] = "wait" /\ \E w \in Workers : pc[w] # "idle"

\* Goroutines never all wait for each other, unless the read lock was never released.
NoDeadlock ==
  LockReleased /\ (\E a \in Actors : Waits(a)) =>
    \E b \in Actors : pc[b] \notin {"idle", "done"} /\ ~Waits(b)

\* Every step keeps the writer at a lock point and the mutex's holder in its reconnect.
LEMMA LocksStep == OwnershipInv /\ LocksInv /\ [Next]_vars => LocksInv'
<1> SUFFICES ASSUME OwnershipInv, LocksInv, [Next]_vars PROVE LocksInv'
  OBVIOUS
<1> USE ActorsDistinct
    DEF OwnershipInv, TypeOK, LocksInv, fields, locks, At, Goto, Take, Drop, Locked, LockPoints,
        ReconnectPoints, DownPoints, WorkerPoints, AlertPoints
<1>1. CASE WarmupNext
  BY <1>1 DEF WarmupNext, WarmCopy, WarmSession, WarmReady
<1>2. ASSUME NEW s \in Scrapers, ScrapeNext(s) PROVE LocksInv'
  <2>1. CASE ScrapeStart(s) \/ ScrapeIsValid(s) \/ ScrapeStartupReady(s)
    BY <2>1 DEF ScrapeStart, ScrapeIsValid, ScrapeStartupReady
  <2>2. CASE PingBegin(s) \/ PingEnd(s)
    BY <2>2 DEF PingBegin, PingEnd
  <2>3. CASE ScrapeMetrics(s)
    BY <2>3 DEF ScrapeMetrics
  <2>4. CASE ScrapeWait(s) \/ ScrapeReport(s)
    BY <2>4 DEF ScrapeWait, ScrapeReport
  <2>5. CASE ReconnectBegin(s)
    BY <2>5 DEF ReconnectBegin
  <2>6. CASE Connect(s)
    BY <2>6 DEF Connect
  <2>7. CASE ReconnectWarm(s)
    BY <2>7 DEF ReconnectWarm
  <2>8. CASE ReconnectFail(s) \/ ReconnectPublish(s)
    BY <2>8 DEF ReconnectFail, ReconnectPublish
  <2> QED
    BY <1>2, <2>1, <2>2, <2>3, <2>4, <2>5, <2>6, <2>7, <2>8 DEF ScrapeNext
<1>3. ASSUME NEW w \in Workers, MetricNext(w) PROVE LocksInv'
  BY <1>3 DEF MetricNext, MetricSkip, QueryLate, QueryNext, QueryBegin, QueryFail, QueryRows,
     RowsDone
<1>4. CASE AlertNext
  BY <1>4 DEF AlertNext, AlertTick, AlertIsValid, QueryNext, QueryBegin, QueryFail, QueryRows,
     RowsDone
<1>5. ASSUME NEW a \in Scrapers \cup {Warmer}, LockNext(a) PROVE LocksInv'
  <2>1. CASE AnnounceLock(a)
    BY <2>1 DEF AnnounceLock
  <2>2. CASE SetUp(a) \/ ClearInvalid(a)
    BY <2>2 DEF SetUp, ClearInvalid, AfterClear
  <2>3. CASE SetDown(a)
    BY <2>3 DEF SetDown, AfterDown
  <2>4. CASE Invalidate(a)
    BY <2>4 DEF Invalidate
  <2> QED
    BY <1>5, <2>1, <2>2, <2>3, <2>4 DEF LockNext
<1>6. CASE EnvNext
  BY <1>6 DEF EnvNext, BackoffExpires, ReachabilityChanges
<1>7. CASE UNCHANGED vars
  BY <1>7 DEF vars
<1> QED
  BY <1>1, <1>2, <1>3, <1>4, <1>5, <1>6, <1>7 DEF Next

\* The locks of a database, the exporter's mutex and the WaitGroup of a scrape never
\* deadlock: whoever holds the read lock waits for nobody, the writer waits for readers only,
\* and whoever holds e.mu or reconnectAttemptMU for the writer or for metric goroutines.
THEOREM LocksNeverDeadlock == Spec => []NoDeadlock
<1>1. Init => LocksInv
  BY DEF Init, LocksInv
<1>2. OwnershipInv /\ LocksInv => NoDeadlock
  <2> SUFFICES ASSUME OwnershipInv, LocksInv, LockReleased, NEW a \in Actors, Waits(a)
               PROVE  \E b \in Actors : pc[b] \notin {"idle", "done"} /\ ~Waits(b)
    BY DEF NoDeadlock
  <2> USE ActorsDistinct DEF Waits, CanRLock, LockPoints, DownPoints, ReadPoints, WorkerPoints
  <2>1. ASSUME NEW r \in readers
        PROVE  r \in Actors /\ pc[r] \notin {"idle", "done"} /\ ~Waits(r)
    BY DEF LockReleased
  <2>2. CASE readers = {} /\ writer # NoActor
    BY <2>2 DEF LocksInv
  <2>3. CASE readers = {} /\ writer = NoActor
    <3>1. ASSUME NEW w \in Workers, pc[w] # "idle" PROVE pc[w] # "done" /\ ~Waits(w)
      BY <2>3, <3>1 DEF OwnershipInv, TypeOK
    <3>2. \A s \in Scrapers : pc[s] = "connect" => attemptMU = NoActor
      BY DEF LocksInv, OwnershipInv, MutexInv, ReconnectPoints
    <3>3. CASE \E w \in Workers : pc[w] # "idle"
      BY <3>1, <3>3
    <3>4. CASE a \in Scrapers /\ pc[a] = "idle" /\ mu # NoActor
      <4>1. mu \in Scrapers /\ pc[mu] # "idle" /\ pc[mu] # "done"
        BY <3>4 DEF OwnershipInv, TypeOK, MutexInv, ScraperPoints, ReconnectPoints
      <4> QED
        BY <2>3, <3>2, <3>3, <4>1
    <3>5. CASE pc[a] = "connect"
      <4>1. a \in Scrapers
        BY <3>5 DEF OwnershipInv, TypeOK, Actors, WarmerPoints, AlertPoints
      <4> QED
        BY <2>3, <3>2, <3>5, <4>1
    <3> QED
      BY <2>3, <3>3, <3>4, <3>5
  <2> QED
    BY <2>1, <2>2, <2>3
<1> QED
  BY <1>1, <1>2, LocksStep, OwnershipCorrect, PTL DEF Spec

-----------------------------------------------------------------------------
(* The exported health                                                     *)

LEMMA HealthStep == OwnershipInv /\ HealthInv /\ [Next]_vars => HealthInv'
<1> SUFFICES ASSUME OwnershipInv, HealthInv, [Next]_vars PROVE HealthInv'
  OBVIOUS
<1> USE ActorsDistinct
    DEF OwnershipInv, TypeOK, MutexInv, NoTrafficDuringWarmup, HealthInv, fields, locks, At,
        Goto, Take, Drop, Locked
<1>1. CASE WarmupNext
  <2>1. CASE WarmCopy
    BY <2>1 DEF WarmCopy
  <2>2. CASE WarmSession
    BY <2>2 DEF WarmSession
  <2>3. CASE WarmReady
    BY <2>3 DEF WarmReady
  <2> QED
    BY <1>1, <2>1, <2>2, <2>3 DEF WarmupNext
<1>2. ASSUME NEW s \in Scrapers, ScrapeNext(s) PROVE HealthInv'
  <2>1. CASE ScrapeStart(s)
    BY <2>1 DEF ScrapeStart
  <2>2. CASE ScrapeIsValid(s)
    BY <2>2 DEF ScrapeIsValid
  <2>3. CASE ScrapeStartupReady(s)
    BY <2>3 DEF ScrapeStartupReady, StartupReady
  <2>4. CASE PingBegin(s)
    BY <2>4 DEF PingBegin
  <2>5. CASE PingEnd(s)
    BY <2>5 DEF PingEnd, DownPoints
  <2>6. CASE ScrapeMetrics(s)
    BY <2>6 DEF ScrapeMetrics
  <2>7. CASE ScrapeWait(s)
    BY <2>7 DEF ScrapeWait
  <2>8. CASE ScrapeReport(s)
    BY <2>8 DEF ScrapeReport
  <2>9. CASE ReconnectBegin(s)
    BY <2>9 DEF ReconnectBegin
  <2>10. CASE Connect(s)
    BY <2>10 DEF Connect
  <2>11. CASE ReconnectWarm(s)
    BY <2>11 DEF ReconnectWarm
  <2>12. CASE ReconnectFail(s)
    BY <2>12 DEF ReconnectFail
  <2>13. CASE ReconnectPublish(s)
    BY <2>13 DEF ReconnectPublish, Retire
  <2> QED
    BY <1>2, <2>1, <2>2, <2>3, <2>4, <2>5, <2>6, <2>7, <2>8, <2>9, <2>10, <2>11, <2>12, <2>13 DEF ScrapeNext
<1>3. ASSUME NEW w \in Workers, MetricNext(w) PROVE HealthInv'
  <2>1. CASE MetricSkip(w)
    BY <2>1 DEF MetricSkip
  <2>2. CASE QueryLate(w)
    BY <2>2 DEF QueryLate
  <2>3. CASE QueryBegin(w)
    BY <2>3 DEF QueryBegin
  <2>4. CASE QueryFail(w)
    BY <2>4 DEF QueryFail
  <2>5. CASE QueryRows(w)
    BY <2>5 DEF QueryRows
  <2>6. CASE RowsDone(w)
    BY <2>6 DEF RowsDone
  <2> QED
    BY <1>3, <2>1, <2>2, <2>3, <2>4, <2>5, <2>6 DEF MetricNext, QueryNext
<1>4. CASE AlertNext
  <2>1. CASE AlertTick
    BY <2>1 DEF AlertTick, StartupReady
  <2>2. CASE AlertIsValid
    BY <2>2 DEF AlertIsValid
  <2>3. CASE QueryBegin(AlertLog)
    BY <2>3 DEF QueryBegin
  <2>4. CASE QueryFail(AlertLog)
    BY <2>4 DEF QueryFail
  <2>5. CASE QueryRows(AlertLog)
    BY <2>5 DEF QueryRows
  <2>6. CASE RowsDone(AlertLog)
    BY <2>6 DEF RowsDone
  <2> QED
    BY <1>4, <2>1, <2>2, <2>3, <2>4, <2>5, <2>6 DEF AlertNext, QueryNext
<1>5. ASSUME NEW a \in Scrapers \cup {Warmer}, LockNext(a) PROVE HealthInv'
  <2>1. CASE AnnounceLock(a)
    BY <2>1 DEF AnnounceLock
  <2>2. CASE SetUp(a)
    BY <2>2 DEF SetUp
  <2>3. CASE ClearInvalid(a)
    BY <2>3 DEF ClearInvalid, AfterClear
  <2>4. CASE SetDown(a)
    BY <2>4 DEF SetDown, AfterDown, DownPoints, DownFlag
  <2>5. CASE Invalidate(a)
    BY <2>5 DEF Invalidate
  <2> QED
    BY <1>5, <2>1, <2>2, <2>3, <2>4, <2>5 DEF LockNext
<1>6. CASE EnvNext
  BY <1>6 DEF EnvNext, BackoffExpires, ReachabilityChanges
<1>7. CASE UNCHANGED vars
  BY <1>7 DEF vars
<1> QED
  BY <1>1, <1>2, <1>3, <1>4, <1>5, <1>6, <1>7 DEF Next

\* The exporter never reports up = 1 for a database it refuses to scrape.
THEOREM ReportedHealthIsConsistent == Spec => NeverUpInBackoff
<1>1. Init => HealthInv
  BY ActorsDistinct DEF Init, HealthInv, Warmer
<1>2. Spec => []HealthInv
  BY <1>1, HealthStep, OwnershipCorrect, PTL DEF Spec
<1>3. OwnershipInv /\ HealthInv /\ [Next]_vars =>
        [\A s \in Scrapers : ScrapeReport(s) => ~(reported' = 1 /\ invalid = "future")]_vars
  BY DEF OwnershipInv, HealthInv, MutexInv, ScrapeReport, At
<1> QED
  BY <1>2, <1>3, OwnershipCorrect, PTL DEF Spec, NeverUpInBackoff
-----------------------------------------------------------------------------
(* The connection implements exclusive replacement of a shared handle      *)

LEMMA RefinementInit == Init => Ownership!Init
BY ActorsDistinct
DEF Init, Ownership!Init, Borrowed, BorrowPoints, ReadPoints, Warmer

\* What a step does to the two variables of the abstract specification.
Stutter == session' = session /\ \A b \in Actors : Borrowed'[b] = Borrowed[b]
Lend(a) ==
  /\ session' = session /\ session # NoHandle /\ Borrowed[a] = NoHandle
  /\ \A b \in Actors : Borrowed'[b] = IF b = a THEN session ELSE Borrowed[b]
Back(a) ==
  /\ session' = session /\ Borrowed[a] # NoHandle
  /\ \A b \in Actors : Borrowed'[b] = IF b = a THEN NoHandle ELSE Borrowed[b]
Swap(h) ==
  /\ session' = h /\ h # session
  /\ \A b \in Actors : Borrowed[b] = NoHandle /\ Borrowed'[b] = NoHandle
Effect ==
  Stutter \/ (\E a \in Actors : Lend(a) \/ Back(a)) \/ (\E h \in Handles : Swap(h))

\* Each effect is a step of the abstract specification.
LEMMA EffectRefines == Effect => [Ownership!Next]_(Ownership!vars)
<1>1. Stutter => UNCHANGED Ownership!vars
  BY DEF Stutter, Borrowed, Ownership!vars
<1>2. ASSUME NEW a \in Actors, Lend(a) PROVE Ownership!Borrow(a)
  BY <1>2 DEF Lend, Borrowed, Ownership!Borrow
<1>3. ASSUME NEW a \in Actors, Back(a) PROVE Ownership!Return(a)
  BY <1>3 DEF Back, Borrowed, Ownership!Return
<1>4. ASSUME NEW h \in Handles, Swap(h) PROVE Ownership!Replace(h)
  BY <1>4 DEF Swap, Borrowed, Ownership!Replace
<1> QED
  BY <1>1, <1>2, <1>3, <1>4 DEF Effect, Ownership!Next

LEMMA EffectOfStep == ASSUME OwnershipInv, [Next]_vars PROVE Effect
<1>0. TypeOK /\ TypeOK'
  BY TypeStep DEF OwnershipInv
<1> USE <1>0, ActorsDistinct, HandlesAssumption
    DEF OwnershipInv, TypeOK, MutexInv, WorkersInv, ReadersInv, UsingInv, Borrowed, BorrowPoints,
        ReadPoints, fields, locks, At, Goto, Take, Drop, CanRLock, RLock, RUnlock, Locked
<1>1. CASE WarmupNext
  <2>1. CASE WarmCopy
    <3>1. Stutter \/ Lend(Warmer)
      BY <2>1 DEF WarmCopy, Stutter, Lend
    <3> QED
      BY ONLY <3>1, ActorsDistinct DEF Effect
  <2>2. CASE WarmSession
    <3>1. Back(Warmer)
      BY <2>2 DEF WarmSession, Back
    <3> QED
      BY ONLY <3>1, ActorsDistinct DEF Effect
  <2>3. CASE WarmReady
    <3>1. Stutter
      BY <2>3 DEF WarmReady, Stutter
    <3> QED
      BY ONLY <3>1 DEF Effect
  <2> QED
    BY <1>1, <2>1, <2>2, <2>3 DEF WarmupNext
<1>2. ASSUME NEW s \in Scrapers, ScrapeNext(s) PROVE Effect
  <2>1. CASE ScrapeStart(s)
    <3>1. Stutter
      BY <2>1 DEF ScrapeStart, Stutter
    <3> QED
      BY ONLY <3>1 DEF Effect
  <2>2. CASE ScrapeIsValid(s)
    <3>1. Stutter
      BY <2>2 DEF ScrapeIsValid, Stutter
    <3> QED
      BY ONLY <3>1 DEF Effect
  <2>3. CASE ScrapeStartupReady(s)
    <3>1. Stutter
      BY <2>3 DEF ScrapeStartupReady, StartupReady, Stutter
    <3> QED
      BY ONLY <3>1 DEF Effect
  <2>4. CASE PingBegin(s)
    <3>1. Stutter \/ Lend(s)
      BY <2>4 DEF PingBegin, Stutter, Lend
    <3> QED
      BY ONLY <3>1, <1>2, ActorsDistinct DEF Effect
  <2>5. CASE PingEnd(s)
    <3>1. Back(s)
      BY <2>5 DEF PingEnd, DownPoints, Back
    <3> QED
      BY ONLY <3>1, <1>2, ActorsDistinct DEF Effect
  <2>6. CASE ScrapeMetrics(s)
    <3>1. Stutter
      BY <2>6 DEF ScrapeMetrics, Stutter
    <3> QED
      BY ONLY <3>1 DEF Effect
  <2>7. CASE ScrapeWait(s)
    <3>1. Stutter
      BY <2>7 DEF ScrapeWait, Stutter
    <3> QED
      BY ONLY <3>1 DEF Effect
  <2>8. CASE ScrapeReport(s)
    <3>1. Stutter
      BY <2>8 DEF ScrapeReport, Stutter
    <3> QED
      BY ONLY <3>1 DEF Effect
  <2>9. CASE ReconnectBegin(s)
    <3>1. Stutter
      BY <2>9 DEF ReconnectBegin, Stutter
    <3> QED
      BY ONLY <3>1 DEF Effect
  <2>10. CASE Connect(s)
    <3>1. Stutter
      BY <2>10 DEF Connect, Stutter
    <3> QED
      BY ONLY <3>1 DEF Effect
  <2>11. CASE ReconnectWarm(s)
    <3>1. Stutter
      BY <2>11 DEF ReconnectWarm, Stutter
    <3> QED
      BY ONLY <3>1 DEF Effect
  <2>12. CASE ReconnectFail(s)
    <3>1. Stutter
      BY <2>12 DEF ReconnectFail, Stutter
    <3> QED
      BY ONLY <3>1 DEF Effect
  <2>13. CASE ReconnectPublish(s)
    <3>1. \A a \in Actors : Borrowed[a] = NoHandle /\ Borrowed'[a] = NoHandle
      BY <2>13 DEF ReconnectPublish, NoTrafficDuringWarmup
    <3>2. session' = using[s] /\ using[s] \in Handles /\ using[s] # session
      BY <2>13 DEF ReconnectPublish
    <3> QED
      BY ONLY <3>1, <3>2 DEF Effect, Swap
  <2> QED
    BY <1>2, <2>1, <2>2, <2>3, <2>4, <2>5, <2>6, <2>7, <2>8, <2>9, <2>10, <2>11, <2>12, <2>13 DEF ScrapeNext
<1>3. ASSUME NEW w \in Workers, MetricNext(w) PROVE Effect
  <2>1. CASE MetricSkip(w)
    <3>1. Stutter
      BY <2>1 DEF MetricSkip, Stutter
    <3> QED
      BY ONLY <3>1 DEF Effect
  <2>2. CASE QueryLate(w)
    <3>1. Back(w)
      BY <2>2 DEF QueryLate, Back
    <3> QED
      BY ONLY <3>1, <1>3, ActorsDistinct DEF Effect
  <2>3. CASE QueryBegin(w)
    <3>1. Stutter \/ Lend(w)
      BY <2>3 DEF QueryBegin, Stutter, Lend
    <3> QED
      BY ONLY <3>1, <1>3, ActorsDistinct DEF Effect
  <2>4. CASE QueryFail(w)
    <3>1. Back(w)
      BY <2>4 DEF QueryFail, Back
    <3> QED
      BY ONLY <3>1, <1>3, ActorsDistinct DEF Effect
  <2>5. CASE QueryRows(w)
    <3>1. Stutter
      BY <2>5 DEF QueryRows, Stutter
    <3> QED
      BY ONLY <3>1 DEF Effect
  <2>6. CASE RowsDone(w)
    <3>1. Back(w)
      BY <2>6 DEF RowsDone, Back
    <3> QED
      BY ONLY <3>1, <1>3, ActorsDistinct DEF Effect
  <2> QED
    BY <1>3, <2>1, <2>2, <2>3, <2>4, <2>5, <2>6 DEF MetricNext, QueryNext
<1>4. CASE AlertNext
  <2>1. CASE AlertTick
    <3>1. Stutter
      BY <2>1 DEF AlertTick, StartupReady, Stutter
    <3> QED
      BY ONLY <3>1 DEF Effect
  <2>2. CASE AlertIsValid
    <3>1. Stutter
      BY <2>2 DEF AlertIsValid, Stutter
    <3> QED
      BY ONLY <3>1 DEF Effect
  <2>3. CASE QueryBegin(AlertLog)
    <3>1. Stutter \/ Lend(AlertLog)
      BY <2>3 DEF QueryBegin, Stutter, Lend
    <3> QED
      BY ONLY <3>1, ActorsDistinct DEF Effect
  <2>4. CASE QueryFail(AlertLog)
    <3>1. Back(AlertLog)
      BY <2>4 DEF QueryFail, Back
    <3> QED
      BY ONLY <3>1, ActorsDistinct DEF Effect
  <2>5. CASE QueryRows(AlertLog)
    <3>1. Stutter
      BY <2>5 DEF QueryRows, Stutter
    <3> QED
      BY ONLY <3>1 DEF Effect
  <2>6. CASE RowsDone(AlertLog)
    <3>1. Back(AlertLog)
      BY <2>6 DEF RowsDone, Back
    <3> QED
      BY ONLY <3>1, ActorsDistinct DEF Effect
  <2> QED
    BY <1>4, <2>1, <2>2, <2>3, <2>4, <2>5, <2>6 DEF AlertNext, QueryNext
<1>5. ASSUME NEW a \in Scrapers \cup {Warmer}, LockNext(a) PROVE Effect
  <2>1. CASE AnnounceLock(a)
    <3>1. Stutter
      BY <2>1 DEF AnnounceLock, LockPoints, Stutter
    <3> QED
      BY ONLY <3>1 DEF Effect
  <2>2. CASE SetUp(a)
    <3>1. Stutter
      BY <2>2 DEF SetUp, Stutter
    <3> QED
      BY ONLY <3>1 DEF Effect
  <2>3. CASE ClearInvalid(a)
    <3>1. Stutter
      BY <2>3 DEF ClearInvalid, AfterClear, Stutter
    <3> QED
      BY ONLY <3>1 DEF Effect
  <2>4. CASE SetDown(a)
    <3>1. Stutter
      BY <2>4 DEF SetDown, AfterDown, DownPoints, Stutter
    <3> QED
      BY ONLY <3>1 DEF Effect
  <2>5. CASE Invalidate(a)
    <3>1. Stutter
      BY <2>5 DEF Invalidate, Stutter
    <3> QED
      BY ONLY <3>1 DEF Effect
  <2> QED
    BY <1>5, <2>1, <2>2, <2>3, <2>4, <2>5 DEF LockNext
<1>6. CASE EnvNext
  <2>1. Stutter
    BY <1>6 DEF Stutter, EnvNext, BackoffExpires, ReachabilityChanges
  <2> QED
    BY ONLY <2>1 DEF Effect
<1>7. CASE UNCHANGED vars
  <2>1. Stutter
    BY <1>7 DEF Stutter, vars
  <2> QED
    BY ONLY <2>1 DEF Effect
<1> QED
  BY <1>1, <1>2, <1>3, <1>4, <1>5, <1>6, <1>7 DEF Next

\* The RWMutex, the two mutexes, the readiness flag and the control flow around them
\* together implement SessionOwnership: borrowers share one handle, and it is replaced
\* only while nobody has it.
THEOREM OwnershipIsImplemented == Spec => ImplementsOwnership
<1>1. OwnershipInv /\ [Next]_vars => [Ownership!Next]_(Ownership!vars)
  BY EffectOfStep, EffectRefines
<1> QED
  BY RefinementInit, <1>1, OwnershipCorrect, PTL
  DEF Spec, ImplementsOwnership, Ownership!Spec
============================================================================
