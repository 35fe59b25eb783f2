------------------------ MODULE DatabaseConnection ------------------------
(***************************************************************************)
(* The connection of one monitored database (collector/database.go) and    *)
(* every goroutine that touches it:                                        *)
(*                                                                         *)
(*   - the warmup goroutine started once by main (InitializeDatabases),    *)
(*   - the goroutines that scrape, serialised by the exporter's mutex,     *)
(*   - the metric goroutines each scrape forks for its queries,            *)
(*   - the alert log goroutine, which borrows the same session.            *)
(*                                                                         *)
(* They share d.Session and its health fields under reconnectMU, a Go      *)
(* RWMutex whose pending writer keeps new readers out.  A critical section *)
(* without I/O is one step; one with I/O (ping, query) starts when the     *)
(* read lock is taken and ends when it is released.  Wall-clock time is    *)
(* abstracted: a backoff in force may expire at any moment.                *)
(***************************************************************************)
EXTENDS Naturals, FiniteSets

CONSTANTS
  Scrapers,       \* goroutines that run a scrape (HTTP requests, or the ticker loop)
  Workers,        \* metric goroutines of one scrape, one per metric to query
  Handles,        \* *sql.DB handles; a closed one nobody holds may be a new one later
  NoHandle,       \* nil
  DeadlineRaces   \* may QueryContext return rows after its deadline has passed?

Warmer == "warmup"
AlertLog == "alertlog"
NoActor == "none"
Actors == Scrapers \cup Workers \cup {Warmer, AlertLog}

ASSUME ActorsAssumption ==
  /\ Scrapers \cap Workers = {}
  /\ {Warmer, AlertLog, NoActor} \cap (Scrapers \cup Workers) = {}

ASSUME HandlesAssumption == NoHandle \notin Handles

ASSUME DeadlineRacesAssumption == DeadlineRaces \in BOOLEAN

VARIABLES
  session,        \* d.Session
  connectErr,     \* d.connectErr # nil
  up,             \* d.Up
  invalid,        \* d.invalidUntil: nil, in the future or in the past
  startupReady,   \* d.startupReady
  handle,         \* what became of each *sql.DB
  readers,        \* who holds reconnectMU.RLock
  writer,         \* who is in, or waiting inside, reconnectMU.Lock
  attemptMU,      \* who holds reconnectAttemptMU
  mu,             \* who holds the exporter's mutex e.mu
  pc,             \* where each goroutine is
  using,          \* the handle each goroutine is working on
  reported,       \* the value of the last "up" sample exported
  reachable       \* environment: the server and the secret store answer

fields == <<session, connectErr, up, invalid, startupReady>>
locks == <<readers, writer, attemptMU, mu>>
vars == <<session, connectErr, up, invalid, startupReady, handle, readers,
          writer, attemptMU, mu, pc, using, reported, reachable>>

-----------------------------------------------------------------------------
(* Control points.  At a LockPoint the goroutine calls reconnectMU.Lock.   *)

DownPoints == {"downInvalid", "downClosed", "downOther"}
LockPoints == {"up1", "clear", "invalidate", "connFail", "publish"} \cup DownPoints

\* A goroutine here holds the read lock of reconnectMU and its handle is in use.
ReadPoints == {"pinging", "querying", "rows"}
ReconnectPoints == {"dial", "warming", "connFail", "publish"}
ScraperPoints == {"idle", "valid", "ready", "ping", "pinging", "connect", "metrics",
                  "wait", "report"} \cup ReconnectPoints \cup LockPoints
WorkerPoints == {"idle", "query", "querying", "rows"}
WarmerPoints == {"copy", "warming", "up1", "clear", "downInvalid", "invalidate",
                 "ready", "done"}
AlertPoints == {"idle", "valid", "query", "querying", "rows"}

TypeOK ==
  /\ session \in Handles \cup {NoHandle}
  /\ connectErr \in BOOLEAN
  /\ up \in {0, 1}
  /\ invalid \in {"nil", "future", "past"}
  /\ startupReady \in BOOLEAN
  /\ handle \in [Handles -> {"unused", "open", "closed"}]
  /\ readers \subseteq Actors
  /\ writer \in Actors \cup {NoActor}
  /\ attemptMU \in Actors \cup {NoActor}
  /\ mu \in Scrapers \cup {NoActor}
  /\ pc \in [Actors -> ScraperPoints \cup WorkerPoints \cup WarmerPoints \cup AlertPoints]
  /\ \A s \in Scrapers : pc[s] \in ScraperPoints
  /\ \A w \in Workers : pc[w] \in WorkerPoints
  /\ pc[Warmer] \in WarmerPoints
  /\ pc[AlertLog] \in AlertPoints
  /\ using \in [Actors -> Handles \cup {NoHandle}]
  /\ reported \in {0, 1}
  /\ reachable \in BOOLEAN

\* NewDatabase: connect either yields a handle or leaves the session nil with an error.
Init ==
  /\ \/ /\ session \in Handles
        /\ connectErr = FALSE
     \/ /\ session = NoHandle
        /\ connectErr = TRUE
  /\ handle = [h \in Handles |-> IF h = session THEN "open" ELSE "unused"]
  /\ up = 0
  /\ invalid = "nil"
  /\ startupReady = FALSE
  /\ readers = {}
  /\ writer = NoActor
  /\ attemptMU = NoActor
  /\ mu = NoActor
  /\ pc = [a \in Actors |-> IF a = Warmer THEN "copy" ELSE "idle"]
  /\ using = [a \in Actors |-> NoHandle]
  /\ reported = 0
  /\ reachable \in BOOLEAN

-----------------------------------------------------------------------------
(* Helpers                                                                 *)

At(a, point) == pc[a] = point
Goto(a, point) == pc' = [pc EXCEPT ![a] = point]
Take(a, h) == using' = [using EXCEPT ![a] = h]
Drop(a) == Take(a, NoHandle)

\* IsValid: only an expiry still ahead makes the database invalid.
\* (Mutant: the expiry is tested for nil and not against the clock.)
IsValidIgnoresClock == invalid = "nil"
IsValid == invalid # "future"

\* sync.RWMutex: a pending Lock keeps new readers out.
CanRLock == writer = NoActor
RLock(a) == CanRLock /\ readers' = readers \cup {a}
\* (Mutant: a path that returns without unlocking.)
RUnlockForgotten(a) == readers' = readers
RUnlock(a) == readers' = readers \ {a}

\* The first half of Lock: announce the writer, then wait for readers to leave.
AnnounceLock(a) ==
  /\ pc[a] \in LockPoints
  /\ writer = NoActor
  /\ writer' = a
  /\ UNCHANGED <<fields, handle, readers, attemptMU, mu, pc, using, reported, reachable>>

\* The second half, fused with the (I/O free) critical section and Unlock.
\* (Mutant: the section is entered under the read lock only.)
LockedShared(a, point) == At(a, point) /\ writer = a /\ writer' = NoActor
Locked(a, point) == At(a, point) /\ writer = a /\ readers = {} /\ writer' = NoActor

\* A *sql.DB allocated by connect is one nobody else refers to.
Fresh(h) == h # session /\ handle[h] # "open" /\ \A a \in Actors : using[a] # h

-----------------------------------------------------------------------------
(* Critical sections shared by warmup and scrapes                          *)

\* setUp(1)
SetUp(a) ==
  /\ Locked(a, "up1")
  /\ up' = 1
  /\ Goto(a, "clear")
  /\ UNCHANGED <<session, connectErr, invalid, startupReady, handle, readers, attemptMU,
                 mu, using, reported, reachable>>

\* What follows clearInvalid.  (Mutant: the warmup goes on to scrape.)
AfterClearScrapes(a) == "metrics"
AfterClear(a) == IF a = Warmer THEN "ready" ELSE "metrics"

\* clearInvalid
ClearInvalid(a) ==
  /\ Locked(a, "clear")
  /\ invalid' = "nil"
  /\ Goto(a, AfterClear(a))
  /\ UNCHANGED <<session, connectErr, up, startupReady, handle, readers, attemptMU, mu,
                 using, reported, reachable>>

\* What follows setUp(0), by the kind of failure.
AfterDown == [downInvalid |-> "invalidate", downClosed |-> "connect", downOther |-> "report"]

\* setUp(0).  (Mutant: a failed ping leaves the flag as it was.)
DownFlagKept == up
DownFlag == 0
SetDown(a) ==
  \E point \in DownPoints :
    /\ Locked(a, point)
    /\ up' = DownFlag
    /\ Goto(a, AfterDown[point])
    /\ UNCHANGED <<session, connectErr, invalid, startupReady, handle, readers, attemptMU,
                   mu, using, reported, reachable>>

\* invalidate(backoff)
Invalidate(a) ==
  /\ Locked(a, "invalidate")
  /\ invalid' = "future"
  /\ Goto(a, IF a = Warmer THEN "ready" ELSE "report")
  /\ UNCHANGED <<session, connectErr, up, startupReady, handle, readers, attemptMU, mu,
                 using, reported, reachable>>

-----------------------------------------------------------------------------
(* WarmupConnectionPool: once, at startup                                  *)

\* Copy the session under the read lock; the warmup itself runs without it.
WarmCopy ==
  /\ At(Warmer, "copy")
  /\ CanRLock
  /\ Take(Warmer, session)
  /\ Goto(Warmer, IF session = NoHandle THEN "downInvalid" ELSE "warming")
  /\ UNCHANGED <<fields, locks, handle, reported, reachable>>

\* warmupSession on the copied handle: every connection is handed back either way.
WarmSession ==
  /\ At(Warmer, "warming")
  /\ \/ reachable /\ Goto(Warmer, "up1")
     \/ ~reachable /\ Goto(Warmer, "downInvalid")
  /\ Drop(Warmer)
  /\ UNCHANGED <<fields, locks, handle, reported, reachable>>

\* The deferred startupReady.Store(true).
WarmReady ==
  /\ At(Warmer, "ready")
  /\ startupReady' = TRUE
  /\ Goto(Warmer, "done")
  /\ UNCHANGED <<session, connectErr, up, invalid, locks, handle, using, reported, reachable>>

-----------------------------------------------------------------------------
(* A scrape: scrapeDatabase, then the "up" sample, all under e.mu          *)

ScrapeStart(s) ==
  /\ At(s, "idle")
  /\ mu = NoActor
  /\ mu' = s
  /\ Goto(s, "valid")
  /\ UNCHANGED <<fields, readers, writer, attemptMU, handle, using, reported, reachable>>

\* An invalid database is not scraped.
ScrapeIsValid(s) ==
  /\ At(s, "valid")
  /\ CanRLock
  /\ Goto(s, IF IsValid THEN "ready" ELSE "report")
  /\ UNCHANGED <<fields, locks, handle, using, reported, reachable>>

\* Nor is one whose warmup has not finished.  (Mutant: the flag is not consulted.)
StartupReadyIgnored == TRUE
StartupReady == startupReady
ScrapeStartupReady(s) ==
  /\ At(s, "ready")
  /\ Goto(s, IF StartupReady THEN "ping" ELSE "report")
  /\ UNCHANGED <<fields, locks, handle, using, reported, reachable>>

\* PingContext: read lock, then the call; a nil session goes straight to reconnect.
PingBegin(s) ==
  /\ At(s, "ping")
  /\ CanRLock
  /\ \/ /\ session = NoHandle
        /\ Goto(s, "connect")
        /\ UNCHANGED <<readers, using>>
     \/ /\ session # NoHandle
        /\ RLock(s)
        /\ Take(s, session)
        /\ Goto(s, "pinging")
  /\ UNCHANGED <<fields, writer, attemptMU, mu, handle, reported, reachable>>

\* Its answer: ok, an Oracle error that starts a backoff, a closed handle, or another error.
PingEnd(s) ==
  /\ At(s, "pinging")
  /\ \/ reachable /\ Goto(s, "up1")
     \/ ~reachable /\ \E point \in DownPoints : Goto(s, point)
  /\ RUnlock(s)
  /\ Drop(s)
  /\ UNCHANGED <<fields, writer, attemptMU, mu, handle, reported, reachable>>

\* Fork one goroutine per metric.
ScrapeMetrics(s) ==
  /\ At(s, "metrics")
  /\ pc' = [a \in Actors |-> IF a \in Workers THEN "query"
                             ELSE IF a = s THEN "wait" ELSE pc[a]]
  /\ UNCHANGED <<fields, locks, handle, using, reported, reachable>>

\* wg.Wait
ScrapeWait(s) ==
  /\ At(s, "wait")
  /\ \A w \in Workers : At(w, "idle")
  /\ Goto(s, "report")
  /\ UNCHANGED <<fields, locks, handle, using, reported, reachable>>

\* UpMetric, the last sample of the scrape; then e.mu is released.
ScrapeReport(s) ==
  /\ At(s, "report")
  /\ CanRLock
  /\ reported' = up
  /\ mu' = NoActor
  /\ Goto(s, "idle")
  /\ UNCHANGED <<fields, readers, writer, attemptMU, handle, using, reachable>>

-----------------------------------------------------------------------------
(* reconnect: build a new handle, warm it, swap it in                      *)

ReconnectBegin(s) ==
  /\ At(s, "connect")
  /\ attemptMU = NoActor
  /\ attemptMU' = s
  /\ Goto(s, "dial")
  /\ UNCHANGED <<fields, readers, writer, mu, handle, using, reported, reachable>>

\* connect: resolve the credentials, which can fail, and open a handle, which does not
\* contact the server.
Connect(s) ==
  /\ At(s, "dial")
  /\ \/ /\ \E h \in Handles :
             /\ Fresh(h)
             /\ handle' = [handle EXCEPT ![h] = "open"]
             /\ Take(s, h)
        /\ Goto(s, "warming")
     \/ /\ ~reachable
        /\ Goto(s, "connFail")
        /\ UNCHANGED <<handle, using>>
  /\ UNCHANGED <<fields, locks, reported, reachable>>

\* warmupSession on the new handle; a failure closes it.
ReconnectWarm(s) ==
  /\ At(s, "warming")
  /\ \/ /\ reachable
        /\ Goto(s, "publish")
        /\ UNCHANGED <<handle, using>>
     \/ /\ ~reachable
        /\ handle' = [handle EXCEPT ![using[s]] = "closed"]
        /\ Drop(s)
        /\ Goto(s, "connFail")
  /\ UNCHANGED <<fields, locks, reported, reachable>>

\* The failure section: record the error, mark down and start the backoff.
ReconnectFail(s) ==
  /\ Locked(s, "connFail")
  /\ connectErr' = TRUE
  /\ up' = 0
  /\ invalid' = "future"
  /\ attemptMU' = NoActor
  /\ Goto(s, "report")
  /\ UNCHANGED <<session, startupReady, handle, readers, mu, using, reported, reachable>>

\* The old handle is closed in the same section.  (Mutant: it is forgotten.)
RetireForgotten(old, new) == handle
Retire(old, new) == [h \in Handles |-> IF h = old /\ h # new THEN "closed" ELSE handle[h]]

\* The success section: swap the session, mark up and close the old handle.
ReconnectPublish(s) ==
  /\ Locked(s, "publish")
  /\ session' = using[s]
  /\ connectErr' = FALSE
  /\ up' = 1
  /\ invalid' = "nil"
  /\ handle' = Retire(session, using[s])
  /\ attemptMU' = NoActor
  /\ Drop(s)
  /\ Goto(s, "metrics")
  /\ UNCHANGED <<startupReady, readers, mu, reported, reachable>>

-----------------------------------------------------------------------------
(* QueryContext in a metric goroutine                                      *)

\* A metric served from its cache, or misconfigured, is not queried.
MetricSkip(w) ==
  /\ At(w, "query")
  /\ Goto(w, "idle")
  /\ UNCHANGED <<fields, locks, handle, using, reported, reachable>>

\* Query and QueryContext take the read lock first; a nil session is an error.
QueryBegin(a) ==
  /\ At(a, "query")
  /\ CanRLock
  /\ \/ /\ session = NoHandle
        /\ Goto(a, "idle")
        /\ UNCHANGED <<readers, using>>
     \/ /\ session # NoHandle
        /\ RLock(a)
        /\ Take(a, session)
        /\ Goto(a, "querying")
  /\ UNCHANGED <<fields, writer, attemptMU, mu, handle, reported, reachable>>

\* The query fails or times out: QueryContext has released the lock itself.
QueryFail(a) ==
  /\ At(a, "querying")
  /\ RUnlock(a)
  /\ Drop(a)
  /\ Goto(a, "idle")
  /\ UNCHANGED <<fields, writer, attemptMU, mu, handle, reported, reachable>>

\* The query returns rows and the lock's release to its caller.
QueryRows(a) ==
  /\ At(a, "querying")
  /\ reachable
  /\ Goto(a, "rows")
  /\ UNCHANGED <<fields, locks, handle, using, reported, reachable>>

\* generatePrometheusMetrics finds the deadline past although rows came back: it
\* returns before it has deferred the unlock.  The context closes the rows.
QueryLate(w) ==
  /\ DeadlineRaces
  /\ At(w, "querying")
  /\ reachable
  /\ Drop(w)
  /\ Goto(w, "idle")
  /\ UNCHANGED <<fields, locks, handle, reported, reachable>>

\* The rows are read, to the end or to an error; rows.Close, then unlock.
RowsDone(a) ==
  /\ At(a, "rows")
  /\ RUnlock(a)
  /\ Drop(a)
  /\ Goto(a, "idle")
  /\ UNCHANGED <<fields, writer, attemptMU, mu, handle, reported, reachable>>

-----------------------------------------------------------------------------
(* UpdateLog in the alert log goroutine                                    *)

\* On a tick, nothing happens before the warmup has finished.
AlertTick ==
  /\ At(AlertLog, "idle")
  /\ StartupReady
  /\ Goto(AlertLog, "valid")
  /\ UNCHANGED <<fields, locks, handle, using, reported, reachable>>

\* An invalid database is left alone, and so is one in its own retry backoff or
\* whose log file cannot be read.
AlertIsValid ==
  /\ At(AlertLog, "valid")
  /\ CanRLock
  /\ \/ IsValid /\ Goto(AlertLog, "query")
     \/ Goto(AlertLog, "idle")
  /\ UNCHANGED <<fields, locks, handle, using, reported, reachable>>

-----------------------------------------------------------------------------
(* Environment                                                             *)

BackoffExpires ==
  /\ invalid = "future"
  /\ invalid' = "past"
  /\ UNCHANGED <<session, connectErr, up, startupReady, locks, handle, pc, using, reported,
                 reachable>>

ReachabilityChanges ==
  /\ reachable' = ~reachable
  /\ UNCHANGED <<fields, locks, handle, pc, using, reported>>

-----------------------------------------------------------------------------
(* Specification                                                           *)

WarmupNext == WarmCopy \/ WarmSession \/ WarmReady

ScrapeNext(s) ==
  \/ ScrapeStart(s) \/ ScrapeIsValid(s) \/ ScrapeStartupReady(s)
  \/ PingBegin(s) \/ PingEnd(s)
  \/ ScrapeMetrics(s) \/ ScrapeWait(s) \/ ScrapeReport(s)
  \/ ReconnectBegin(s) \/ Connect(s) \/ ReconnectWarm(s)
  \/ ReconnectFail(s) \/ ReconnectPublish(s)

QueryNext(a) == QueryBegin(a) \/ QueryFail(a) \/ QueryRows(a) \/ RowsDone(a)

MetricNext(w) == MetricSkip(w) \/ QueryLate(w) \/ QueryNext(w)

AlertNext == AlertTick \/ AlertIsValid \/ QueryNext(AlertLog)

LockNext(a) ==
  AnnounceLock(a) \/ SetUp(a) \/ ClearInvalid(a) \/ SetDown(a) \/ Invalidate(a)

EnvNext == BackoffExpires \/ ReachabilityChanges

Next ==
  \/ WarmupNext
  \/ \E s \in Scrapers : ScrapeNext(s)
  \/ \E w \in Workers : MetricNext(w)
  \/ AlertNext
  \/ \E a \in Scrapers \cup {Warmer} : LockNext(a)
  \/ EnvNext

Spec == Init /\ [][Next]_vars

-----------------------------------------------------------------------------
(* Fairness.  Goroutines are scheduled, sync.Mutex and sync.RWMutex do not *)
(* starve (strong fairness where a lock is awaited), the ticker or the     *)
(* HTTP clients keep asking for scrapes, every backoff elapses, and calls  *)
(* with a deadline return.  The alert log query has none: that it returns  *)
(* is an assumption of its own.                                            *)

ScrapeFairness ==
  /\ WF_vars(WarmupNext)
  /\ WF_vars(BackoffExpires)
  /\ \A s \in Scrapers : SF_vars(ScrapeNext(s))
  /\ \A a \in Scrapers \cup {Warmer} : SF_vars(LockNext(a))
  /\ \A w \in Workers : SF_vars(MetricNext(w))
  /\ WF_vars(RowsDone(AlertLog))

AlertQueryReturns == WF_vars(QueryFail(AlertLog) \/ QueryRows(AlertLog))

FairSpec == Spec /\ ScrapeFairness /\ AlertQueryReturns

-----------------------------------------------------------------------------
(* Properties                                                              *)

\* Whatever a goroutine pings, queries, reads rows from or warms is an open handle:
\* reconnect closes the old *sql.DB only when no reader can still be on it.
NoUseAfterClose ==
  \A a \in Actors : using[a] # NoHandle => handle[using[a]] = "open"

\* An open handle is the published session or in the hands of the reconnect that
\* opened it: neither a failed warmup nor a swap leaves a connection pool behind.
NoHandleLeak ==
  \A h \in Handles : handle[h] = "open" =>
    \/ h = session
    \/ \E s \in Scrapers : pc[s] \in {"warming", "publish"} /\ using[s] = h

\* The warmup acquires its connections one at a time and alone: until it is over, no
\* scrape pings, queries or reconnects and the alert log stays away.
NoTrafficDuringWarmup ==
  pc[Warmer] # "done" =>
    /\ \A s \in Scrapers : pc[s] \in {"idle", "valid", "ready", "report"}
    /\ \A w \in Workers : At(w, "idle")
    /\ At(AlertLog, "idle")

\* The read lock is held by exactly the goroutines inside a ping or a query: each
\* return path of QueryContext, PingContext and their callers releases it.
LockReleased == readers = {a \in Actors : pc[a] \in ReadPoints}

\* The exporter never exports up = 1 for a database it refuses to scrape: the health
\* fields are written in several critical sections, with readers in between.
NeverUpInBackoff ==
  [][\A s \in Scrapers : ScrapeReport(s) => ~(reported' = 1 /\ invalid = "future")]_vars

\* A scrape that has begun ends, and with it the exporter's mutex is released.
ScrapesFinish == \A s \in Scrapers : (mu = s) ~> (mu # s)

\* A database that stays reachable ends up connected and exported as up, whatever
\* happened to its session and its backoff before.
Recovers == <>[]reachable => <>[](session # NoHandle /\ reported = 1)

\* A database that stays unreachable ends up exported as down.
DetectsOutage == <>[]~reachable => <>[](reported = 0)

\* The locking implements exclusive replacement of a shared handle.
BorrowPoints(a) == IF a = Warmer THEN {"warming"} ELSE ReadPoints
Borrowed == [a \in Actors |-> IF pc[a] \in BorrowPoints(a) THEN using[a] ELSE NoHandle]
Ownership == INSTANCE SessionOwnership
               WITH Borrowers <- Actors, current <- session, borrowed <- Borrowed
ImplementsOwnership == Ownership!Spec
============================================================================
