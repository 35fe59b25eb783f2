--------------------------- MODULE ScrapeSchedule ---------------------------
(***************************************************************************)
(* When scrapes happen and what the metric cache makes of it               *)
(* (collector/collector.go, metrics.go, cache.go).                         *)
(*                                                                         *)
(* With a scrape interval one goroutine scrapes on ticks and on requests   *)
(* that InitializeDatabases leaves after each warmup; without one every    *)
(* HTTP request scrapes.  A scrape visits all databases in some order and, *)
(* for a metric with its own interval, queries it or serves its cache by   *)
(* comparing the scrape's tick with the one of the last good query.  The   *)
(* records of different metrics are independent: one is modelled.  Whether  *)
(* there is a scrape interval is part of the initial state.                *)
(***************************************************************************)
EXTENDS Integers

CONSTANTS
  Databases,
  Interval,        \* metrics.scrapeInterval, where it is configured
  MetricInterval,  \* the metric's own scrapeinterval
  MaxTime          \* bound on the clock

ASSUME IntervalAssumption == Interval \in Nat \ {0} /\ MetricInterval \in Nat /\ MaxTime \in Nat

Never == -1        \* nil, for LastScraped
NoDb == "none"
ASSUME NoDbAssumption == NoDb \notin Databases

VARIABLES
  scheduled,       \* is metrics.scrapeInterval configured?
  now,             \* the clock
  loop,            \* the scraping goroutine: "boot", "select" or "scrape"
  tick,            \* the tick of the scrape in progress
  due,             \* when the ticker fires next, or fired without being received
  request,         \* is a token in e.scrapeRequests?
  todo,            \* databases the scrape in progress has not visited
  cold,            \* databases InitializeDatabases has not reached
  warming,         \* the one it is warming, NoDb between two
  ready,           \* databases whose warmup is over
  scraped,         \* ready databases some scrape has visited
  cache,           \* per database, the samples and LastScraped of the metric
  served           \* per database, what the last visit served of the metric

vars == <<scheduled, now, loop, tick, due, request, todo, cold, warming, ready, scraped, cache,
          served>>
warmup == <<cold, warming, ready>>

Times == 0 .. MaxTime
Rows == {"none", "partial", "full"}

TypeOK ==
  /\ scheduled \in BOOLEAN
  /\ now \in Times
  /\ loop \in {"boot", "select", "scrape"}
  /\ tick \in Times
  /\ due \in Nat
  /\ request \in BOOLEAN
  /\ todo \subseteq Databases
  /\ cold \subseteq Databases
  /\ warming \in Databases \cup {NoDb}
  /\ ready \subseteq Databases
  /\ scraped \subseteq ready
  /\ cache \in [Databases -> [rows : Rows, last : Times \cup {Never}]]
  /\ served \in [Databases -> {"nothing", "error", "fresh", "cache"}]

Init ==
  /\ scheduled \in BOOLEAN
  /\ now = 0
  /\ loop = IF scheduled THEN "boot" ELSE "select"
  /\ tick = 0
  /\ due = 0
  /\ request = FALSE
  /\ todo = {}
  /\ cold = Databases
  /\ warming = NoDb
  /\ ready = {}
  /\ scraped = {}
  /\ cache = [d \in Databases |-> [rows |-> "none", last |-> Never]]
  /\ served = [d \in Databases |-> "nothing"]

-----------------------------------------------------------------------------
(* InitializeDatabases: one database after the other                       *)

WarmBegin(d) ==
  /\ warming = NoDb
  /\ d \in cold
  /\ cold' = cold \ {d}
  /\ warming' = d
  /\ UNCHANGED <<scheduled, now, loop, tick, due, request, todo, ready, scraped, cache, served>>

\* WarmupConnectionPool returns, with or without an error: startupReady.
WarmEnd ==
  /\ warming # NoDb
  /\ warming \notin ready
  /\ ready' = ready \cup {warming}
  /\ UNCHANGED <<scheduled, now, loop, tick, due, request, todo, cold, warming, scraped, cache,
                 served>>

\* requestScheduledScrape: leave a token unless one is there already.
\* (Mutant: the channel has no buffer, so a busy loop loses the token.)
RequestUnbuffered == request' = (loop = "select")
RequestBuffered == request' = TRUE
RequestScrape ==
  /\ warming \in ready
  /\ warming' = NoDb
  /\ IF scheduled THEN RequestBuffered ELSE UNCHANGED request
  /\ UNCHANGED <<scheduled, now, loop, tick, due, todo, cold, ready, scraped, cache, served>>

-----------------------------------------------------------------------------
(* RunScheduledScrapes and Collect: a scrape begins                        *)

StartScrape(t) ==
  /\ loop' = "scrape"
  /\ tick' = t
  /\ todo' = Databases

\* The first scheduled scrape is immediate.
Boot ==
  /\ loop = "boot"
  /\ StartScrape(now)
  /\ UNCHANGED <<scheduled, now, due, request, warmup, scraped, cache, served>>

\* A tick carries the time it was due; the next one is a multiple of the interval later,
\* so ticks missed during a scrape count once.
OnTick ==
  /\ scheduled
  /\ loop = "select"
  /\ now >= due
  /\ StartScrape(due)
  /\ due' = due + Interval * (1 + (now - due) \div Interval)
  /\ UNCHANGED <<scheduled, now, request, warmup, scraped, cache, served>>

OnRequest ==
  /\ loop = "select"
  /\ request
  /\ request' = FALSE
  /\ StartScrape(now)
  /\ UNCHANGED <<scheduled, now, due, warmup, scraped, cache, served>>

\* Without a scrape interval, an HTTP request scrapes at the time it gets e.mu.
Collect ==
  /\ ~scheduled
  /\ loop = "select"
  /\ StartScrape(now)
  /\ UNCHANGED <<scheduled, now, due, request, warmup, scraped, cache, served>>

-----------------------------------------------------------------------------
(* scrapeDatabase, for one database and the metric                         *)

\* StartupReady.  (Mutant: it is not consulted.)
ReadyIgnored(d) == d \in Databases
Ready(d) == d \in ready

\* isScrapeMetric
IsScrapeMetric(d) ==
  \/ cache[d].last = Never
  \/ MetricInterval < tick - cache[d].last

\* What a failed query leaves in the cache: the samples it got so far, or none, and the
\* tick of the last good one.  (Mutant: LastScraped is set whatever the outcome.)
FailedQueryCounts(d, rows) == [rows |-> rows, last |-> tick]
FailedQuery(d, rows) == [rows |-> rows, last |-> cache[d].last]

Visit(d) ==
  /\ loop = "scrape"
  /\ d \in todo
  /\ todo' = todo \ {d}
  /\ UNCHANGED <<scheduled, now, loop, tick, due, request, warmup>>

\* Not ready: nothing is served, and that is an error only if the warmup is just failing.
VisitCold(d) ==
  /\ ~Ready(d)
  /\ Visit(d)
  /\ \E outcome \in {"nothing", "error"} : served' = [served EXCEPT ![d] = outcome]
  /\ UNCHANGED <<scraped, cache>>

\* In backoff, or the ping failed.
VisitDown(d) ==
  /\ Ready(d)
  /\ Visit(d)
  /\ scraped' = scraped \cup {d}
  /\ served' = [served EXCEPT ![d] = "error"]
  /\ UNCHANGED cache

\* MetricsCache.Reset, the query, and SetLastScraped.
VisitQuery(d) ==
  /\ Ready(d)
  /\ Visit(d)
  /\ IsScrapeMetric(d)
  /\ scraped' = scraped \cup {d}
  /\ \/ /\ cache' = [cache EXCEPT ![d] = [rows |-> "full", last |-> tick]]
        /\ served' = [served EXCEPT ![d] = "fresh"]
     \/ \E rows \in {"none", "partial"} :
          /\ cache' = [cache EXCEPT ![d] = FailedQuery(d, rows)]
          /\ served' = [served EXCEPT ![d] = "error"]

\* MetricsCache.SendAll, reported without an error.
VisitCache(d) ==
  /\ Ready(d)
  /\ Visit(d)
  /\ ~IsScrapeMetric(d)
  /\ scraped' = scraped \cup {d}
  /\ served' = [served EXCEPT ![d] = "cache"]
  /\ UNCHANGED cache

\* The scrape is over; the ticker is made after the first one.
EndScrape ==
  /\ loop = "scrape"
  /\ todo = {}
  /\ loop' = "select"
  /\ due' = IF scheduled /\ due = 0 THEN now + Interval ELSE due
  /\ UNCHANGED <<scheduled, now, tick, request, todo, warmup, scraped, cache, served>>

TimePasses ==
  /\ now < MaxTime
  /\ now' = now + 1
  /\ UNCHANGED <<scheduled, loop, tick, due, request, todo, warmup, scraped, cache, served>>

-----------------------------------------------------------------------------
(* Specification                                                           *)

WarmupNext == WarmEnd \/ RequestScrape \/ \E d \in Databases : WarmBegin(d)
VisitNext(d) == VisitCold(d) \/ VisitDown(d) \/ VisitQuery(d) \/ VisitCache(d)
ScrapeNext == EndScrape \/ \E d \in Databases : VisitNext(d)
LoopNext == Boot \/ OnTick \/ OnRequest \/ ScrapeNext

Next == WarmupNext \/ LoopNext \/ Collect \/ TimePasses

Spec == Init /\ [][Next]_vars

\* The warmup of a database ends (every call in it has a deadline) and the loop runs;
\* neither the clock nor an HTTP client is relied on.
FairSpec == Spec /\ WF_vars(WarmupNext) /\ WF_vars(LoopNext)

-----------------------------------------------------------------------------
(* Properties                                                              *)

\* A warmed up database that no scrape has visited will be: a token is in the channel or
\* about to be, or a scrape has yet to visit it (requestScheduledScrape drops a token
\* when one is queued, and the queued one must do for both).
RequestNotLost ==
  scheduled =>
    \A d \in ready \ scraped :
      request \/ warming = d \/ loop = "boot" \/ (loop = "scrape" /\ d \in todo)

\* With a scrape interval, every database is scraped once its warmup is over, without
\* waiting for a tick.
ScrapedAfterWarmup == scheduled => \A d \in Databases : (d \in ready) ~> (d \in scraped)

\* What is served from the cache, as the values of an earlier scrape, is all that scrape
\* found: a query that failed half-way is repeated and not served (custom-metrics.md:44:
\* "If the metric was already scraped during the specified interval, a cached value is
\* provided").  With a scrape interval this fails: a tick may be older than the last scrape.
CachedIsComplete ==
  ~scheduled => \A d \in Databases : served[d] = "cache" => cache[d].rows = "full"
=============================================================================
