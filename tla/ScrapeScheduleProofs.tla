------------------------- MODULE ScrapeScheduleProofs -------------------------
(***************************************************************************)
(* Safety of the schedule and the metric cache, for any set of databases,  *)
(* intervals and length of the run.                                        *)
(***************************************************************************)
EXTENDS ScrapeSchedule, TLAPS

\* On demand every scrape has a later tick than the one before, so a metric whose cache
\* is not complete stays due until a query succeeds.
TicksGrow ==
  ~scheduled =>
    /\ tick <= now
    /\ \A d \in Databases : cache[d].rows # "full" => IsScrapeMetric(d)

ScheduleInv == TypeOK /\ RequestNotLost /\ TicksGrow /\ CachedIsComplete

-----------------------------------------------------------------------------
LEMMA InitSchedule == Init => ScheduleInv
<1> SUFFICES ASSUME Init PROVE ScheduleInv
  OBVIOUS
<1> USE IntervalAssumption DEF Init
<1>1. TypeOK
  <2>1. cache \in [Databases -> [rows : Rows, last : Times \cup {Never}]]
    BY DEF Rows
  <2>2. served \in [Databases -> {"nothing", "error", "fresh", "cache"}]
    OBVIOUS
  <2>3. 0 \in Times /\ 0 \in Nat
    BY DEF Times
  <2> QED
    BY <2>1, <2>2, <2>3 DEF TypeOK
<1>2. TicksGrow
  BY DEF TicksGrow, IsScrapeMetric
<1>3. RequestNotLost /\ CachedIsComplete
  BY DEF RequestNotLost, CachedIsComplete
<1> QED
  BY <1>1, <1>2, <1>3 DEF ScheduleInv

\* The next tick of a ticker is a time.
LEMMA DueIsTime ==
  ASSUME NEW t \in Nat, NEW u \in Nat, t >= u
  PROVE  u + Interval * (1 + (t - u) \div Interval) \in Nat
<1>1. (t - u) \div Interval \in Nat
  BY IntervalAssumption
<1> QED
  BY <1>1, IntervalAssumption

LEMMA NextTypes == TypeOK /\ [Next]_vars => TypeOK'
<1> SUFFICES ASSUME TypeOK, [Next]_vars PROVE TypeOK'
  OBVIOUS
<1> USE IntervalAssumption, NoDbAssumption
<1> USE DEF TypeOK, Times, Rows, Never, warmup, StartScrape
<1>1. CASE WarmupNext
  BY <1>1 DEF WarmupNext, WarmEnd, RequestScrape, RequestBuffered, WarmBegin
<1>2. CASE Boot
  BY <1>2 DEF Boot
<1>3. CASE OnTick
  <2>1. due \in Times
    BY <1>3 DEF OnTick
  <2>2. due' \in Nat
    BY <1>3, DueIsTime DEF OnTick
  <2> QED
    BY <1>3, <2>1, <2>2 DEF OnTick
<1>4. CASE OnRequest
  BY <1>4 DEF OnRequest
<1>5. CASE EndScrape
  BY <1>5 DEF EndScrape
<1>6. ASSUME NEW d \in Databases, VisitCold(d) PROVE TypeOK'
  BY <1>6 DEF VisitCold, Visit, Ready
<1>7. ASSUME NEW d \in Databases, VisitDown(d) PROVE TypeOK'
  BY <1>7 DEF VisitDown, Visit, Ready
<1>8. ASSUME NEW d \in Databases, VisitQuery(d) PROVE TypeOK'
  BY <1>8 DEF VisitQuery, Visit, Ready, FailedQuery
<1>9. ASSUME NEW d \in Databases, VisitCache(d) PROVE TypeOK'
  BY <1>9 DEF VisitCache, Visit, Ready
<1>10. CASE Collect
  BY <1>10 DEF Collect
<1>11. CASE TimePasses
  BY <1>11 DEF TimePasses
<1>12. CASE UNCHANGED vars
  BY <1>12 DEF vars
<1> QED
  BY <1>1, <1>2, <1>3, <1>4, <1>5, <1>6, <1>7, <1>8, <1>9, <1>10, <1>11, <1>12
  DEF Next, LoopNext, ScrapeNext, VisitNext

\* A token is only taken by a scrape that has yet to visit every database.
LEMMA NextRequest == ScheduleInv /\ [Next]_vars => RequestNotLost'
<1> SUFFICES ASSUME ScheduleInv, [Next]_vars PROVE RequestNotLost'
  OBVIOUS
<1> USE NoDbAssumption
<1> USE DEF ScheduleInv, TypeOK, RequestNotLost, warmup, StartScrape
<1>1. CASE WarmupNext
  <2>1. CASE WarmEnd
    BY <2>1 DEF WarmEnd
  <2>2. CASE RequestScrape
    BY <2>2 DEF RequestScrape, RequestBuffered
  <2>3. ASSUME NEW d \in Databases, WarmBegin(d) PROVE RequestNotLost'
    BY <2>3 DEF WarmBegin
  <2> QED
    BY <1>1, <2>1, <2>2, <2>3 DEF WarmupNext
<1>2. CASE Boot \/ OnTick \/ OnRequest \/ Collect
  BY <1>2 DEF Boot, OnTick, OnRequest, Collect
<1>3. CASE EndScrape
  BY <1>3 DEF EndScrape
<1>4. ASSUME NEW d \in Databases, VisitNext(d) PROVE RequestNotLost'
  BY <1>4 DEF VisitNext, VisitCold, VisitDown, VisitQuery, VisitCache, Visit, Ready
<1>5. CASE TimePasses
  BY <1>5 DEF TimePasses
<1>6. CASE UNCHANGED vars
  BY <1>6 DEF vars
<1> QED
  BY <1>1, <1>2, <1>3, <1>4, <1>5, <1>6 DEF Next, LoopNext, ScrapeNext

\* Only a query changes the cache of a database, and it changes what was served too.
LEMMA NextCache == ScheduleInv /\ [Next]_vars => TicksGrow' /\ CachedIsComplete'
<1> SUFFICES ASSUME ScheduleInv, [Next]_vars PROVE TicksGrow' /\ CachedIsComplete'
  OBVIOUS
<1> USE IntervalAssumption
<1> USE DEF ScheduleInv, TypeOK, Times, Rows, Never, TicksGrow, CachedIsComplete,
            IsScrapeMetric, warmup, StartScrape
<1>1. CASE WarmupNext
  BY <1>1 DEF WarmupNext, WarmEnd, RequestScrape, RequestBuffered, WarmBegin
<1>2. CASE Boot \/ OnRequest \/ Collect
  BY <1>2 DEF Boot, OnRequest, Collect
<1>3. CASE OnTick
  BY <1>3 DEF OnTick
<1>4. CASE EndScrape
  BY <1>4 DEF EndScrape
<1>5. ASSUME NEW d \in Databases, VisitCold(d) \/ VisitDown(d)
      PROVE  TicksGrow' /\ CachedIsComplete'
  BY <1>5 DEF VisitCold, VisitDown, Visit
<1>6. ASSUME NEW d \in Databases, VisitQuery(d) PROVE TicksGrow' /\ CachedIsComplete'
  BY <1>6 DEF VisitQuery, Visit, FailedQuery
<1>7. ASSUME NEW d \in Databases, VisitCache(d) PROVE TicksGrow' /\ CachedIsComplete'
  BY <1>7 DEF VisitCache, Visit
<1>8. CASE TimePasses
  BY <1>8 DEF TimePasses
<1>9. CASE UNCHANGED vars
  BY <1>9 DEF vars
<1> QED
  BY <1>1, <1>2, <1>3, <1>4, <1>5, <1>6, <1>7, <1>8, <1>9
  DEF Next, LoopNext, ScrapeNext, VisitNext

LEMMA ScheduleCorrect == Spec => []ScheduleInv
<1>1. ScheduleInv /\ [Next]_vars => ScheduleInv'
  BY NextTypes, NextRequest, NextCache DEF ScheduleInv
<1> QED
  BY <1>1, InitSchedule, PTL DEF Spec

-----------------------------------------------------------------------------
\* Ticks, tokens, databases and caches are of their types.
THEOREM TypeCorrect == Spec => []TypeOK
<1>1. ScheduleInv => TypeOK
  BY DEF ScheduleInv
<1> QED
  BY <1>1, ScheduleCorrect, PTL

\* requestScheduledScrape may find a token and leave none, yet no warmed up database that
\* has not been scraped is without a scrape that is still to visit it.
THEOREM NoRequestIsLost == Spec => []RequestNotLost
<1>1. ScheduleInv => RequestNotLost
  BY DEF ScheduleInv
<1> QED
  BY <1>1, ScheduleCorrect, PTL

\* Without a scrape interval a failed query's samples are never served from the cache.
THEOREM CacheServesGoodScrapes == Spec => []CachedIsComplete
<1>1. ScheduleInv => CachedIsComplete
  BY DEF ScheduleInv
<1> QED
  BY <1>1, ScheduleCorrect, PTL
===============================================================================
