---------------------------- MODULE ScrapeFanOut ----------------------------
(***************************************************************************)
(* The goroutines of one scrape (collector/collector.go): scheduledScrape  *)
(* starts a goroutine that gathers samples, scrape starts one per database *)
(* and one that closes the error channel, scrapeDatabase starts one per    *)
(* metric.  They meet on two channels and two levels of WaitGroups, and    *)
(* the scrape ends with e.scrapeResults complete and the error gauge set.  *)
(* Scrapes follow each other under the exporter's mutex, which a request   *)
(* in scheduled mode takes to copy the results.                            *)
(*                                                                         *)
(* Every goroutine sends one result on errChan, and the samples of one     *)
(* metric are one batch, so a channel's content is a set of senders.       *)
(***************************************************************************)
EXTENDS Naturals, FiniteSets

CONSTANTS
  Databases,      \* the monitored databases
  Metrics,        \* the metric definitions
  ErrCap,         \* capacity of errChan; counted before a reload, so any positive number
  MetricCap       \* capacity of metricCh

ASSUME ErrCapAssumption == ErrCap \in Nat \ {0}
ASSUME MetricCapAssumption == MetricCap \in Nat \ {0}

Tasks == Databases \X Metrics
ASSUME TasksAssumption == Databases \cap Tasks = {}
Senders == Databases \cup Tasks
\* What scheduledScrape sends after the scrape: the error gauge among others, then "up".
MetaPoints == {"error", "up"}
Meta == {<<p>> : p \in MetaPoints}

VARIABLES
  wanted,         \* a tick or a scrape request is pending
  main,           \* the goroutine that holds e.mu and runs the scrape
  gather,         \* the goroutine that fills e.scrapeResults
  db,             \* the goroutine of each database
  task,           \* the goroutine of each metric of each database
  errChan,        \* senders whose result waits in errChan
  errClosed,      \* is errChan closed?
  metricCh,       \* senders whose samples wait in metricCh
  metricClosed,   \* is metricCh closed?
  failed,         \* senders whose result was an error, in this scrape
  sent,           \* metrics whose samples were sent, in this scrape
  totalErrors,    \* the errors received
  errorGauge,     \* e.error
  scrapeResults   \* e.scrapeResults

threads == <<main, gather, db, task>>
errors == <<errChan, errClosed>>
samples == <<metricCh, metricClosed>>
channels == <<errChan, errClosed, metricCh, metricClosed>>
tally == <<totalErrors, errorGauge>>
vars == <<wanted, main, gather, db, task, errChan, errClosed, metricCh, metricClosed, failed,
          sent, totalErrors, errorGauge, scrapeResults>>

TypeOK ==
  /\ wanted \in BOOLEAN
  /\ main \in {"idle", "receive", "error", "up", "close", "join"}
  /\ gather \in {"off", "run", "done"}
  /\ db \in [Databases -> {"off", "start", "report", "wait", "done"}]
  /\ task \in [Tasks -> {"off", "run", "send", "report", "finish", "done"}]
  /\ errChan \subseteq Senders /\ Cardinality(errChan) <= ErrCap
  /\ errClosed \in BOOLEAN
  /\ metricCh \subseteq Tasks \cup Meta /\ Cardinality(metricCh) <= MetricCap
  /\ metricClosed \in BOOLEAN
  /\ failed \subseteq Senders
  /\ sent \subseteq Tasks
  /\ totalErrors \in Nat
  /\ errorGauge \in Nat
  /\ scrapeResults \subseteq Tasks \cup Meta

Init ==
  /\ wanted = TRUE
  /\ main = "idle"
  /\ gather = "off"
  /\ db = [d \in Databases |-> "off"]
  /\ task = [t \in Tasks |-> "off"]
  /\ errChan = {}
  /\ errClosed = FALSE
  /\ metricCh = {}
  /\ metricClosed = FALSE
  /\ failed = {}
  /\ sent = {}
  /\ totalErrors = 0
  /\ errorGauge = 0
  /\ scrapeResults = {}

-----------------------------------------------------------------------------
(* Helpers                                                                 *)

\* A send on a buffered channel waits for room.  (Mutant: it overruns the buffer.)
SendResultOverrun(s) == errChan' = errChan \cup {s}
SendResult(s) == Cardinality(errChan) < ErrCap /\ errChan' = errChan \cup {s}
SendSample(x) == Cardinality(metricCh) < MetricCap /\ metricCh' = metricCh \cup {x}

MoveTask(t, from, to) == task[t] = from /\ task' = [task EXCEPT ![t] = to]
MoveDb(d, from, to) == db[d] = from /\ db' = [db EXCEPT ![d] = to]

\* The WaitGroup of scrapeDatabase.  (Mutant: it is not waited for.)
TasksIgnored(d) == d \in Databases
TasksOver(d) == \A m \in Metrics : task[<<d, m>>] \in {"off", "done"}

\* The WaitGroup of scrape.
DatabasesOver == \A d \in Databases : db[d] = "done"

-----------------------------------------------------------------------------
(* The scraping goroutine: doScrape, scheduledScrape, scrape               *)

\* RunScheduledScrapes: the first scrape is immediate, ticks and requests that find one
\* pending are dropped.
Tick ==
  /\ wanted' = TRUE
  /\ UNCHANGED <<threads, channels, failed, sent, tally, scrapeResults>>

\* Lock e.mu, make the channels and start the goroutines.
Begin ==
  /\ main = "idle"
  /\ wanted
  /\ wanted' = FALSE
  /\ main' = "receive"
  /\ gather' = "run"
  /\ db' = [d \in Databases |-> "start"]
  /\ task' = [t \in Tasks |-> "off"]
  /\ errChan' = {} /\ errClosed' = FALSE
  /\ metricCh' = {} /\ metricClosed' = FALSE
  /\ failed' = {} /\ sent' = {}
  /\ totalErrors' = 0
  /\ scrapeResults' = {}
  /\ UNCHANGED errorGauge

\* The scraping goroutine receives while the databases are being scraped; another one
\* waits for them.  (Mutant: it waits itself, and receives afterwards.)
ReceivingAfterWait == main = "receive" /\ errClosed
Receiving == main = "receive"

\* for scrapeError := range errChan
Receive ==
  /\ Receiving
  /\ \E s \in errChan :
       /\ errChan' = errChan \ {s}
       /\ totalErrors' = totalErrors + (IF s \in failed THEN 1 ELSE 0)
  /\ UNCHANGED <<wanted, threads, errClosed, samples, failed, sent, errorGauge, scrapeResults>>

\* The channel is closed and drained: afterScrape.
Drained == errClosed /\ errChan = {}
AfterScrape ==
  /\ main = "receive"
  /\ Drained
  /\ errorGauge' = totalErrors
  /\ main' = "error"
  /\ UNCHANGED <<wanted, gather, db, task, channels, failed, sent, totalErrors, scrapeResults>>

\* The metadata samples.
SendMeta ==
  /\ main \in MetaPoints
  /\ SendSample(<<main>>)
  /\ main' = IF main = "error" THEN "up" ELSE "close"
  /\ UNCHANGED <<wanted, gather, db, task, errors, metricClosed, failed, sent, tally, scrapeResults>>

CloseMetrics ==
  /\ main = "close"
  /\ metricClosed' = TRUE
  /\ main' = "join"
  /\ UNCHANGED <<wanted, gather, db, task, errors, metricCh, failed, sent, tally, scrapeResults>>

\* wg.Wait, and unlock e.mu.  (Mutant: the gathering goroutine is not waited for.)
GatheredIgnored == TRUE
Gathered == gather = "done"
End ==
  /\ main = "join"
  /\ Gathered
  /\ main' = "idle"
  /\ UNCHANGED <<wanted, gather, db, task, channels, failed, sent, tally, scrapeResults>>

-----------------------------------------------------------------------------
(* The goroutines that gather samples and close errChan                    *)

Gather ==
  /\ gather = "run"
  /\ \E x \in metricCh :
       /\ metricCh' = metricCh \ {x}
       /\ scrapeResults' = scrapeResults \cup {x}
  /\ UNCHANGED <<wanted, threads, errors, metricClosed, failed, sent, tally>>

GatherEnd ==
  /\ gather = "run"
  /\ metricClosed
  /\ metricCh = {}
  /\ gather' = "done"
  /\ UNCHANGED <<wanted, main, db, task, channels, failed, sent, tally, scrapeResults>>

CloseErrors ==
  /\ main = "receive"
  /\ ~errClosed
  /\ DatabasesOver
  /\ errClosed' = TRUE
  /\ UNCHANGED <<wanted, threads, errChan, samples, failed, sent, tally, scrapeResults>>

-----------------------------------------------------------------------------
(* scrapeDatabase                                                          *)

\* Invalid, still warming up or unreachable: one result, and no metrics.
Skip(d) ==
  /\ MoveDb(d, "start", "report")
  /\ \/ failed' = failed \cup {d}
     \/ UNCHANGED failed
  /\ UNCHANGED <<wanted, main, gather, task, channels, sent, tally, scrapeResults>>

ReportSkip(d) ==
  /\ MoveDb(d, "report", "wait")
  /\ SendResult(d)
  /\ UNCHANGED <<wanted, main, gather, task, errClosed, samples, failed, sent, tally, scrapeResults>>

\* Pinged: one goroutine per metric.
Fork(d) ==
  /\ MoveDb(d, "start", "wait")
  /\ task' = [t \in Tasks |-> IF t[1] = d THEN "run" ELSE task[t]]
  /\ UNCHANGED <<wanted, main, gather, channels, failed, sent, tally, scrapeResults>>

\* The deferred wg.Wait, then wg.Done of the outer group.
Join(d) ==
  /\ MoveDb(d, "wait", "done")
  /\ TasksOver(d)
  /\ UNCHANGED <<wanted, main, gather, task, channels, failed, sent, tally, scrapeResults>>

-----------------------------------------------------------------------------
(* One metric of one database                                              *)

\* Cached or queried: there are samples, or none.
Query(t) ==
  /\ \/ MoveTask(t, "run", "send")
     \/ MoveTask(t, "run", "report")
  /\ UNCHANGED <<wanted, main, gather, db, channels, failed, sent, tally, scrapeResults>>

CacheAndSend(t) ==
  /\ MoveTask(t, "send", "report")
  /\ SendSample(t)
  /\ sent' = sent \cup {t}
  /\ UNCHANGED <<wanted, main, gather, db, errors, metricClosed, failed, tally, scrapeResults>>

\* The result goes out before the cache's LastScraped is written.
ReportMetric(t) ==
  /\ MoveTask(t, "report", "finish")
  /\ SendResult(t)
  /\ \/ failed' = failed \cup {t}
     \/ UNCHANGED failed
  /\ UNCHANGED <<wanted, main, gather, db, errClosed, samples, sent, tally, scrapeResults>>

\* SetLastScraped or the scrape_errors counter, then wg.Done.
FinishMetric(t) ==
  /\ MoveTask(t, "finish", "done")
  /\ UNCHANGED <<wanted, main, gather, db, channels, failed, sent, tally, scrapeResults>>

-----------------------------------------------------------------------------
(* Specification                                                           *)

MainNext == Begin \/ Receive \/ AfterScrape \/ SendMeta \/ CloseMetrics \/ End
GatherNext == Gather \/ GatherEnd
DbNext(d) == Skip(d) \/ ReportSkip(d) \/ Fork(d) \/ Join(d)
TaskNext(t) == Query(t) \/ CacheAndSend(t) \/ ReportMetric(t) \/ FinishMetric(t)

Next ==
  \/ Tick
  \/ MainNext
  \/ GatherNext
  \/ CloseErrors
  \/ \E d \in Databases : DbNext(d)
  \/ \E t \in Tasks : TaskNext(t)

Spec == Init /\ [][Next]_vars

\* Goroutines are scheduled; a send that waits for room competes with others for it.
FairSpec ==
  /\ Spec
  /\ WF_vars(MainNext)
  /\ WF_vars(GatherNext)
  /\ WF_vars(CloseErrors)
  /\ \A d \in Databases : SF_vars(DbNext(d))
  /\ \A t \in Tasks : SF_vars(TaskNext(t))

-----------------------------------------------------------------------------
(* Properties                                                              *)

\* Nobody is left to send on a closed channel, where a send panics.
NoSendOnClosed ==
  /\ errClosed =>
       /\ \A d \in Databases : db[d] \notin {"start", "report"}
       /\ \A t \in Tasks : task[t] \notin {"run", "send", "report"}
  /\ metricClosed =>
       /\ main \notin MetaPoints
       /\ \A t \in Tasks : task[t] \notin {"run", "send"}

\* Which goroutine can go on.
CanSendResult == Cardinality(errChan) < ErrCap
CanSendSample == Cardinality(metricCh) < MetricCap
MainCan ==
  \/ Receiving /\ errChan # {}
  \/ main = "receive" /\ (Drained \/ (~errClosed /\ DatabasesOver))
  \/ main \in MetaPoints /\ CanSendSample
  \/ main = "close"
  \/ main = "join" /\ Gathered
GatherCan == gather = "run" /\ (metricCh # {} \/ metricClosed)
DbCan(d) ==
  \/ db[d] = "start"
  \/ db[d] = "report" /\ CanSendResult
  \/ db[d] = "wait" /\ TasksOver(d)
TaskCan(t) ==
  \/ task[t] \in {"run", "finish"}
  \/ task[t] = "send" /\ CanSendSample
  \/ task[t] = "report" /\ CanSendResult

\* While a scrape goes on one of its goroutines can: full channels, empty channels, the
\* close of each and the two levels of WaitGroups never make all of them wait for each other.
NeverStuck ==
  main # "idle" =>
    MainCan \/ GatherCan \/ (\E d \in Databases : DbCan(d)) \/ \E t \in Tasks : TaskCan(t)

\* No goroutine of a scrape outlives it: the next one, which may replace the metrics and
\* their caches, finds nobody reading or writing them.
NoStragglers ==
  main = "idle" =>
    /\ gather # "run"
    /\ \A d \in Databases : db[d] \in {"off", "done"}
    /\ \A t \in Tasks : task[t] \in {"off", "done"}

\* To those who take e.mu to read e.scrapeResults, and those who read the error gauge at any
\* time, all goroutines and channels are one AtomicScrape: a request never sees a part of
\* the samples, none is dropped or comes in late, and the gauge is never that of half a
\* scrape.
Abstract ==
  INSTANCE AtomicScrape
  WITH Sources <- Tasks, Reporters <- Senders, Always <- Meta,
       phase <- IF main = "idle" THEN "ended"
                ELSE IF main = "receive" THEN "scraping" ELSE "counted",
       found <- sent, failures <- failed,
       results <- IF main = "idle" THEN scrapeResults ELSE {},
       errors <- errorGauge
ImplementsScrape == Abstract!Spec

\* A scrape ends, however small the channels are.
ScrapeEnds == main # "idle" ~> main = "idle"
=============================================================================
