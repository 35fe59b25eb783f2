# Oracle Database Metrics Exporter: TLA+ models and proofs

The exporter keeps one `database/sql` pool per monitored database, runs SQL metric
definitions against it on HTTP requests or on a timer, exports alert log records to a file,
reloads custom metrics when their files change and replaces its own process when its
configuration changes. These modules model the parts of it whose correctness depends on
the order of things: goroutines, locks, channels, timers, crashes, files that others
edit, and secrets that others rotate. TLC checks each on small instances; TLAPS proves
their safety properties for any size.

Source paths are relative to the repository (`src/` here). `PROJECT.json` maps every
definition to the lines it models.

## 1. Inventory

### Components

| Component | State | Operations | Model |
|---|---|---|---|
| Database connection (`collector/database.go`, `connect_*.go`) | `Session`, `connectErr`, `Up`, `invalidUntil`, `startupReady`; `reconnectMU` (RWMutex), `reconnectAttemptMU` | `NewDatabase`, `WarmupConnectionPool`, `ping`, `reconnect`, `invalidate`, `clearInvalid`, `setUp`, `IsValid`, `Query`, `QueryContext`, `PingContext`, `UpMetric` | `DatabaseConnection`, `SessionOwnership` |
| Scrape (`collector/collector.go`) | `e.mu`, `errChan`, `metricCh`, WaitGroups, `scrapeResults`, error gauge | `doScrape`, `scheduledScrape`, `scrape`, `scrapeDatabase`, `afterScrape`, `Collect` | `ScrapeFanOut` |
| Scheduling, startup, metric cache (`collector.go`, `metrics.go`, `cache.go`) | ticker, `scrapeRequests`, per-metric cache and `LastScraped` | `RunScheduledScrapes`, `requestScheduledScrape`, `InitializeDatabases`, `isScrapeMetric`, cache operations | `ScrapeSchedule` |
| Custom metric reload (`collector.go`, `data_loader.go`) | `metricsToScrape`, `customMetricsHashes` | `checkIfMetricsChanged`, `reloadMetrics`, `refreshCustomMetricsHashes` | `MetricsReload` |
| Alert log export (`alertlog/`) | the output file, `databaseRetries` | `UpdateLog`, `readLastMatchingLogRecord`, `recordFailure`, `recordSuccess` | `AlertLog`; its use of the session in `DatabaseConnection` |
| Dynamic configuration (`restart/`, `main.go`) | fingerprint, watcher, `restartRequests` | `WatchConfigFile`, `RequestRestart`, `RunRestartCoordinator`, `Process`, boot | `ConfigRestart` |
| Metric definitions and samples (`metrics.go`, `data_loader.go`, `default_metrics.go`, `collector.go`, `cache.go`) | definitions by identifier, `MetricsCache`, what a scrape has sent | `normalizeIdentifiers`, `createMetricID`, `mergeMetrics`, `initCache`, `scrapeGenericValues`, `constLabels`, `duplicatedLabels` | `MetricSamples` |
| Session set-up: credentials and pool sizes (`connect_*.go`, `config.go`, `*vault/`, `database.go`) | `fetchedSecert`, `Session`, `connectErr`, `Up`, the connections a warmup holds | `GetUsername`, `GetPassword`, `fetchHashiCorpVaultSecret`, the vaults' `GetVaultSecret`, `connect`, `warmupSession`, `ping` | `SessionSetup` |
| Configuration file: defaults, environment, validation (`config.go`) | none | `LoadMetricsConfiguration`, `merge`, `validate` | its outcome, in `ConfigRestart` |
| HTTP server, logging set-up (`main.go`) | none of its own | | not modelled |

### How they interact

* `main` loads the configuration, starts the restart coordinator and the config watcher,
  builds the exporter, then starts in this order: the scheduled scrapes (if configured),
  the restart timer, the alert log goroutine, the HTTP server, and last
  `InitializeDatabases`, which warms up one database after the other. Everything but the
  warmup may therefore find a database that is not ready.
* A scrape holds the exporter's mutex `e.mu` from beginning to end. It checks the custom
  metric files, starts one goroutine per database and, in each, one per metric. Results
  meet on `errChan`; samples go to the HTTP request or, in scheduled mode, to a goroutine
  that appends them to `scrapeResults`.
* All goroutines of a database share `d.Session` under `d.reconnectMU`. A query holds the
  read lock until its rows are closed: `QueryContext` hands the unlock to its caller.
  `reconnect` builds a new pool outside the lock and swaps it under the write lock.
* The alert log goroutine uses the same session, without a deadline.
* Each `connect` reads the password and then the username, each from the first source that
  is configured; only the HashiCorp secret is kept, in a map that the copies of the
  configuration share. A ping that fails never reads credentials again, a session that was
  never opened does.
* Default and custom definitions are merged by identifier, at startup and on each reload;
  each database keeps a cache record per definition, which is what a scrape within the
  definition's own interval serves.
* A restart (`syscall.Exec`) ends every goroutine between any two steps; only the files
  survive it.

### What is hard

* **Locks with I/O under them**: a read lock of an RWMutex held across a ping or a query,
  with a pending writer keeping new readers out, inside `e.mu`.
* **Checks that go stale**: `IsValid` before `StartupReady`; files opened two or three
  times per change; a ticker's buffered tick.
* **Channels and WaitGroups two levels deep**: who closes, who drains, in what order.
* **Coalescing**: scrape requests and restart requests that are dropped when one is
  pending.
* **State that outlives its source**: a secret kept while the vault rotates it, a cache
  filled by half a result, caches indexed by definitions a reload has replaced.
* **Partial failure**: a pool that opens but does not warm up, a reload with one bad file,
  a query that fails after some rows, a line that is half written.

The list with lines and the properties for each is `hazards` in `PROJECT.json`.

### What makes each component correct

* Connection: nobody works on a closed pool and no pool is left open; the warmup runs
  alone; up = 1 is never exported in a backoff; locks are released; a database recovers
  when it comes back and is reported down when it stays away.
* Scrape: no send on a closed channel, never everyone waiting for everyone, the snapshot
  complete and every failure counted, no goroutine left over, the scrape ends.
* Scheduling: every database is scraped once its warmup is over; the cache serves complete
  results only.
* Reload: all files or none, the last good set is kept, files that stay good are used,
  reloads stop.
* Alert log: every record once, none skipped, across restarts.
* Definitions and samples: the last definition of a metric is the one in use, and every
  page can be gathered, whatever the databases' labels and whatever the cache holds.
* Session set-up: username and password belong together, external authentication is never
  an accident, up = 1 means the server was reached, and a database comes up when it can.
* Configuration: a good file is applied, a bad one changes nothing, requests are not lost.

## 2. Modules

Each module is independent of the others and shares no state with them; they meet at the
interfaces described with each. `SessionOwnership`, `AtomicScrape`,
`AtomicReload` and `OrderedExport` are abstract specifications, which `DatabaseConnection`,
`ScrapeFanOut`, `MetricsReload` and `AlertLog` implement; the proofs about a module `M` are in `MProofs`.

### DatabaseConnection, SessionOwnership

One database and every goroutine that touches it: `Scrapers` (HTTP requests or the ticker
loop, serialised by `mu`), `Workers` (the metric goroutines of the scrape in progress), the
warmup and the alert log. Variables carry the names of the Go fields; `readers` and
`writer` are the RWMutex, `handle` says what became of each `*sql.DB`, `using` is the
handle a goroutine has copied out of the session. One action is one critical section, or
one end of a section with I/O in it (`PingBegin` .. `PingEnd`, `QueryBegin` .. `RowsDone`).
`AnnounceLock` and `Locked` are the two halves of `RWMutex.Lock`: with the first, new
readers are kept out (`CanRLock`), with the second the old ones are gone.

Time is abstracted: `invalid` is `"future"` until `BackoffExpires`. `reachable` is the
server, and changes at any moment; a query may fail at any time. `DeadlineRaces` says
whether rows may come back after the deadline has passed.

`SessionOwnership` is what the locking promises, without locks: borrowers borrow the
current handle, and it is replaced only when nobody has it. `DatabaseConnection`
implements it under the mapping `current <- session`, `borrowed <- Borrowed`.

### ScrapeFanOut, AtomicScrape

The goroutines of one scrape, and scrapes one after the other under `e.mu`: the scraping
goroutine (`main`), the one that gathers samples, one per database, one per task (database
and metric). A channel is the set of those whose message is in it, with a capacity;
`errClosed` and `metricClosed` are the `close` calls. The capacity of `errChan` is a
constant because it is computed before a reload can change the number of metrics. The
samples of one metric count as one message, and the metadata samples as two, which makes
the sender wait as often as it can matter for a channel of any capacity.

### ScrapeSchedule

The clock, the ticker (`due`), the loop of `RunScheduledScrapes`, the token of
`scrapeRequests`, the sequential warmup, and for one metric with an interval of its own the
cache per database. A scrape visits the databases one by one; in the code they run in
parallel but do not share the state modelled here. `tick` is the time a scrape is given,
which for a ticker is when it was due, not when it is received. `scheduled` is chosen in
the initial state: it says whether `metrics.scrapeInterval` is configured, and without it
HTTP requests scrape (`Collect`).

### MetricsReload, AtomicReload

The custom files, and the exporter going over them: hash and compare (`Check`), load
(`Load`), hash again (`Refresh`). Each open of a file is a step, and `Edit` may change,
break or remove a file between two. A file's content stands for its hash and its
definitions. `racy`, chosen in the initial state, says whether a file may be edited in the
middle of a reload.

`AtomicReload` is what those who scrape may rely on: definitions change at one stroke, from
one whole set of good files to another, and to what is on disk unless files were edited in
the middle. A reload that fails is no step of it at all. Under the mapping
`Files <- Index, Good <- Valid, Bad <- Invalid \cup {Missing}, edited <- racy`, only the
end of a load is a `Reload`.

### AlertLog, OrderedExport

The view of each database as a sequence of timestamps, the output file or files as lines,
and `UpdateLog` for one database after the other: find the last matching line, query what
is later, append row by row. `Restart` is a new process; `Torn` leaves part of a line,
after which the process may go on (`WriteFails`) or not (`Crash`). The retry backoff is the
set of databases that wait; its durations are left out.

`OrderedExport` has no scan and no timestamps to resume from: a file grows by the record
of a database that comes after those it has (`Export`). `AlertLog` implements it with
`orderly <- (upsets = {})` and `Times <- Records`, whatever fails or restarts: only
`WriteLine` is an `Export`.

### MetricSamples

The definitions of the default and the custom files, merged by identifier, and a scrape
that comes to each metric of each database in any order: from the cache (`SendAll`), not at
all (`Reject`, `SkipDuplicated`, `SkipDatabase`), or with a query whose result may end
anywhere (`ScrapeMetric`). A name is a sequence of words, joined by underscores in the code,
so that identifiers and sample names are concatenations and two names may join to the same
one. `page` is what the scrape has sent; `panicked` is set by a sample whose descriptor is
invalid: without a name, with a blank label or with a label twice. `WellDefined` is what the
code leaves to those who write definitions, queries and the configuration; `Unambiguous` is
about the names of two definitions, and holds of any two of the default metrics, which
`ShippedAssumption` has TLC check. `Begin` edits, reloads or leaves the custom files; `Restart` may find them broken.

### SessionSetup

One database: the password and the username are read in two steps (`ReadPassword`,
`Open`), `InitDB` is the first to contact the server, `Acquire` takes one connection after
the other up to the warmup's size, and pings follow. `booting` tells the startup, which
publishes the session before its warmup, from `reconnect`, which publishes it after. A
secret is its version, so that a username and a password belong together when their
versions are equal; `Rotate`, `EditSecret`, `LeasesEnd`, `StoresChange` and `ServerChanges`
are the world. Oracle's error codes are kept as far as they decide between a backoff and
none. The configuration's settings, driver and sizes are chosen in the initial state.

### ConfigRestart

The config file, the boot sequence (`Load`, `Fingerprint`, `Watch`, `Start`), the watching
goroutine, the coordinator and the `RESTART_INTERVAL` timer. `Exec` is a new process in
the old one's place. `Unusable` contents validate, but the process ends of them: `main`
panics before the server is up (`Start`), a scrape panics (`ScrapePanics`) or the HTTP server
fails (`ServerFails`). `verdict` is no state of the code: it records that the watcher has
found the file on disk invalid, for `KeepsPreviousVersion`.

### Untimely events

In `AlertLog` and `ConfigRestart` the initial state chooses `upsets`, the untimely events
the behaviour admits (an edit during boot, rows out of order, a torn line, ...). One run
then covers every combination, and a property names in its antecedent exactly the events
that break it; the others it survives.

## 3. Runs

| Run | Instance | Properties | Result |
|---|---|---|---|
| `db_safety` | 2 scrapers, 2 metrics, 3 handles, deadline race, symmetry | `TypeOK`, `NoUseAfterClose`, `NoHandleLeak`, `NoTrafficDuringWarmup`, `NeverUpInBackoff`, `ImplementsOwnership` | pass |
| `db_liveness` | 2 scrapers, 1 metric, 2 handles, fair, no deadline race | `ScrapesFinish`, `Recovers`, `DetectsOutage` | pass |
| `db_lock_leak` | deadline race | `LockReleased` | violated |
| `scrape_fan_out` | 2 databases x 1 metric, capacities 1, fair | `TypeOK`, `NoSendOnClosed`, `NeverStuck`, `NoStragglers`, `ImplementsScrape`, `ScrapeEnds` | pass |
| `schedule` | 2 databases, with and without a scrape interval, fair | `TypeOK`, `RequestNotLost`, `CachedIsComplete`, `ScrapedAfterWarmup` | pass |
| `reload` | 2 files, 3 edits, fair | `TypeOK`, `ImplementsAtomicReload`, `HotReload`, `ReloadsStop` | pass |
| `reload_race` | 1 file, 3 edits, fair | `ServesNewMetrics` | violated |
| `alert_log` | 2 databases x 2 records in one file, all upsets, fair | `TypeOK`, `NoDuplicates`, `ImplementsExport`, `EveryRecordExported` | pass |
| `samples` | 2 databases with different labels, 10 states of the custom files | `TypeOK`, `LastDefinitionInUse`, `Gatherable` | pass |
| `session` | 7 sets of credential settings x 2 drivers x sizes 0, 1, 3; 2 versions of a secret, 1 restart, fair | `TypeOK`, `CredentialsPaired`, `ExternalAuthIntended`, `UpWasReached`, `ComesUp` | pass |
| `config` | 4 contents that are accepted (two of them unusable), 1 bad, 3 edits, all upsets, fair | `TypeOK`, `RestartNotLost`, `ChangeNoticed`, `StaysUp`, `AppliesChange` | pass |
| `config_exit` | the same | `KeepsPreviousVersion` | violated |

All bounds are constants of the instances. `alert_log`, for its strong fairness, and
`samples`, for its sequences, take a minute or two; the others take seconds.

### What the violations show

A run that ends in a violation states what the documentation, a comment or a test says of
the program; `findings` in `PROJECT.json` quotes it and names the line.

* `db_lock_leak`: `generatePrometheusMetrics` returns early when the deadline has passed
  although `QueryContext` has handed it rows and an unlock (`collector.go:580`). The read
  lock is held for good.
* `reload_race`: a custom file edited between its load and the second hashing is not loaded
  until it is edited again (`data_loader.go:23`).
* `config_exit`: the watcher finds a file invalid and keeps the process, but
  `RESTART_INTERVAL` then replaces it (`main.go:189`), and the new process exits of the file
  that had been rejected. `KeepsPreviousVersion` is about the step that loads such a file;
  of a file that nobody has looked at, or that is missing, it says nothing.

The antecedents of the passing properties record further divergences, each of which TLC
shows when the antecedent (or the fairness named) is dropped:

* `CachedIsComplete` without `~scheduled`: a tick buffered during a scrape is older than the
  last good query, so the cache is served though a query that failed half-way has reset it
  (`collector.go:214`, `metrics.go:37`).
* `ScrapesFinish` without `AlertQueryReturns`: the alert log's `Query` has no deadline and
  holds the read lock (`database.go:279`); the writer of `setUp` waits for it, and the scrape
  waits with the exporter's mutex.
* `EveryRecordExported` with `"tie"`: a record with the timestamp of the one before it is not
  selected any more (strict comparison, `alertlog.go:58`); with a third record that follows,
  `ImplementsExport` shows it too. `ImplementsExport` with `"order"` or `"torn"`: rows come in
  any order (`alertlog.go:56`); a line is appended to one that has no newline
  (`alertlog.go:274`).
* `AppliesChange` without `"boot"`: what is written between the load of the file and the
  start of the watch is the watcher's reference and is never loaded (`config_watcher.go:57`).
* `AppliesChange` without `"watch"`: when fsnotify cannot watch the directory
  (`config_watcher.go:62`), `main` logs it and goes on without a watch (`main.go:138`), and no
  edit is noticed any more.
* `StaysUp` without `Unusable`: validation (`config.go:420`) covers the vaults and the log level
  and format. With a `metricsPath` of `/` `http.Handle` panics (`main.go:173`), with a
  `log.interval` of zero the alert log's ticker does (`main.go:225`), with a negative
  `metrics.scrapeInterval` the scheduled scrapes' (`collector.go:208`), with a label that no
  metric may have the first sample of a scrape (`database.go:37`), and of web settings it
  cannot use the server ends (`main.go:255`). An edit to such a file makes the exporter exit.
* `StaysUp` without `"restart"`: the file may be broken between its validation and its load.
* `ComesUp` without `WarmupFits`: with godror the warmup goes by `maxOpenConns`, 10 unless it
  is set, though `poolMaxConnections` may be smaller (`connect_godror.go:94`). The warmup
  holds all sessions of the pool, waits five seconds for one more and fails; the session
  never comes up after a reconnect, and at startup only with the next ping.
* `ComesUp` without `~Outdated`: a HashiCorp secret is kept for the life of the process
  (`config.go:248`), and a pool keeps the credentials it was opened with. After a rotation
  new connections are refused until a restart, as `hashicorp-vault.md:89` says of dynamic
  secrets.
* `CredentialsPaired` for OCI and Azure: username and password are two secrets read one
  after the other at each connect, and a rotation in between mixes them.
* `ExternalAuthIntended` for the other sources: an empty OCI or Azure secret or password
  file turns the connect to external authentication (`connect_godror.go:32`). A password
  file's trailing newline is part of the password (`config.go:289`), which versions do not
  show.
* `UpWasReached` with both sizes below one: the warmup acquires nothing and sets up = 1
  whatever `initdb` met, since its errors are only logged (`database.go:319`).
* `LastDefinitionInUse` without `Unambiguous`: the identifier joins context and columns with
  underscores (`metrics.go:80`), so context `s` with the column `x_y` replaces `s_x` with `y`.
  It takes a context, or a column of the same context, that goes on where another one ends.
* `Gatherable` without `WellDefined`: `duplicatedLabels` compares a definition's labels with
  the database's only (`collector.go:630`); the same label twice, possibly in another case,
  panics when the first sample is built. A label that a database's configuration gives the
  name of the database label replaces the database's name (`database.go:47`), and two
  databases that do so with the same value send the same samples. A `fieldtoappend` that the
  query does not return, or whose value is blank, leaves the last part of the name empty
  (`collector.go:674`); `BuildFQName` then returns no name at all, the descriptor is invalid and
  the sample panics (`collector.go:552`).

One more thing shows in `DatabaseConnection`: a scrape tests `IsValid` and only then
`StartupReady` (`collector.go:292`), so that a warmup that fails in between starts a backoff
in which the scrape then pings. `NeverUpInBackoff` holds all the same.

### Why the bounds are enough

* *Connection.* Scrapers exclude each other through `mu`, so a second one adds what a
  scrape waiting for the mutex can see; two metric goroutines let one hold the read lock
  while another waits behind a writer; three handles are the old one, the new one and one
  more that a second reconnect may open. The safety properties are proved for every size.
* *Fan-out.* Two databases with a task each make four senders on channels with one place, so
  that every send waits somewhere; a larger channel only removes waiting. Two metrics in
  each make the fair run too long; the invariants are proved for any number.
* *Schedule.* Two databases give one that is warming while the other is scraped; the
  clock's bound covers a metric interval and two ticks after it.
* *Reload.* Two files are a first and a last one; three edits break, repair and change
  again. The same three suffice for the configuration. Two of its good contents can be
  lived with, so that the file can go from one to the other and back; with the third `main`
  panics, with the fourth scrapes or the server fail.
* *Samples.* Two databases of which one has a label the other has not are what
  `allConstLabels` is about. Each state of the custom files is one way in which definitions
  interfere: an override in another case, one disabled for a database, a field appended, a
  histogram with and without buckets, no context, a label a database has, the same
  identifier, a label twice, an appended field that the query does not return. Results have two rows, so that one can be lost.
* *Session.* The seven settings take every source as the first of its list, alone and with a
  fallback; sizes 0, 1 and 3 with a cap of 2 are below, at and above each limit, for each of
  the two sizes. Two versions of a secret are a current and an outdated one; the restart
  is what forgets them. Negative sizes behave as zero does and are covered by the proofs.
* *Alert log.* Two databases interleave in a file; with two records one can be lost before
  one that is exported, or repeated after it. The run shares one file, the harder mode;
  the proofs cover a file per database (`PerDatabaseFiles`) too, where the scan accepts any
  line, and any number of records. Liveness is checked for the shared file only.

### Fairness

* `ScrapeFairness`: goroutines are scheduled; `sync.Mutex` and `sync.RWMutex` do not starve,
  hence strong fairness where a lock is awaited; tickers or HTTP clients keep asking for
  scrapes; a backoff elapses; pings and metric queries have a deadline and so return.
  The alert log query has none: that it returns is the separate assumption
  `AlertQueryReturns`, without which `ScrapesFinish` fails.
* `ScrapeFanOut`: a goroutine that can send infinitely often eventually does (strong
  fairness, as for a Go channel, which serves waiting senders in order).
* `ScrapeSchedule`: the warmup and the loop run. Neither the clock nor an HTTP request is
  assumed to come, so `ScrapedAfterWarmup` shows that requests alone suffice.
* `MetricsReload`: scrapes keep coming. `ConfigRestart`: goroutines are scheduled; an edit,
  a `RESTART_INTERVAL` tick or a panic is not assumed to come, and a `syscall.Exec` or an
  fsnotify that may fail is not relied on (`AppliesChange` excludes `"exec"` and `"watch"`).
* `SessionSetup`: the goroutine that sets up a session runs, scrapes keep pinging, backoffs
  end. Nothing is assumed of stores, server and secrets; `ComesUp` says in its antecedent
  what they must do.
* `MetricSamples` has no fairness and no liveness property.
* `AlertLog`: backoffs end, and each database has again and again a turn in which its
  query and writes succeed. `Fails`, `Restart` and `Skip` are possible at all times, and
  without this nothing would follow.

Deadlock is checked for the connection and the fan-out, which always have something to do, and
for the reload, the samples and the session. It is off for the schedule (the clock ends and the loop may wait for
ever), the alert log (nothing is left to do at the bound) and the configuration (the
process may have exited, or wait for an edit).

## 4. Proofs

`DatabaseConnectionProofs` proves, for any sets of scrapers, metric goroutines and handles,
with the assumptions that the actors are distinct, that nil is not a handle and that
`DeadlineRaces` is Boolean:

| Theorem | States |
|---|---|
| `TypeCorrect` | `Spec => []TypeOK` |
| `OwnershipCorrect` | `Spec => []OwnershipInv`, the inductive invariant |
| `SessionsInUseAreOpen` | `Spec => []NoUseAfterClose` |
| `HandlesAreClosed` | `Spec => []NoHandleLeak` |
| `WarmupIsAlone` | `Spec => []NoTrafficDuringWarmup` |
| `LockIsReleased` | `~DeadlineRaces => (Spec => []LockReleased)` |
| `LocksNeverDeadlock` | `Spec => []NoDeadlock` |
| `ReportedHealthIsConsistent` | `Spec => NeverUpInBackoff` |
| `OwnershipIsImplemented` | `Spec => ImplementsOwnership` |

**The argument.** `NoUseAfterClose` is not inductive: that a reader's handle is open does
not say that the handle is the session, and only the session is closed, by the writer, when
there are no readers. `OwnershipInv` adds what is missing, part by part:

* `ReadersInv`: whoever is inside a ping or a query holds the read lock and works on the
  session. So a writer, which waits for the readers to leave, finds none of them.
* `UsingInv`: everyone else with a handle is a warmup on the session or a reconnect on a
  handle of its own, open and unpublished.
* `MutexInv`, `WorkersInv`: at most one scraper is active, and metric goroutines only live
  while it waits for them, so that a reconnect has no metric goroutine beside it.
* `StartupInv` and `NoTrafficDuringWarmup`: the warmup works on the session without a lock,
  which is sound only because nobody else has passed `StartupReady` yet. That they hold
  each other up is why they are in the invariant.
* `NoHandleLeak` and `SessionInv`: the published handle is open, and any other open one is
  in the hands of its reconnect.

`LockReleased` needs the set of readers to be exact, which the deadline race breaks; the
theorem says that nothing else does. `NeverUpInBackoff` needs `HealthInv`: `up = 1` and a
backoff hold together only while a scraper is between `setUp(1)` and `clearInvalid`, and
that scraper holds `e.mu`, so no report comes in between. `NoDeadlock` says that while anybody waits for a lock, a mutex or
metric goroutines, somebody at work waits for nobody, unless the read lock was left held. It
needs `LocksInv`, the writer is on its way through `Lock` and the holder of
`reconnectAttemptMU` in a reconnect: whoever holds the read lock waits for nobody, the writer
for readers only, everyone else for one of these. That waiting ends is liveness and stays
with `ScrapesFinish`. Each preservation lemma has one
step per action. For the refinement, steps of the concrete specification map to `Borrow`,
`Return`, `Replace` or stutter, with `OwnershipInv` supplying that a replacement finds no
borrower.

### The other modules

| Module | Theorems | Argument |
|---|---|---|
| `ScrapeFanOutProofs` | `TypeCorrect`, `ChannelsCloseLast` (`NoSendOnClosed`), `ScrapeNeverStuck` (`NeverStuck`), `GoroutinesEnd` (`NoStragglers`), `ScrapeIsAtomic` (`ImplementsScrape`) | `ScrapeInv`: a metric runs inside its database's goroutine and that one before `errChan` is closed (`GroupsInv`); samples are in `scrapeResults`, in `metricCh` or not yet sent (`SamplesInv`); whoever failed is counted, or its result is buffered or about to be sent (`ErrorsInv`, with cardinalities); a metric sends before its result and once (`SentInv`). A closed and drained `errChan` makes `AfterScrape` a `Count`, a closed and drained `metricCh` makes `End` an `End`; goroutines `Find` and `Fail` while `main` receives, which `GroupsInv` gives, and all else is a stutter. Somebody can always go on: a channel that is not empty can be received from, an empty one has room, and a WaitGroup waits for somebody who can. Any positive channel capacities. |
| `ScrapeScheduleProofs` | `TypeCorrect`, `NoRequestIsLost` (`RequestNotLost`), `CacheServesGoodScrapes` (`CachedIsComplete`) | `TicksGrow`: on demand, a metric whose cache is not complete stays due, because ticks only grow. |
| `MetricsReloadProofs` | `TypeCorrect`, `ReloadsAreAtomic` (`ImplementsAtomicReload`) | `LoadedSoFar`: the files a load has passed have all been good and, if none is edited in the middle, are still on disk as they were read. `AllOrNothing`: what is in use is whole, or nothing at startup. The end of a load is then a `Reload`, an edit an `Edit`, and every other action, failures included, a stutter. |
| `AlertLogProofs` | `TypeCorrect`, `NoRecordTwice` (`NoDuplicates`), `ExportIsOrdered` (`ImplementsExport`) | `Increasing`: a database's lines are in the order of its records. Appending keeps it because what is written is later than all that is there (`RowsInv`), which the query gives (`SinceInv`) since the backward scan finds the last line and timestamps do not decrease (`ViewInv`); torn lines are of no database. When things come in order a file has a beginning of each view (`OrderlyInv`), so that the timestamp found is where it ends and the row written is the next one. |
| `SessionSetupProofs` | `SetupTypes` (`TypeOK`), `SecretsArePaired` (`CredentialsPaired`), `NoSilentExternalAuth` (`ExternalAuthIntended`), `UpMeansReached` (`UpWasReached`) | What is kept of the HashiCorp secret is paired and complete, and what a connect has read is the kept one while it goes on; a warmup that ends with something to acquire has acquired it. Any sizes, caps and settings. |
| `ConfigRestartProofs` | `TypeCorrect`, `RequestsReachTheCoordinator` (`RestartNotLost`), `ChangesAreNoticed` (`ChangeNoticed`), `ExporterStaysUp` (`StaysUp`) | `WatchInv`, `NoticeInv` (what is being validated is on disk, or an event waits) and `RestartInv` (whatever leads to a load has found the file good, unless `RESTART_INTERVAL` did). |
| `MetricSamplesProofs` | `TypeCorrect`, `LastDefinitionWins` (`LastDefinitionInUse`), `PagesAreGathered` (`Gatherable`) | `SampleInv`: what is cached and what is sent is empty or the samples of the first rows of one result, of the definition in use and not of one it has replaced, and of none with a label of the database's. See below. |

`SampleInv` says where samples come from; that pages can be gathered then follows from what
the operators compute. `SamplesOfFirstRows`: a result cut short has the first of the samples
of the whole result, so that it has none twice if the whole has none. `SampleLabels`: a
sample has its database's name in the database label, so that databases send different
samples, and the label names of its definition and of all databases, so that they agree on
them. `MergedIsLast` and `IdentifiersTell`: a definition in use is the last with its
identifier, an identifier is that of one definition only, and where `Unambiguous` holds it
determines context and columns. The latter is `PrefixCode`: of sequences of which none goes on
where another ends, the concatenation tells the first from the first, then the second from
the second, and so on.

These facts are about sequences of sequences of any length, flattened by a recursive
function. The induction they take is over a set of numbers (`SetInduction`, from the
library's theorem that `<` on `Nat` is well-founded, stated for sets), so that no theorem
with an operator as a parameter is needed: `FlattenFunction` shows that the recursive
function exists, `FlattenParts` that it flattens one sequence after the other,
`FlattenElements` and `FlattenPrefix` what it contains and how it begins.

The assumptions are those the modules declare: positive capacities and intervals, contents
and senders that differ, and for `MetricSamples` that definitions, results and the alphabet
of column names are sequences of such, and that every column has a place in the alphabet. Each module has one lemma that the inductive invariant holds
initially, and one, or one per part, that every action preserves it. TLC agreed with every
invariant before it was proved.

**Model-checked only.** Liveness (`ScrapesFinish`, `Recovers`, `DetectsOutage` and that of
the other modules), which is out of TLAPS's reach.

## 5. Not modelled

* Parsing and formatting: numbers, the DSN, JSON, YAML and TOML, help texts and metric types.
  Straight-line code on strings. `cleanName` is lower-casing in `CleanName`, and one value,
  `Symbols`, stands for all that consist of the characters it removes.
* Labels and values that Prometheus refuses for their characters: in `MetricSamples` the names
  of labels are valid and values are UTF-8. A panic in a scrape ends the process, which
  `MetricSamples` shows as `panicked`; in `ConfigRestart` only the configuration causes one.
* Errors that a running fsnotify watcher reports, which are logged; it is taken to deliver
  what it watches.
* The clients of the vaults and how they authenticate: a vault answers or does not.
* What a configuration file says: `ConfigRestart` keeps whether it is rejected, accepted, or
  accepted although the process cannot live with it. Defaults and environment variables are straight-line code.
* The alert log's retry durations (doubling from one minute to fifteen, capped), which a
  test covers; `AlertLog` keeps that a database waits.
* The HTTP server and the exposition format, which belong to libraries. That the server
  may not start is `ServerFails`.
* `FREE_INTERVAL`, which only calls the runtime.
* An `errChan` of capacity zero, which exists when no metric at all is defined.
* Examples, dashboards, packaging and documentation.

## 6. Plan

What is left: *composition*, several databases under one `e.mu` with a reload between
scrapes, to show what a slow database does to the others.
