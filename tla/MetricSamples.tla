---------------------------- MODULE MetricSamples ----------------------------
(***************************************************************************)
(* From metric definitions to the page a scrape delivers: the definitions  *)
(* of the default and the custom files, merged by identifier               *)
(* (collector/metrics.go, data_loader.go), what each row of a query's      *)
(* result becomes (collector.go), and what a database's cache keeps of it  *)
(* for the scrapes in between (cache.go).                                  *)
(*                                                                         *)
(* A name is the sequence of words that underscores join, so that joining  *)
(* names is concatenation; the empty name is one empty word.  The          *)
(* metrics of a scrape touch nothing of each other, so each is one step;   *)
(* the goroutines are in ScrapeFanOut, and the opens of the files in       *)
(* MetricsReload.                                                          *)
(***************************************************************************)
EXTENDS Integers, SequencesExt

CONSTANTS
  Databases,
  OwnLabels,      \* the labels configured for each database
  DatabaseLabel,  \* metrics.databaseLabel
  LowerWord,      \* the lower-case form of each word
  Alphabet,       \* the lower-case column names, sorted
  Default,        \* the definitions of the default metrics
  Customs,        \* what the custom files may say: the definitions of all of them in order
  Broken,         \* one of the custom files does not parse
  Results         \* the results each request may have: sequences of rows

NoName == <<"">>           \* no context, no fieldtoappend; also the blank value of a label
Symbols == <<"*">>         \* any value of nothing but characters that cleanName removes
Nil == <<"<nil>">>         \* NULL
Number == <<"1">>          \* any value that is a number
Count == <<"count">>
UpName == <<"up">>

VARIABLES
  loaded,    \* the definitions loaded from them
  inUse,     \* e.metricsToScrape: a definition for each identifier
  cache,     \* d.MetricsCache: the samples of each metric, and has LastScraped been set?
  todo,      \* the metrics of databases that this scrape has not come to
  page,      \* what it has sent for each
  panicked   \* has it built a sample its descriptor does not allow?

vars == <<loaded, inUse, cache, todo, page, panicked>>
definitions == <<loaded, inUse>>

-----------------------------------------------------------------------------
(* Definitions                                                             *)

Lower(name) == [i \in DOMAIN name |-> LowerWord[name[i]]]
LowerAll(names) == {Lower(n) : n \in names}

\* Rows are read by lower-case names.  Contexts are left as they are.
Normalized(m) ==
  [m EXCEPT !.columns = LowerAll(@), !.histograms = LowerAll(@), !.buckets = LowerAll(@),
            !.labels = [i \in DOMAIN @ |-> Lower(@[i])], !.append = Lower(@)]

Sorted(names) ==
  FlattenSeq([i \in DOMAIN Alphabet |->
    IF Alphabet[i] \in names THEN <<Alphabet[i]>> ELSE <<>>])

\* createMetricID.  (Mutant: the columns are forgotten.)
ContextOnly(m) == m.context
ID(m) == m.context \o FlattenSeq(Sorted(m.columns))

\* The default definitions, then those of the custom files.
All(file) == [i \in DOMAIN (Default \o file) |-> Normalized((Default \o file)[i])]

\* What definitions and results are made of.
Names == Seq(DOMAIN LowerWord) \ {<<>>}
Definitions == ToSet(Default) \cup UNION {ToSet(file) : file \in Customs}

ASSUME DefinitionsAssumption ==
  /\ Default \in Seq(Definitions)
  /\ Customs \subseteq Seq(Definitions)
  /\ \A m \in Definitions :
       Normalized(m).context \in Names /\ Normalized(m).columns \subseteq ToSet(Alphabet)
ASSUME AlphabetAssumption == Alphabet \in Seq(Names)
ASSUME NoNameAssumption == NoName \in Names /\ Lower(NoName) = NoName
ASSUME ResultsAssumption ==
  \A request \in DOMAIN Results : \A t \in Results[request] : t \in Seq(ToSet(t))

\* Each replaces the one before it that has its identifier.
Merged(file) ==
  LET all == All(file)
      Having(id) == {i \in DOMAIN all : ID(all[i]) = id}
  IN [id \in {ID(all[i]) : i \in DOMAIN all} |-> all[Max(Having(id))]]

\* A cache without samples, for the metrics in use.
EmptyCache(metrics) ==
  [d \in Databases |-> [id \in DOMAIN metrics |-> [samples |-> <<>>, scraped |-> FALSE]]]

\* reloadMetrics.  (Mutant: the caches stay as they are.)
CacheKept(metrics) == cache
NewCache(metrics) == EmptyCache(metrics)

-----------------------------------------------------------------------------
(* Samples                                                                 *)

\* A map with values of another one put over its own.
Over(f, g) == [x \in DOMAIN f \cup DOMAIN g |-> IF x \in DOMAIN f THEN f[x] ELSE g[x]]

AllOwnLabels == UNION {DOMAIN OwnLabels[d] : d \in Databases}

\* "All the metrics of the same name need to have the same labels".  (Mutant: the labels
\* of the other databases are not included.)
ConstLabelsOwn(d) == Over(OwnLabels[d], [l \in {DatabaseLabel} |-> <<d>>])
ConstLabels(d) == Over(ConstLabelsOwn(d), [l \in AllOwnLabels |-> NoName])

GetLabels(m) ==
  IF m.append = NoName THEN m.labels ELSE SelectSeq(m.labels, LAMBDA l : l # m.append)

\* (Mutant: the labels of the definition are not compared with those of the database.)
NoneDuplicated(d, m) == FALSE
DuplicatedLabels(d, m) == ToSet(GetLabels(m)) \cap DOMAIN ConstLabels(d) # {}

\* row[column], blank if the result has no such column.
Value(row, column) == IF column \in DOMAIN row THEN row[column] ELSE NoName

CleanName(name) == IF name = Symbols THEN NoName ELSE Lower(name)

MetricNameSuffix(m, column, row) ==
  IF m.append = NoName THEN column ELSE CleanName(Value(row, m.append))

\* Without its last part there is no name at all.
BuildFQName(context, suffix) ==
  IF suffix = NoName THEN NoName ELSE IF context = NoName THEN suffix ELSE context \o suffix

SampleName(m, column, row) == BuildFQName(m.context, MetricNameSuffix(m, column, row))

Sample(d, m, column, row) ==
  [name |-> SampleName(m, column, row),
   labels |-> Over([l \in ToSet(GetLabels(m)) |-> Value(row, l)], ConstLabels(d))]

\* Values that are not numbers are left out, and so are histograms without a count.
Parsed(m, column, row) ==
  /\ Value(row, column) \in {Nil, Number}
  /\ column \in m.histograms => Value(row, Count) = Number

RowSamples(d, m, row) ==
  LET columns == Sorted({c \in m.columns : Parsed(m, c, row)})
  IN [i \in DOMAIN columns |-> Sample(d, m, columns[i], row)]

Samples(d, m, rows) == FlattenSeq([i \in DOMAIN rows |-> RowSamples(d, m, rows[i])])

\* A descriptor without a name, with a blank label or with a label twice is invalid, and
\* MustNewConstMetric panics.
ValidDescriptor(d, m, name) ==
  /\ name # NoName
  /\ IsInjective(GetLabels(m))
  /\ ToSet(GetLabels(m)) \cap ({NoName} \cup DOMAIN ConstLabels(d)) = {}

\* The up metric of a database.
UpMetric(d) == [name |-> UpName, labels |-> ConstLabels(d)]

-----------------------------------------------------------------------------
(* A scrape                                                                *)

NoSamples(metrics) == [metric \in Databases \X DOMAIN metrics |-> <<>>]

\* What the custom files say by now: they are edited at any time.
Files == Customs \cup {Broken}

\* NewExporter: if the custom files cannot be loaded, the default metrics only.
AtStartup(file) == IF file = Broken THEN <<>> ELSE file

Init ==
  /\ loaded \in {AtStartup(file) : file \in Files}
  /\ inUse = Merged(loaded)
  /\ cache = EmptyCache(inUse)
  /\ todo = {}
  /\ page = NoSamples(inUse)
  /\ panicked = FALSE

\* A scrape begins; custom files that have changed and can be loaded are loaded first.
Begin ==
  /\ todo = {} /\ ~panicked
  /\ \E file \in Files :
       IF file \in {loaded, Broken}
       THEN UNCHANGED <<definitions, cache>>
       ELSE /\ loaded' = file
            /\ inUse' = Merged(file)
            /\ cache' = NewCache(inUse')
  /\ todo' = Databases \X DOMAIN inUse'
  /\ page' = NoSamples(inUse')
  /\ UNCHANGED panicked

\* The database is down, warming up or in its backoff.
SkipDatabase(d) ==
  /\ todo' = todo \ ({d} \X DOMAIN inUse)
  /\ todo' # todo /\ ~panicked
  /\ UNCHANGED <<definitions, cache, page, panicked>>

Enabled(d, m) == d \in m.databases

\* scrapeDatabase finds the definition wanting before it asks the database.
Rejected(m) ==
  m.request \notin DOMAIN Results \/ m.columns = {} \/ ~(m.histograms \subseteq m.buckets)

Take(d, id) ==
  /\ <<d, id>> \in todo /\ ~panicked
  /\ todo' = todo \ {<<d, id>>}
  /\ UNCHANGED definitions

\* Not for this database, or its interval is not over: what the cache has.
SendAll(d, id) ==
  /\ Take(d, id)
  /\ ~Enabled(d, inUse[id]) \/ (inUse[id].interval /\ cache[d][id].scraped)
  /\ page' = [page EXCEPT ![<<d, id>>] = cache[d][id].samples]
  /\ UNCHANGED <<cache, panicked>>

Reject(d, id) ==
  /\ Take(d, id)
  /\ Enabled(d, inUse[id]) /\ Rejected(inUse[id])
  /\ UNCHANGED <<cache, page, panicked>>

\* A label that the database has too: a warning, and no query.
SkipDuplicated(d, id) ==
  /\ Take(d, id)
  /\ Enabled(d, inUse[id]) /\ ~Rejected(inUse[id]) /\ DuplicatedLabels(d, inUse[id])
  /\ cache' = [cache EXCEPT ![d][id].scraped = TRUE]
  /\ UNCHANGED <<page, panicked>>

\* What the cache holds before the rows come.  (Mutant: what it held before.)
NotReset(d, id) == cache[d][id].samples
Reset(d, id) == <<>>

\* The query, whose rows may end in an error, is sent and cached row by row.  Without a
\* sample it is an error too, unless that is to be ignored.
ScrapeMetric(d, id) ==
  LET m == inUse[id] IN
  /\ Take(d, id)
  /\ Enabled(d, m) /\ ~Rejected(m) /\ ~DuplicatedLabels(d, m)
  /\ \E result \in Results[m.request] : \E n \in 0 .. Len(result) :
     \E failed \in {n < Len(result), TRUE} :
       LET samples == Samples(d, m, SubSeq(result, 1, n))
           failure == failed \/ (samples = <<>> /\ ~m.ignoreZeroResult)
       IN IF \E s \in ToSet(samples) : ~ValidDescriptor(d, m, s.name)
          THEN panicked' = TRUE /\ UNCHANGED <<cache, page>>
          ELSE /\ cache' = [cache EXCEPT ![d][id] =
                              [samples |-> Reset(d, id) \o samples,
                               scraped |-> @.scraped \/ ~failure]]
               /\ page' = [page EXCEPT ![<<d, id>>] = samples]
               /\ UNCHANGED panicked

\* The process ends, of a panic or otherwise, and is started again.
Restart ==
  /\ loaded' \in {AtStartup(file) : file \in Files}
  /\ inUse' = Merged(loaded')
  /\ cache' = EmptyCache(inUse')
  /\ todo' = {}
  /\ page' = NoSamples(inUse')
  /\ panicked' = FALSE

-----------------------------------------------------------------------------
(* Specification                                                           *)

Next ==
  \/ Begin
  \/ \E d \in Databases :
       \/ SkipDatabase(d)
       \/ \E id \in DOMAIN inUse :
            SendAll(d, id) \/ Reject(d, id) \/ SkipDuplicated(d, id) \/ ScrapeMetric(d, id)
  \/ Restart

Spec == Init /\ [][Next]_vars

-----------------------------------------------------------------------------
(* Properties                                                              *)

InUse == {inUse[id] : id \in DOMAIN inUse}

\* Every metric in use has a record in the cache of every database: goroutines look it up
\* without asking.
TypeOK ==
  /\ loaded \in Customs \cup {<<>>}
  /\ InUse \subseteq ToSet(All(loaded))
  /\ DOMAIN cache = Databases
  /\ \A d \in Databases :
       /\ DOMAIN cache[d] = DOMAIN inUse
       /\ \A id \in DOMAIN inUse : cache[d][id].scraped \in BOOLEAN
  /\ todo \subseteq Databases \X DOMAIN inUse
  /\ DOMAIN page = Databases \X DOMAIN inUse
  /\ panicked \in BOOLEAN

\* A definition in use is replaced by one "with the same context and metricsdesc", and "the
\* metric definition in the last file provided takes precedence" (custom-metrics.md:131,161),
\* whatever case its columns are written in. That no other one replaces it takes names of
\* which none goes on where another ends, as those of the default metrics: s with the column
\* x_y has the identifier of s_x with the column y.
SameMetric(m, n) == m.context = n.context /\ m.columns = n.columns
Apart(p, q) == ~IsStrictPrefix(p, q) /\ ~IsStrictPrefix(q, p)
Unambiguous(m, n) ==
  \/ SameMetric(m, n)
  \/ /\ Apart(m.context, n.context)
     /\ m.context = n.context => \A c \in m.columns, e \in n.columns : Apart(c, e)
LastDefinitionInUse ==
  LET all == All(loaded)
      LastOf(m) == all[Max({j \in DOMAIN all : SameMetric(all[j], m)})]
  IN \A m \in ToSet(all) :
       (\A n \in ToSet(all) : Unambiguous(m, n)) =>
         {n \in InUse : SameMetric(n, m)} = {LastOf(m)}

\* What is left to who writes definitions, queries and the configuration: definitions in use
\* name different samples, and none by nothing (as a field to append does that the query does
\* not return); none has a blank label or one twice; the rows of a result are told apart by the
\* labels; and no database has a label of its own in the place of the database label.
PossibleNames(m) ==
  {SampleName(m, c, row) : c \in m.columns, row \in UNION {ToSet(t) : t \in Results[m.request]}}
WellDefined ==
  LET metrics == {m \in InUse : ~Rejected(m)}
  IN /\ DatabaseLabel \notin AllOwnLabels
     /\ \A m, n \in metrics : m # n => PossibleNames(m) \cap PossibleNames(n) = {}
     /\ \A m \in metrics :
          /\ PossibleNames(m) \cap {UpName, NoName} = {}
          /\ IsInjective(GetLabels(m)) /\ NoName \notin ToSet(GetLabels(m))
          /\ \A d \in Databases : \A t \in Results[m.request] : IsInjective(Samples(d, m, t))

\* With that, no scrape panics and every page can be gathered, with samples from the cache
\* or from a query that has ended half-way, of databases with labels of their own, and with
\* labels that a database has too: no sample is there twice, and "all the metrics of the
\* same name need to have the same labels" (collector.go:130).
Distinct ==
  \A p, q \in DOMAIN page : \A i \in DOMAIN page[p], j \in DOMAIN page[q] :
    page[p][i] = page[q][j] => p = q /\ i = j
PageSamples == {UpMetric(d) : d \in Databases} \cup UNION {ToSet(page[p]) : p \in DOMAIN page}
SameLabels ==
  \A s, t \in PageSamples : s.name = t.name => DOMAIN s.labels = DOMAIN t.labels
Gatherable == WellDefined => ~panicked /\ Distinct /\ SameLabels
=============================================================================
