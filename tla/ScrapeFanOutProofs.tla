-------------------------- MODULE ScrapeFanOutProofs --------------------------
(***************************************************************************)
(* Safety of a scrape's goroutines and channels, for any set of databases  *)
(* and metrics and any capacity of the channels.                           *)
(***************************************************************************)
EXTENDS ScrapeFanOut, FiniteSetTheorems, TLAPS

-----------------------------------------------------------------------------
(* The inductive invariant, in named parts                                 *)

Types ==
  /\ TypeOK
  /\ IsFiniteSet(errChan) /\ IsFiniteSet(metricCh) /\ IsFiniteSet(failed)

\* The two levels of WaitGroups: a metric runs inside its database's goroutine, and that
\* one before errChan is closed.
Quiet == \A d \in Databases : db[d] \in {"off", "done"}
GroupsInv ==
  /\ \A d \in Databases : \A m \in Metrics :
       /\ task[<<d, m>>] \notin {"off", "done"} => db[d] = "wait"
       /\ task[<<d, m>>] = "done" => db[d] \in {"wait", "done"}
  /\ main # "receive" \/ errClosed => Quiet
  /\ main # "idle" => \A d \in Databases : db[d] # "off"

\* metricCh is closed last, and the goroutine that drains it ends after that.
GatherInv ==
  /\ metricClosed <=> main = "join" \/ (main = "idle" /\ gather # "off")
  /\ main \in {"receive", "error", "up", "close"} => gather = "run"
  /\ main = "idle" => gather \in {"off", "done"}
  /\ main = "join" => gather \in {"run", "done"}
  /\ gather = "done" => metricCh = {}

\* No sample is lost on its way to e.scrapeResults.
MetaSent ==
  IF main \in {"idle", "close", "join"} THEN Meta
  ELSE IF main = "up" THEN {<<"error">>} ELSE {}
SamplesInv == gather # "off" => scrapeResults \cup metricCh = sent \cup MetaSent

\* Who has failed is counted, or its result is in errChan or about to be sent there.
Reporting == {d \in Databases : db[d] = "report"}
Counted == failed \ (errChan \cup Reporting)
ErrorsInv ==
  /\ \A d \in Databases : d \in failed => db[d] \notin {"off", "start"}
  /\ \A d \in Databases : d \in errChan => db[d] \in {"wait", "done"}
  /\ \A t \in Tasks : t \in failed \cup errChan => task[t] \in {"finish", "done"}
  /\ main = "receive" => totalErrors = Cardinality(Counted)
  /\ main \notin {"idle", "receive"} => errClosed
  /\ main # "receive" => errorGauge = Cardinality(failed)

\* A metric sends its samples once, before its result.
SentInv == \A t \in sent : task[t] \in {"report", "finish", "done"}

StructureInv == Types /\ GroupsInv /\ GatherInv
ScrapeInv == StructureInv /\ SamplesInv /\ SentInv /\ ErrorsInv

-----------------------------------------------------------------------------
(* Types                                                                   *)

LEMMA InitTypes == Init => Types
<1> SUFFICES ASSUME Init PROVE Types
  OBVIOUS
<1>1. IsFiniteSet({}) /\ Cardinality({}) = 0
  BY FS_EmptySet
<1>2. 0 <= ErrCap /\ 0 <= MetricCap
  BY ErrCapAssumption, MetricCapAssumption
<1> QED
  BY <1>1, <1>2 DEF Init, Types, TypeOK

\* Adding to a channel that has room, and taking from one, keeps its size in bounds.
LEMMA Adding ==
  ASSUME NEW S, NEW x, NEW N \in Nat, IsFiniteSet(S), Cardinality(S) < N
  PROVE  IsFiniteSet(S \cup {x}) /\ Cardinality(S \cup {x}) <= N
<1>1. Cardinality(S) \in Nat
  BY FS_CardinalityType
<1>2. Cardinality(S \cup {x}) \in {Cardinality(S), Cardinality(S) + 1}
  BY FS_AddElement
<1>3. IsFiniteSet(S \cup {x})
  BY FS_AddElement
<1> QED
  BY <1>1, <1>2, <1>3

LEMMA Taking ==
  ASSUME NEW S, NEW x, NEW N \in Nat, IsFiniteSet(S), Cardinality(S) <= N
  PROVE  IsFiniteSet(S \ {x}) /\ Cardinality(S \ {x}) <= N
<1>1. Cardinality(S) \in Nat
  BY FS_CardinalityType
<1>2. IsFiniteSet(S \ {x}) /\ Cardinality(S \ {x}) <= Cardinality(S)
  BY <1>1, FS_Subset
<1>3. Cardinality(S \ {x}) \in Nat
  BY <1>2, FS_CardinalityType
<1> QED
  BY <1>1, <1>2, <1>3

LEMMA NextTypes == Types /\ [Next]_vars => Types'
<1> SUFFICES ASSUME Types, [Next]_vars PROVE Types'
  OBVIOUS
<1>e. ErrCap \in Nat /\ MetricCap \in Nat
  BY ErrCapAssumption, MetricCapAssumption
<1>0. IsFiniteSet({}) /\ Cardinality({}) = 0
  BY FS_EmptySet
<1>f. \A x : IsFiniteSet(failed \cup {x})
  BY FS_AddElement DEF Types
<1> USE DEF Types, TypeOK, threads, errors, samples, channels, tally
<1>1. CASE Tick
  BY <1>1 DEF Tick
<1>2. CASE Begin
  <2>1. 0 <= ErrCap /\ 0 <= MetricCap
    BY <1>e
  <2> QED
    BY <1>2, <1>0, <2>1 DEF Begin
<1>3. CASE Receive
  <2>1. PICK s \in errChan :
          /\ errChan' = errChan \ {s}
          /\ totalErrors' = totalErrors + (IF s \in failed THEN 1 ELSE 0)
    BY <1>3 DEF Receive
  <2>2. IsFiniteSet(errChan') /\ Cardinality(errChan') <= ErrCap
    BY <2>1, <1>e, Taking
  <2>3. totalErrors' \in Nat
    BY <2>1
  <2> QED
    BY <1>3, <2>1, <2>2, <2>3 DEF Receive
<1>4. CASE AfterScrape
  BY <1>4 DEF AfterScrape
<1>5. CASE SendMeta
  <2>1. IsFiniteSet(metricCh') /\ Cardinality(metricCh') <= MetricCap
    BY <1>5, <1>e, Adding DEF SendMeta, SendSample
  <2>2. <<main>> \in Meta
    BY <1>5 DEF SendMeta, Meta
  <2> QED
    BY <1>5, <2>1, <2>2 DEF SendMeta, SendSample
<1>6. CASE CloseMetrics
  BY <1>6 DEF CloseMetrics
<1>7. CASE End
  BY <1>7 DEF End
<1>8. CASE Gather
  <2>1. PICK x \in metricCh :
          metricCh' = metricCh \ {x} /\ scrapeResults' = scrapeResults \cup {x}
    BY <1>8 DEF Gather
  <2>2. IsFiniteSet(metricCh') /\ Cardinality(metricCh') <= MetricCap
    BY <2>1, <1>e, Taking
  <2> QED
    BY <1>8, <2>1, <2>2 DEF Gather
<1>9. CASE GatherEnd
  BY <1>9 DEF GatherEnd
<1>10. CASE CloseErrors
  BY <1>10 DEF CloseErrors
<1>11. ASSUME NEW d \in Databases, DbNext(d) PROVE Types'
  <2>0. d \in Senders
    BY DEF Senders
  <2>1. CASE Skip(d)
    BY <2>1, <2>0, <1>f DEF Skip, MoveDb
  <2>2. CASE ReportSkip(d)
    <3>1. IsFiniteSet(errChan') /\ Cardinality(errChan') <= ErrCap
      BY <2>2, <1>e, Adding DEF ReportSkip, SendResult
    <3> QED
      BY <2>2, <2>0, <3>1 DEF ReportSkip, SendResult, MoveDb
  <2>3. CASE Fork(d)
    BY <2>3 DEF Fork, MoveDb
  <2>4. CASE Join(d)
    BY <2>4 DEF Join, MoveDb
  <2> QED
    BY <1>11, <2>1, <2>2, <2>3, <2>4 DEF DbNext
<1>12. ASSUME NEW t \in Tasks, TaskNext(t) PROVE Types'
  <2>0. t \in Senders
    BY DEF Senders
  <2>1. CASE Query(t)
    BY <2>1 DEF Query, MoveTask
  <2>2. CASE CacheAndSend(t)
    <3>1. IsFiniteSet(metricCh') /\ Cardinality(metricCh') <= MetricCap
      BY <2>2, <1>e, Adding DEF CacheAndSend, SendSample
    <3> QED
      BY <2>2, <3>1 DEF CacheAndSend, SendSample, MoveTask
  <2>3. CASE ReportMetric(t)
    <3>1. IsFiniteSet(errChan') /\ Cardinality(errChan') <= ErrCap
      BY <2>3, <1>e, Adding DEF ReportMetric, SendResult
    <3> QED
      BY <2>3, <2>0, <1>f, <3>1 DEF ReportMetric, SendResult, MoveTask
  <2>4. CASE FinishMetric(t)
    BY <2>4 DEF FinishMetric, MoveTask
  <2> QED
    BY <1>12, <2>1, <2>2, <2>3, <2>4 DEF TaskNext
<1>13. CASE UNCHANGED vars
  BY <1>13 DEF vars
<1> QED
  BY <1>1, <1>2, <1>3, <1>4, <1>5, <1>6, <1>7, <1>8, <1>9, <1>10, <1>11, <1>12, <1>13
  DEF Next, MainNext, GatherNext

-----------------------------------------------------------------------------
(* WaitGroups and closed channels                                          *)

LEMMA InitStructure == Init => GroupsInv /\ GatherInv /\ SamplesInv /\ SentInv /\ ErrorsInv
<1> SUFFICES ASSUME Init PROVE GroupsInv /\ GatherInv /\ SamplesInv /\ SentInv /\ ErrorsInv
  OBVIOUS
<1>1. GroupsInv
  BY DEF Init, GroupsInv, Quiet, Tasks
<1>2. GatherInv /\ SamplesInv /\ SentInv
  BY DEF Init, GatherInv, SamplesInv, SentInv
<1>3. ErrorsInv
  BY FS_EmptySet DEF Init, ErrorsInv
<1> QED
  BY <1>1, <1>2, <1>3

\* A database whose goroutine is not waiting for metrics has none running.
LEMMA QuietTasks ==
  ASSUME Types, GroupsInv
  PROVE  \A t \in Tasks : task[t] \notin {"off", "done"} => db[t[1]] = "wait"
  BY DEF GroupsInv, Tasks

LEMMA NextGroups == Types /\ GroupsInv /\ ErrorsInv /\ [Next]_vars => GroupsInv'
<1> SUFFICES ASSUME Types, GroupsInv, ErrorsInv, [Next]_vars PROVE GroupsInv'
  OBVIOUS
<1> USE DEF Types, TypeOK, GroupsInv, Quiet, ErrorsInv, threads, errors, samples, channels,
            MoveDb, MoveTask
<1>1. CASE Tick \/ Receive \/ CloseMetrics \/ End \/ Gather \/ GatherEnd \/ UNCHANGED vars
  BY <1>1 DEF Tick, Receive, CloseMetrics, End, Gather, GatherEnd, vars
<1>2. CASE Begin
  BY <1>2 DEF Begin, Tasks
<1>3. CASE AfterScrape
  BY <1>3 DEF AfterScrape, Drained
<1>4. CASE SendMeta
  BY <1>4 DEF SendMeta, MetaPoints
<1>5. CASE CloseErrors
  BY <1>5 DEF CloseErrors, DatabasesOver
<1>6. ASSUME NEW d \in Databases, DbNext(d) PROVE GroupsInv'
  <2>1. CASE Skip(d)
    BY <2>1 DEF Skip
  <2>2. CASE ReportSkip(d)
    BY <2>2 DEF ReportSkip
  <2>3. CASE Fork(d)
    BY <2>3 DEF Fork, Tasks
  <2>4. CASE Join(d)
    BY <2>4 DEF Join, TasksOver
  <2> QED
    BY <1>6, <2>1, <2>2, <2>3, <2>4 DEF DbNext
<1>7. ASSUME NEW t \in Tasks, TaskNext(t) PROVE GroupsInv'
  <2>1. task[t] \notin {"off", "done"}
    BY <1>7 DEF TaskNext, Query, CacheAndSend, ReportMetric, FinishMetric
  <2>2. \A u \in Tasks : u # t => task'[u] = task[u]
    BY <1>7 DEF TaskNext, Query, CacheAndSend, ReportMetric, FinishMetric
  <2>3. UNCHANGED <<main, db, errClosed>>
    BY <1>7 DEF TaskNext, Query, CacheAndSend, ReportMetric, FinishMetric
  <2> QED
    BY <2>1, <2>2, <2>3 DEF Tasks
<1> QED
  BY <1>1, <1>2, <1>3, <1>4, <1>5, <1>6, <1>7 DEF Next, MainNext, GatherNext

LEMMA NextGather ==
  Types /\ GroupsInv /\ ErrorsInv /\ GatherInv /\ [Next]_vars => GatherInv'
<1> SUFFICES ASSUME Types, GroupsInv, ErrorsInv, GatherInv, [Next]_vars PROVE GatherInv'
  OBVIOUS
<1> USE DEF Types, TypeOK, GatherInv, threads, errors, samples, channels
<1>1. CASE Tick \/ Receive \/ CloseErrors \/ UNCHANGED vars
  BY <1>1 DEF Tick, Receive, CloseErrors, vars
<1>2. CASE Begin
  BY <1>2 DEF Begin
<1>3. CASE AfterScrape
  BY <1>3 DEF AfterScrape
<1>4. CASE SendMeta
  BY <1>4 DEF SendMeta, MetaPoints
<1>5. CASE CloseMetrics
  BY <1>5 DEF CloseMetrics
<1>6. CASE End
  BY <1>6 DEF End, Gathered
<1>7. CASE Gather
  BY <1>7 DEF Gather
<1>8. CASE GatherEnd
  BY <1>8 DEF GatherEnd
<1>9. ASSUME NEW d \in Databases, DbNext(d) PROVE GatherInv'
  BY <1>9 DEF DbNext, Skip, ReportSkip, Fork, Join
<1>10. ASSUME NEW t \in Tasks, TaskNext(t) PROVE GatherInv'
  <2>1. CASE CacheAndSend(t)
    <3>1. main = "receive"
      BY <2>1, QuietTasks DEF CacheAndSend, MoveTask, GroupsInv, Quiet, Tasks
    <3> QED
      BY <2>1, <3>1 DEF CacheAndSend
  <2>2. CASE Query(t) \/ ReportMetric(t) \/ FinishMetric(t)
    BY <2>2 DEF Query, ReportMetric, FinishMetric
  <2> QED
    BY <1>10, <2>1, <2>2 DEF TaskNext
<1> QED
  BY <1>1, <1>2, <1>3, <1>4, <1>5, <1>6, <1>7, <1>8, <1>9, <1>10
  DEF Next, MainNext, GatherNext

-----------------------------------------------------------------------------
(* Samples                                                                 *)

LEMMA NextSamples == Types /\ GatherInv /\ SamplesInv /\ [Next]_vars => SamplesInv'
<1> SUFFICES ASSUME Types, GatherInv, SamplesInv, [Next]_vars PROVE SamplesInv'
  OBVIOUS
<1> USE DEF Types, TypeOK, GatherInv, SamplesInv, MetaSent, threads, errors, samples, channels
<1>1. CASE Tick \/ Receive \/ CloseErrors \/ UNCHANGED vars
  BY <1>1 DEF Tick, Receive, CloseErrors, vars
<1>2. CASE Begin
  BY <1>2 DEF Begin
<1>3. CASE AfterScrape
  BY <1>3 DEF AfterScrape
<1>4. CASE SendMeta
  BY <1>4 DEF SendMeta, SendSample, MetaPoints, Meta
<1>5. CASE CloseMetrics
  BY <1>5 DEF CloseMetrics
<1>6. CASE End
  BY <1>6 DEF End
<1>7. CASE Gather
  BY <1>7 DEF Gather
<1>8. CASE GatherEnd
  BY <1>8 DEF GatherEnd
<1>9. ASSUME NEW d \in Databases, DbNext(d) PROVE SamplesInv'
  BY <1>9 DEF DbNext, Skip, ReportSkip, Fork, Join
<1>10. ASSUME NEW t \in Tasks, TaskNext(t) PROVE SamplesInv'
  <2>1. CASE CacheAndSend(t)
    BY <2>1 DEF CacheAndSend, SendSample
  <2>2. CASE Query(t) \/ ReportMetric(t) \/ FinishMetric(t)
    BY <2>2 DEF Query, ReportMetric, FinishMetric
  <2> QED
    BY <1>10, <2>1, <2>2 DEF TaskNext
<1> QED
  BY <1>1, <1>2, <1>3, <1>4, <1>5, <1>6, <1>7, <1>8, <1>9, <1>10
  DEF Next, MainNext, GatherNext

LEMMA NextSent == Types /\ GroupsInv /\ SentInv /\ [Next]_vars => SentInv'
<1> SUFFICES ASSUME Types, GroupsInv, SentInv, [Next]_vars PROVE SentInv'
  OBVIOUS
<1> USE DEF Types, TypeOK, SentInv, threads, errors, samples, channels
<1>1. CASE Begin
  BY <1>1 DEF Begin
<1>2. CASE UNCHANGED <<sent, task>>
  BY <1>2
<1>3. ASSUME NEW d \in Databases, Fork(d) PROVE SentInv'
  <2>1. \A t \in sent : t[1] # d
    BY <1>3 DEF Fork, MoveDb, GroupsInv, Tasks
  <2> QED
    BY <1>3, <2>1 DEF Fork
<1>4. ASSUME NEW t \in Tasks, TaskNext(t) PROVE SentInv'
  <2>1. CASE CacheAndSend(t)
    BY <2>1 DEF CacheAndSend, MoveTask
  <2>2. CASE Query(t)
    BY <2>2 DEF Query, MoveTask
  <2>3. CASE ReportMetric(t)
    BY <2>3 DEF ReportMetric, MoveTask
  <2>4. CASE FinishMetric(t)
    BY <2>4 DEF FinishMetric, MoveTask
  <2> QED
    BY <1>4, <2>1, <2>2, <2>3, <2>4 DEF TaskNext
<1> QED
  BY <1>1, <1>2, <1>3, <1>4
  DEF Next, MainNext, GatherNext, DbNext, Tick, Receive, AfterScrape, SendMeta, CloseMetrics,
      End, Gather, GatherEnd, CloseErrors, Skip, ReportSkip, Join, vars

-----------------------------------------------------------------------------
(* Errors                                                                  *)

\* Databases and metric goroutines are different senders.
LEMMA SendersDiffer == \A d \in Databases : \A t \in Tasks : d # t
  BY TasksAssumption

\* Receiving a result counts its sender if it has failed, and only once.
LEMMA CountOne ==
  ASSUME Types, ErrorsInv, main = "receive", NEW s \in errChan,
         errChan' = errChan \ {s}, UNCHANGED <<failed, db>>,
         totalErrors' = totalErrors + (IF s \in failed THEN 1 ELSE 0)
  PROVE  totalErrors' = Cardinality(Counted')
<1>1. s \notin Reporting
  BY DEF ErrorsInv, Reporting
<1>2. Reporting' = Reporting
  BY DEF Reporting
<1>3. IsFiniteSet(Counted) /\ Cardinality(Counted) \in Nat
  BY FS_Subset, FS_CardinalityType DEF Types, Counted
<1>4. CASE s \in failed
  <2>1. Counted' = Counted \cup {s} /\ s \notin Counted
    BY <1>1, <1>2, <1>4 DEF Counted
  <2>2. Cardinality(Counted') = Cardinality(Counted) + 1
    BY <1>3, <2>1, FS_AddElement
  <2> QED
    BY <1>4, <2>2 DEF ErrorsInv
<1>5. CASE s \notin failed
  <2>1. Counted' = Counted
    BY <1>2, <1>5 DEF Counted
  <2> QED
    BY <1>3, <1>5, <2>1 DEF ErrorsInv
<1> QED
  BY <1>4, <1>5

LEMMA NextErrors == Types /\ GroupsInv /\ ErrorsInv /\ [Next]_vars => ErrorsInv'
<1> SUFFICES ASSUME Types, GroupsInv, ErrorsInv, [Next]_vars PROVE ErrorsInv'
  OBVIOUS
<1> USE SendersDiffer
<1> USE DEF Types, TypeOK, ErrorsInv, threads, errors, samples, channels, tally,
            MoveDb, MoveTask
<1>1. CASE Tick \/ CloseMetrics \/ End \/ Gather \/ GatherEnd \/ CloseErrors \/ UNCHANGED vars
  BY <1>1 DEF Tick, CloseMetrics, End, Gather, GatherEnd, CloseErrors, vars, Counted, Reporting
<1>2. CASE Begin
  <2>1. Counted' = {}
    BY <1>2 DEF Begin, Counted
  <2> QED
    BY <1>2, <2>1, FS_EmptySet DEF Begin
<1>3. CASE Receive
  <2>1. main = "receive" /\ totalErrors' = Cardinality(Counted')
    BY <1>3, CountOne DEF Receive, Receiving
  <2> QED
    BY <1>3, <2>1 DEF Receive
<1>4. CASE AfterScrape
  <2>1. Counted = failed
    BY <1>4 DEF AfterScrape, Drained, Counted, Reporting, GroupsInv, Quiet
  <2> QED
    BY <1>4, <2>1 DEF AfterScrape, Drained
<1>5. CASE SendMeta
  BY <1>5 DEF SendMeta, MetaPoints
<1>6. ASSUME NEW d \in Databases, DbNext(d) PROVE ErrorsInv'
  <2>0. main = "receive"
    BY <1>6 DEF DbNext, Skip, ReportSkip, Fork, Join, GroupsInv, Quiet
  <2>1. CASE Skip(d)
    <3>1. Reporting' = Reporting \cup {d}
      BY <2>1 DEF Skip, Reporting
    <3>2. Counted' = Counted
      BY <2>1, <3>1 DEF Skip, Counted
    <3> QED
      BY <2>0, <2>1, <3>2 DEF Skip
  <2>2. CASE ReportSkip(d)
    <3>1. Reporting' = Reporting \ {d} /\ d \in Reporting
      BY <2>2 DEF ReportSkip, Reporting
    <3>2. Counted' = Counted
      BY <2>2, <3>1 DEF ReportSkip, SendResult, Counted
    <3> QED
      BY <2>0, <2>2, <3>2 DEF ReportSkip, SendResult
  <2>3. CASE Fork(d)
    <3>1. Counted' = Counted
      BY <2>3 DEF Fork, Counted, Reporting
    <3>2. \A t \in Tasks : t \in failed \cup errChan => t[1] # d
      BY <2>3 DEF Fork, GroupsInv, Tasks
    <3> QED
      BY <2>0, <2>3, <3>1, <3>2 DEF Fork
  <2>4. CASE Join(d)
    <3>1. Counted' = Counted
      BY <2>4 DEF Join, Counted, Reporting
    <3> QED
      BY <2>0, <2>4, <3>1 DEF Join
  <2> QED
    BY <1>6, <2>1, <2>2, <2>3, <2>4 DEF DbNext
<1>7. ASSUME NEW t \in Tasks, TaskNext(t) PROVE ErrorsInv'
  <2>0. main = "receive" /\ Reporting' = Reporting
    BY <1>7, QuietTasks
    DEF TaskNext, Query, CacheAndSend, ReportMetric, FinishMetric, GroupsInv, Quiet, Tasks,
        Reporting
  <2>1. CASE ReportMetric(t)
    <3>1. Counted' = Counted
      BY <2>0, <2>1 DEF ReportMetric, SendResult, Counted
    <3> QED
      BY <2>0, <2>1, <3>1 DEF ReportMetric, SendResult
  <2>2. CASE Query(t) \/ CacheAndSend(t) \/ FinishMetric(t)
    <3>1. Counted' = Counted
      BY <2>0, <2>2 DEF Query, CacheAndSend, FinishMetric, Counted
    <3> QED
      BY <2>0, <2>2, <3>1 DEF Query, CacheAndSend, FinishMetric
  <2> QED
    BY <1>7, <2>1, <2>2 DEF TaskNext
<1> QED
  BY <1>1, <1>2, <1>3, <1>4, <1>5, <1>6, <1>7 DEF Next, MainNext, GatherNext

LEMMA ScrapeCorrect == Spec => []ScrapeInv
<1>1. Init => ScrapeInv
  BY InitTypes, InitStructure DEF ScrapeInv, StructureInv
<1>2. ScrapeInv /\ [Next]_vars => ScrapeInv'
  BY NextTypes, NextGroups, NextGather, NextSamples, NextSent, NextErrors DEF ScrapeInv, StructureInv
<1> QED
  BY <1>1, <1>2, PTL DEF Spec

-----------------------------------------------------------------------------
(* Theorems                                                                *)

\* Goroutines, channels within their capacities, and results are of their types.
THEOREM TypeCorrect == Spec => []TypeOK
<1>1. ScrapeInv => TypeOK
  BY DEF ScrapeInv, StructureInv, Types
<1> QED
  BY <1>1, ScrapeCorrect, PTL

\* Neither errChan nor metricCh is closed while a goroutine may still send on it.
THEOREM ChannelsCloseLast == Spec => []NoSendOnClosed
<1>1. ScrapeInv => NoSendOnClosed
  <2> SUFFICES ASSUME ScrapeInv PROVE NoSendOnClosed
    OBVIOUS
  <2> USE DEF ScrapeInv, StructureInv
  <2>1. metricClosed => main \in {"join", "idle"}
    BY DEF GatherInv
  <2>2. errClosed \/ metricClosed => Quiet
    BY <2>1 DEF GroupsInv
  <2>3. Quiet => /\ \A d \in Databases : db[d] \notin {"start", "report", "wait"}
                 /\ \A t \in Tasks : task[t] \in {"off", "done"}
    BY QuietTasks DEF Quiet, Tasks
  <2> QED
    BY <2>1, <2>2, <2>3 DEF NoSendOnClosed, MetaPoints
<1> QED
  BY <1>1, ScrapeCorrect, PTL

\* However small the channels are and however many goroutines there are, they never all wait:
\* what is in a channel can be received, a channel with nothing in it has room, and a
\* WaitGroup waits for somebody who can go on.
THEOREM ScrapeNeverStuck == Spec => []NeverStuck
<1>1. ScrapeInv => NeverStuck
  <2> SUFFICES ASSUME ScrapeInv, main # "idle", ~GatherCan,
                      \A d \in Databases : ~DbCan(d), \A t \in Tasks : ~TaskCan(t)
               PROVE  MainCan
    BY DEF NeverStuck
  <2> USE DEF ScrapeInv, StructureInv, Types, TypeOK
  <2>1. (errChan = {} => CanSendResult) /\ (metricCh = {} => CanSendSample)
    BY ErrCapAssumption, MetricCapAssumption, FS_EmptySet DEF CanSendResult, CanSendSample
  <2>2. main # "join" => CanSendSample
    BY <2>1 DEF GatherInv, GatherCan
  <2>3. CASE main \in MetaPoints \cup {"close", "join"}
    BY <2>2, <2>3 DEF MainCan, MetaPoints, GatherInv, GatherCan, Gathered
  <2>4. CASE main = "receive"
    <3> SUFFICES ASSUME errChan = {}, ~errClosed PROVE DatabasesOver
      BY <2>4 DEF MainCan, Receiving, Drained
    <3>1. CanSendResult /\ CanSendSample
      BY <2>1, <2>2, <2>4
    <3>2. \A t \in Tasks : task[t] \in {"off", "done"}
      BY <3>1 DEF TaskCan
    <3>3. \A d \in Databases : TasksOver(d)
      BY <3>2 DEF TasksOver, Tasks
    <3>4. \A d \in Databases : db[d] \in {"off", "done"}
      BY <3>1, <3>3 DEF DbCan
    <3> QED
      BY <3>4 DEF DatabasesOver, GroupsInv
  <2> QED
    BY <2>3, <2>4 DEF MetaPoints
<1> QED
  BY <1>1, ScrapeCorrect, PTL

\* When the mutex is free no goroutine of the last scrape is left.
THEOREM GoroutinesEnd == Spec => []NoStragglers
<1>1. ScrapeInv => NoStragglers
  BY QuietTasks DEF ScrapeInv, StructureInv, GroupsInv, GatherInv, Quiet, NoStragglers, Tasks
<1> QED
  BY <1>1, ScrapeCorrect, PTL

-----------------------------------------------------------------------------
(* The refinement                                                          *)

absVars ==
  <<IF main = "idle" THEN "ended" ELSE IF main = "receive" THEN "scraping" ELSE "counted",
    sent, failed, IF main = "idle" THEN scrapeResults ELSE {}, errorGauge>>

\* Before the first scrape there are no results.
LEMMA InitRefines == Init => Abstract!Init
  BY DEF Init, Abstract!Init

\* Both modules count in the same way.
LEMMA SameCount == \A S : Abstract!Cardinality(S) = Cardinality(S)
  BY DEF Cardinality, IsFiniteSet, Abstract!Cardinality, Abstract!IsFiniteSet

\* When the error channel is closed and drained whoever has failed is counted.
LEMMA AllAreCounted ==
  ASSUME ScrapeInv, main = "receive", Drained
  PROVE  totalErrors = Cardinality(failed)
<1>1. Counted = failed
  BY DEF ScrapeInv, StructureInv, GroupsInv, Quiet, Drained, Counted, Reporting
<1> QED
  BY <1>1 DEF ScrapeInv, ErrorsInv

\* When the metric channel is closed and drained all samples are in the results.
LEMMA AllAreGathered ==
  ASSUME ScrapeInv, main = "join", Gathered
  PROVE  scrapeResults = sent \cup Meta
  BY DEF ScrapeInv, StructureInv, GatherInv, SamplesInv, MetaSent, Gathered

\* Goroutines find samples and fail while the scraping goroutine receives, and at no other
\* time; what else they do, and what goes over the channels, nobody outside can see.
LEMMA NextRefines == ScrapeInv /\ [Next]_vars => [Abstract!Next]_absVars
<1> SUFFICES ASSUME ScrapeInv, [Next]_vars, ~UNCHANGED absVars PROVE Abstract!Next
  OBVIOUS
<1> USE DEF threads, errors, samples, channels, tally
<1>1. CASE Begin
  <2>1. Abstract!Start
    BY <1>1 DEF Begin, Abstract!Start
  <2> QED
    BY <2>1 DEF Abstract!Next
<1>2. CASE AfterScrape
  <2>1. errorGauge' = Cardinality(failed)
    BY <1>2, AllAreCounted DEF AfterScrape
  <2>2. Abstract!Count
    BY <1>2, <2>1, SameCount DEF AfterScrape, Abstract!Count
  <2> QED
    BY <2>2 DEF Abstract!Next
<1>3. CASE End
  <2>1. scrapeResults = sent \cup Meta
    BY <1>3, AllAreGathered DEF End
  <2>2. Abstract!End
    BY <1>3, <2>1 DEF End, Abstract!End
  <2> QED
    BY <2>2 DEF Abstract!Next
<1>4. CASE Gather
  <2>1. main # "idle"
    BY <1>4 DEF Gather, ScrapeInv, StructureInv, GatherInv
  <2> QED
    BY <1>4, <2>1 DEF Gather, absVars
<1>5. CASE SendMeta \/ CloseMetrics
  BY <1>5 DEF SendMeta, MetaPoints, CloseMetrics, absVars
<1>6. CASE Tick \/ Receive \/ GatherEnd \/ CloseErrors \/ UNCHANGED vars
  BY <1>6 DEF Tick, Receive, GatherEnd, CloseErrors, vars, absVars
<1>7. ASSUME NEW d \in Databases, DbNext(d) PROVE Abstract!Next
  <2>1. CASE Skip(d)
    <3>1. main = "receive" /\ d \notin failed /\ d \in Senders
      BY <2>1 DEF Skip, MoveDb, ScrapeInv, StructureInv, GroupsInv, Quiet, ErrorsInv, Senders
    <3>2. failed' = failed \cup {d} \/ UNCHANGED failed
      BY <2>1 DEF Skip
    <3>3. UNCHANGED <<main, sent, scrapeResults, errorGauge>>
      BY <2>1 DEF Skip
    <3>4. failed' = failed \cup {d}
      BY <3>2, <3>3 DEF absVars
    <3>5. Abstract!Fail
      BY <3>1, <3>3, <3>4 DEF Abstract!Fail
    <3> QED
      BY <3>5 DEF Abstract!Next
  <2>2. CASE ReportSkip(d) \/ Fork(d) \/ Join(d)
    BY <2>2 DEF ReportSkip, Fork, Join, absVars
  <2> QED
    BY <1>7, <2>1, <2>2 DEF DbNext
<1>8. ASSUME NEW t \in Tasks, TaskNext(t) PROVE Abstract!Next
  <2>0. main = "receive"
    BY <1>8, QuietTasks
    DEF TaskNext, Query, CacheAndSend, ReportMetric, FinishMetric, MoveTask, ScrapeInv,
        StructureInv, GroupsInv, Quiet, Tasks
  <2>1. CASE CacheAndSend(t)
    <3>1. t \notin sent
      BY <2>1 DEF CacheAndSend, MoveTask, ScrapeInv, SentInv
    <3>2. sent' = sent \cup {t} /\ UNCHANGED <<main, failed, scrapeResults, errorGauge>>
      BY <2>1 DEF CacheAndSend
    <3>3. Abstract!Find
      BY <2>0, <3>1, <3>2 DEF Abstract!Find
    <3> QED
      BY <3>3 DEF Abstract!Next
  <2>2. CASE ReportMetric(t)
    <3>1. t \notin failed /\ t \in Senders
      BY <2>2 DEF ReportMetric, MoveTask, ScrapeInv, ErrorsInv, Senders
    <3>2. failed' = failed \cup {t} \/ UNCHANGED failed
      BY <2>2 DEF ReportMetric
    <3>3. UNCHANGED <<main, sent, scrapeResults, errorGauge>>
      BY <2>2 DEF ReportMetric
    <3>4. failed' = failed \cup {t}
      BY <3>2, <3>3 DEF absVars
    <3>5. Abstract!Fail
      BY <2>0, <3>1, <3>3, <3>4 DEF Abstract!Fail
    <3> QED
      BY <3>5 DEF Abstract!Next
  <2>3. CASE Query(t) \/ FinishMetric(t)
    BY <2>3 DEF Query, FinishMetric, absVars
  <2> QED
    BY <1>8, <2>1, <2>2, <2>3 DEF TaskNext
<1> QED
  BY <1>1, <1>2, <1>3, <1>4, <1>5, <1>6, <1>7, <1>8 DEF Next, MainNext, GatherNext

\* A scrape's goroutines, channels and WaitGroups are one AtomicScrape: a request gets all
\* samples of a scrape that has ended, and the error gauge is that of a whole scrape.
THEOREM ScrapeIsAtomic == Spec => ImplementsScrape
<1>1. ScrapeInv /\ [Next]_vars => [Abstract!Next]_absVars
  BY NextRefines
<1> QED
  BY InitRefines, <1>1, ScrapeCorrect, PTL
  DEF Spec, ImplementsScrape, Abstract!Spec, absVars
===============================================================================
