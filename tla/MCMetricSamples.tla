--------------------------- MODULE MCMetricSamples ---------------------------
(* Two databases, one with a label env; names and results for MetricSamples. *)
EXTENDS MetricSamples

MCLowerWord ==
  [w \in {"", "a", "b", "s", "count", "env", "inst", "name", "v", "x", "y", "INST", "X", "Y"} |->
    CASE w = "INST" -> "inst" [] w = "X" -> "x" [] w = "Y" -> "y" [] OTHER -> w]
MCAlphabet == <<<<"count">>, <<"v">>, <<"x">>, <<"x", "y">>, <<"y">>>>

Env == <<"env">>
MCOwnLabels == [d \in Databases |-> IF d = "d1" THEN (Env :> <<"prod">>) ELSE <<>>]
MCDatabaseLabel == <<"database">>

Metric(context, columns, labels, request) ==
  [context |-> context, columns |-> columns, labels |-> labels, append |-> NoName,
   request |-> request, interval |-> TRUE, ignoreZeroResult |-> FALSE,
   histograms |-> {}, buckets |-> {}, databases |-> Databases]

Inst == <<"inst">>
Sessions == Metric(<<"s">>, {<<"x">>, <<"y">>}, <<Inst>>, "sessions")

MCDefault == <<Sessions>>

MCCustoms == {
  <<>>,
  \* an override, in upper case, and disabled for one database
  <<[Sessions EXCEPT !.columns = {<<"X">>, <<"Y">>}, !.databases = {"d2"}]>>,
  \* an appended field
  <<[Metric(<<"v">>, {<<"v">>}, <<Inst>>, "values") EXCEPT !.append = Inst, !.interval = FALSE]>>,
  \* a histogram, of the context of the default metric
  <<[Metric(<<"s">>, {<<"v">>}, <<Inst>>, "values") EXCEPT
       !.histograms = {<<"v">>}, !.buckets = {<<"v">>}, !.ignoreZeroResult = TRUE]>>,
  \* no context, and a column of two words
  <<Metric(NoName, {<<"x", "y">>}, <<>>, "type")>>,
  \* a histogram without buckets
  <<[Metric(<<"y">>, {<<"v">>}, <<>>, "values") EXCEPT !.histograms = {<<"v">>}]>>,
  \* a label that one of the databases has
  <<Metric(<<"v">>, {<<"v">>}, <<Env, Inst>>, "values")>>,
  \* the same identifier, although neither context nor columns are the same
  <<Metric(<<"s", "x">>, {<<"y">>}, <<>>, "sessions")>>,
  \* a label twice
  <<Metric(<<"x">>, {<<"x">>}, <<Inst, <<"INST">>>>, "sessions")>>,
  \* an appended field that the query does not return
  <<[Metric(<<"b">>, {<<"x">>}, <<Inst>>, "sessions") EXCEPT !.append = <<"name">>]>>}

Row(x, y, inst) == (<<"x">> :> x) @@ (<<"y">> :> y) @@ (Inst :> inst)
ValueRow(v, count, inst) == (<<"v">> :> v) @@ (Count :> count) @@ (Inst :> inst)

MCResults ==
  [sessions |-> {<<Row(Number, Nil, <<"a">>), Row(<<"b">>, Number, <<"b">>)>>, <<>>},
   type |-> {<<(<<"x", "y">> :> Number)>>},
   values |-> {<<ValueRow(Number, Number, <<"a">>), ValueRow(Number, Nil, <<"b">>)>>}]

\* The context and the columns of each of the definitions that come with the exporter
\* (default_metrics.toml): there LastDefinitionInUse leaves out none.
Named(context, columns) == [context |-> context, columns |-> columns]
Shipped == {
  Named(NoName, {<<"dbtype">>}),
  Named(<<"sessions">>, {<<"value">>}),
  Named(<<"resource">>, {<<"current", "utilization">>, <<"limit", "value">>}),
  Named(<<"asm", "diskgroup">>, {<<"total">>, <<"free">>}),
  Named(<<"activity">>, {<<"value">>}),
  Named(<<"process">>, {<<"count">>}),
  Named(<<"wait", "time">>, {<<"time", "waited", "sec", "total">>}),
  Named(<<"tablespace">>,
        {<<"bytes">>, <<"max", "bytes">>, <<"free">>, <<"used", "percent">>}),
  Named(<<"db", "system">>, {<<"value">>}),
  Named(<<"db", "platform">>, {<<"value">>}),
  Named(<<"top", "sql">>, {<<"elapsed">>}),
  Named(<<"cache", "hit", "ratio">>, {<<"value">>})}
ASSUME ShippedAssumption == \A m, n \in Shipped : Unambiguous(m, n)
=============================================================================
