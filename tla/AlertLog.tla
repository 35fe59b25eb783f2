------------------------------ MODULE AlertLog ------------------------------
(***************************************************************************)
(* The alert log export (alertlog/alertlog.go and alert_log_retry.go).  On *)
(* each tick main's goroutine updates every database in turn: UpdateLog    *)
(* finds the database's last record in the file it writes to, queries the  *)
(* alert log view for records with a later timestamp and appends them.     *)
(* The file is all it remembers, across restarts too.                      *)
(*                                                                         *)
(* A record is its position in the view and has a timestamp; what it says  *)
(* is left out.  The untimely events a behaviour admits are part of its    *)
(* initial state, so that the properties can say which they survive.       *)
(***************************************************************************)
EXTENDS Integers, Sequences, FiniteSetsExt

CONSTANTS
  Databases,
  PerDatabaseFiles,  \* log.perDatabaseFiles
  MaxRecords         \* bound on the records of a database

Untimely ==
  {"tie",    \* a record gets the timestamp of the one before it
   "order",  \* the query, which has no ORDER BY, returns rows in any order
   "torn"}   \* a write stops half-way: the disk is full, or the machine goes down

Shared == "shared"   \* log.destination
NoDb == "none"

ASSUME ModeAssumption == PerDatabaseFiles \in BOOLEAN
ASSUME DatabasesAssumption == {Shared, NoDb} \cap Databases = {}
ASSUME MaxRecordsAssumption == MaxRecords \in Nat

Files == IF PerDatabaseFiles THEN Databases ELSE {Shared}
FileOf(d) == IF PerDatabaseFiles THEN d ELSE Shared

Records == 1 .. MaxRecords
Line(d, r) == [db |-> d, record |-> r]
Garbage == Line(NoDb, 0)    \* a line that is not the JSON of one record
Lines == {Line(d, r) : d \in Databases, r \in Records} \cup {Garbage}
Oldest == 0                 \* the timestamp asked for when the file has no record

VARIABLES
  upsets,     \* the untimely events admitted
  view,       \* v$diag_alert_ext of each database: the timestamps of its records
  lines,      \* the lines of each file
  ended,      \* does the file end in a newline, or is it empty?
  pc,         \* the goroutine: "wait", "read", "query" or "write"
  todo,       \* databases this tick has not updated
  current,    \* the database being updated
  since,      \* the timestamp of its last record in the file
  rows,       \* records of the query's result not yet fetched
  waiting     \* databases in the retry backoff of the alert log

vars == <<upsets, view, lines, ended, pc, todo, current, since, rows, waiting>>
files == <<lines, ended>>
update == <<current, since, rows>>

TypeOK ==
  /\ upsets \subseteq Untimely
  /\ view \in [Databases -> Seq(Records)]
  /\ \A d \in Databases : Len(view[d]) <= MaxRecords
  /\ lines \in [Files -> Seq(Lines)]
  /\ ended \in [Files -> BOOLEAN]
  /\ pc \in {"wait", "read", "query", "write"}
  /\ todo \subseteq Databases
  /\ current \in Databases \cup {NoDb}
  /\ since \in Nat
  /\ rows \subseteq Records
  /\ waiting \subseteq Databases

Init ==
  /\ upsets \in SUBSET Untimely
  /\ view = [d \in Databases |-> <<>>]
  /\ lines = [f \in Files |-> <<>>]
  /\ ended = [f \in Files |-> TRUE]
  /\ pc = "wait"
  /\ todo = {}
  /\ current = NoDb
  /\ since = Oldest
  /\ rows = {}
  /\ waiting = {}

-----------------------------------------------------------------------------
(* The file                                                                *)

File == FileOf(current)

\* Appending to a file that does not end in a newline spoils the line that is there.
Appended(f, line) ==
  IF ended[f]
  THEN Append(lines[f], line)
  ELSE [lines[f] EXCEPT ![Len(lines[f])] = Garbage]

\* Lines the scan stops at: one that does not parse, or a record of the database.
\* (Mutant: a record of any database.)
StopsAtAny(d, line) == d \in Databases
StopsAt(d, line) == line = Garbage \/ PerDatabaseFiles \/ line.db = d

Matching(d) == {k \in DOMAIN lines[FileOf(d)] : StopsAt(d, lines[FileOf(d)][k])}

\* The line it stops at, 0 if there is none.
LastMatching(d) == Max({0} \cup Matching(d))

\* Was there a line, and did it parse?  (Mutant: the error is not looked at.)
UnparsedIgnored(d) == FALSE
Unparsed(d) == LastMatching(d) > 0 /\ lines[FileOf(d)][LastMatching(d)] = Garbage

\* A zero LogRecord has no timestamp at all.
NoTimestamp == -1
LastTimestamp(d) ==
  LET k == LastMatching(d)
      line == lines[FileOf(d)][k]
  IN IF k = 0 THEN Oldest
     ELSE IF line = Garbage THEN NoTimestamp
     ELSE view[line.db][line.record]

\* Rows the query selects.  (Mutants: the last record is among them, or the comparison is
\* the other way round.)
SelectedAgain(d) == {r \in DOMAIN view[d] : view[d][r] >= since}
SelectedEarlier(d) == {r \in DOMAIN view[d] : view[d][r] < since}
Selected(d) == {r \in DOMAIN view[d] : view[d][r] > since}

-----------------------------------------------------------------------------
(* UpdateLog                                                               *)

Tick ==
  /\ pc = "wait"
  /\ todo = {}
  /\ todo' = Databases
  /\ UNCHANGED <<upsets, view, files, pc, update, waiting>>

\* Still warming up, in the connection's backoff or in the alert log's own.
Skip(d) ==
  /\ pc = "wait"
  /\ d \in todo
  /\ todo' = todo \ {d}
  /\ UNCHANGED <<upsets, view, files, pc, update, waiting>>

Start(d) ==
  /\ pc = "wait"
  /\ d \in todo
  /\ d \notin waiting
  /\ todo' = todo \ {d}
  /\ pc' = "read"
  /\ current' = d
  /\ UNCHANGED <<upsets, view, files, since, rows, waiting>>

Return ==
  /\ pc' = "wait"
  /\ current' = NoDb
  /\ since' = Oldest
  /\ rows' = {}

\* "Could not parse last line of log file": no retry state, the next tick tries again.
ReadFails ==
  /\ pc = "read"
  /\ Unparsed(current)
  /\ Return
  /\ UNCHANGED <<upsets, view, files, todo, waiting>>

Read ==
  /\ pc = "read"
  /\ ~Unparsed(current)
  /\ since' = LastTimestamp(current)
  /\ pc' = "query"
  /\ UNCHANGED <<upsets, view, files, todo, current, rows, waiting>>

Query ==
  /\ pc = "query"
  /\ rows' = Selected(current)
  /\ pc' = "write"
  /\ UNCHANGED <<upsets, view, files, todo, current, since, waiting>>

\* "Could not open log file for writing", with the query's result at hand.
OpenFails ==
  /\ pc = "query"
  /\ Return
  /\ UNCHANGED <<upsets, view, files, todo, waiting>>

\* recordFailure: the query failed, or a row, or its write before it began.
Fails ==
  /\ pc \in {"query", "write"}
  /\ Return
  /\ waiting' = waiting \cup {current}
  /\ UNCHANGED <<upsets, view, files, todo>>

\* The next row.
NextRows == IF "order" \in upsets THEN rows ELSE {r \in rows : \A s \in rows : r <= s}

WriteLine ==
  /\ pc = "write"
  /\ \E r \in NextRows :
       /\ lines' = [lines EXCEPT ![File] = Appended(File, Line(current, r))]
       /\ ended' = [ended EXCEPT ![File] = TRUE]
       /\ rows' = rows \ {r}
  /\ UNCHANGED <<upsets, view, pc, todo, current, since, waiting>>

\* Only part of the line reaches the file: some of the record, or all but the newline.
Torn ==
  /\ pc = "write"
  /\ "torn" \in upsets
  /\ \E r \in NextRows : \E left \in {Garbage, Line(current, r)} :
       lines' = [lines EXCEPT ![File] = Appended(File, left)]
  /\ ended' = [ended EXCEPT ![File] = FALSE]

\* The write reports an error...
WriteFails ==
  /\ Torn
  /\ Return
  /\ waiting' = waiting \cup {current}
  /\ UNCHANGED <<upsets, view, todo>>

\* ... or nobody is left to report to.
Crash ==
  /\ Torn
  /\ Return
  /\ todo' = {} /\ waiting' = {}
  /\ UNCHANGED <<upsets, view>>

\* recordSuccess
Done ==
  /\ pc = "write"
  /\ rows = {}
  /\ Return
  /\ waiting' = waiting \ {current}
  /\ UNCHANGED <<upsets, view, files, todo>>

\* A restart (of the configuration, say) between two writes.
Restart ==
  /\ Return
  /\ todo' = {} /\ waiting' = {}
  /\ UNCHANGED <<upsets, view, files>>

-----------------------------------------------------------------------------
(* Environment                                                             *)

\* retryAfter passes.
BackoffEnds(d) ==
  /\ d \in waiting
  /\ waiting' = waiting \ {d}
  /\ UNCHANGED <<upsets, view, files, pc, todo, update>>

\* A database writes to its alert log.
Log(d) ==
  /\ Len(view[d]) < MaxRecords
  /\ LET last == IF view[d] = <<>> THEN Oldest ELSE view[d][Len(view[d])]
     IN \/ view' = [view EXCEPT ![d] = Append(@, last + 1)]
        \/ /\ "tie" \in upsets /\ last # Oldest
           /\ view' = [view EXCEPT ![d] = Append(@, last)]
  /\ UNCHANGED <<upsets, files, pc, todo, update, waiting>>

-----------------------------------------------------------------------------
(* Specification                                                           *)

WriteNext == WriteLine \/ Done
UpdateNext == Tick \/ ReadFails \/ Read \/ Query \/ WriteNext

Next ==
  \/ UpdateNext
  \/ OpenFails \/ Fails \/ WriteFails \/ Crash \/ Restart
  \/ \E d \in Databases : Skip(d) \/ Start(d) \/ BackoffEnds(d) \/ Log(d)

Spec == Init /\ [][Next]_vars

\* The goroutine runs, backoffs end, and the updates of each database are not cut short
\* for ever: its turn, its query and its writes come off again and again.
UpdateOf(d) == current = d /\ (Read \/ Query \/ WriteNext)
FairSpec ==
  /\ Spec
  /\ WF_vars(UpdateNext)
  /\ \A d \in Databases :
       /\ WF_vars(BackoffEnds(d))
       /\ SF_vars(Start(d))
       /\ SF_vars(UpdateOf(d) /\ pc = "read")
       /\ SF_vars(UpdateOf(d) /\ pc = "query")
       /\ SF_vars(UpdateOf(d) /\ pc = "write")

-----------------------------------------------------------------------------
(* Properties                                                              *)

Exported(d) ==
  {r \in Records : \E k \in DOMAIN lines[FileOf(d)] : lines[FileOf(d)][k] = Line(d, r)}

\* No record is exported twice, whatever restarts, failures and torn lines come between
\* an append and the next look at the file.
NoDuplicates ==
  "order" \notin upsets =>
    \A f \in Files : \A k, l \in DOMAIN lines[f] :
      lines[f][k] = lines[f][l] /\ lines[f][k] # Garbage => k = l

\* Without the untimely events the export implements OrderedExport: the backward scan finds
\* "the latest record for a database" (alertlog.go:98) in a file that others write to, and
\* whatever fails or restarts, the line that is appended is that of the record after it.
\* Equal timestamps, rows out of order and torn lines each break this.
Abstract == INSTANCE OrderedExport WITH Times <- Records, orderly <- (upsets = {})
ImplementsExport == Abstract!Spec

\* And every record is exported in the end.
EveryRecordExported ==
  upsets = {} =>
    \A d \in Databases : \A r \in Records :
      (r \in DOMAIN view[d]) ~> (r \in Exported(d))
=============================================================================
