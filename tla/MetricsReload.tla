---------------------------- MODULE MetricsReload ----------------------------
(***************************************************************************)
(* Hot reload of the custom metric files (collector/collector.go and       *)
(* data_loader.go).  Each scrape hashes the files, one after the other,    *)
(* and on the first difference loads all of them, publishes the merged     *)
(* definitions and hashes all of them again.  The files are edited by      *)
(* others at any time, so every open of a file is a step of its own.       *)
(*                                                                         *)
(* A file's content stands for its hash and for what it defines.           *)
(***************************************************************************)
EXTENDS Naturals

CONSTANTS
  NumFiles,           \* how many files metrics.custom lists
  Valid,              \* contents that parse
  Invalid,            \* contents that do not
  MaxEdits            \* bound on the number of edits

Missing == "missing"  \* the file cannot be opened
None == "none"        \* no hash recorded, no definition taken from the file

ASSUME ContentsAssumption ==
  /\ Valid \cap Invalid = {}
  /\ {Missing, None} \cap (Valid \cup Invalid) = {}
ASSUME BoundsAssumption ==
  NumFiles \in Nat \ {0} /\ MaxEdits \in Nat

Index == 1 .. NumFiles

VARIABLES
  racy,      \* may a file change between the loads and the hashes of a reload?
  disk,      \* the content of each file
  edits,     \* how many times a file has been edited
  pc,        \* where the exporter is: "start", "idle", "check", "load" or "refresh"
  file,      \* the file that step has come to
  loading,   \* what loadMetricsToScrape has read so far
  metrics,   \* e.metricsToScrape: the content each file's definitions come from
  sums,      \* what refreshCustomMetricsHashes has hashed so far
  hashes     \* e.customMetricsHashes

vars == <<racy, disk, edits, pc, file, loading, metrics, sums, hashes>>

Nothing == [f \in Index |-> None]
Complete == [Index -> Valid]

TypeOK ==
  /\ racy \in BOOLEAN
  /\ disk \in [Index -> Valid \cup Invalid \cup {Missing}]
  /\ edits \in 0 .. MaxEdits
  /\ pc \in {"start", "idle", "check", "load", "refresh"}
  /\ file \in 1 .. NumFiles + 1
  /\ loading \in [Index -> Valid \cup {None}]
  /\ metrics \in [Index -> Valid \cup {None}]
  /\ sums \in [Index -> Valid \cup Invalid \cup {None}]
  /\ hashes \in [Index -> Valid \cup Invalid \cup {None}]

Init ==
  /\ racy \in BOOLEAN
  /\ disk \in [Index -> Valid \cup Invalid \cup {Missing}]
  /\ edits = 0
  /\ pc = "start"
  /\ file = 1
  /\ loading = Nothing
  /\ metrics = Nothing
  /\ sums = Nothing
  /\ hashes = Nothing

-----------------------------------------------------------------------------
(* Helpers                                                                 *)

Last == file = NumFiles + 1
Goto(point) == pc' = point /\ file' = 1
NextFile == file' = file + 1 /\ UNCHANGED pc

\* After a failed load: at startup only the default metrics remain, on a reload the ones
\* in use do.  (Mutant: the files read so far are used.)
LoadFailedKeepsPart == loading
LoadFailed == metrics

\* Finding a difference does not record it: a failed reload is tried again.
\* (Mutant: it does.)
HashesRecorded == [hashes EXCEPT ![file] = IF disk[file] = Missing THEN None ELSE disk[file]]
HashesOnCheck == hashes

\* A file that cannot be read has no hash.  (Mutant: the error is ignored.)
SumIgnoringErrors == disk[file]
Sum == IF disk[file] = Missing THEN None ELSE disk[file]

\* The new hashes replace the old ones.  (Mutant: they are dropped.)
HashesDropped == hashes
HashesAfterRefresh == sums

-----------------------------------------------------------------------------
(* checkIfMetricsChanged, at the start of each scrape                      *)

Scrape ==
  /\ pc = "idle"
  /\ Goto("check")
  /\ UNCHANGED <<racy, disk, edits, loading, metrics, sums, hashes>>

\* A file that cannot be read counts as changed, like one whose hash differs.
Check ==
  /\ pc = "check" /\ ~Last
  /\ \/ hashes[file] # disk[file] /\ Goto("load")
     \/ hashes[file] = disk[file] /\ NextFile
  /\ hashes' = HashesOnCheck
  /\ loading' = Nothing
  /\ UNCHANGED <<racy, disk, edits, metrics, sums>>

CheckEnd ==
  /\ pc = "check" /\ Last
  /\ Goto("idle")
  /\ UNCHANGED <<racy, disk, edits, loading, metrics, sums, hashes>>

-----------------------------------------------------------------------------
(* NewExporter, and reloadMetrics in a scrape                              *)

Load ==
  /\ pc \in {"start", "load"} /\ ~Last
  /\ disk[file] \in Valid
  /\ loading' = [loading EXCEPT ![file] = disk[file]]
  /\ NextFile
  /\ UNCHANGED <<racy, disk, edits, metrics, sums, hashes>>

LoadFails ==
  /\ pc \in {"start", "load"} /\ ~Last
  /\ disk[file] \notin Valid
  /\ metrics' = LoadFailed
  /\ sums' = Nothing
  /\ Goto("idle")
  /\ UNCHANGED <<racy, disk, edits, loading, hashes>>

LoadEnd ==
  /\ pc \in {"start", "load"} /\ Last
  /\ metrics' = loading
  /\ sums' = Nothing
  /\ Goto(IF pc = "start" THEN "idle" ELSE "refresh")
  /\ UNCHANGED <<racy, disk, edits, loading, hashes>>

\* refreshCustomMetricsHashes: hash what is on disk by now.
Refresh ==
  /\ pc = "refresh" /\ ~Last
  /\ sums' = [sums EXCEPT ![file] = Sum]
  /\ NextFile
  /\ UNCHANGED <<racy, disk, edits, loading, metrics, hashes>>

RefreshEnd ==
  /\ pc = "refresh" /\ Last
  /\ hashes' = HashesAfterRefresh
  /\ Goto("idle")
  /\ UNCHANGED <<racy, disk, edits, loading, metrics, sums>>

-----------------------------------------------------------------------------
(* Environment: a file is written, removed or replaced                     *)

Edit(f, content) ==
  /\ edits < MaxEdits
  /\ pc \in {"load", "refresh"} => racy
  /\ disk[f] # content
  /\ disk' = [disk EXCEPT ![f] = content]
  /\ edits' = edits + 1
  /\ UNCHANGED <<racy, pc, file, loading, metrics, sums, hashes>>

-----------------------------------------------------------------------------
(* Specification                                                           *)

CheckNext == Check \/ CheckEnd
ReloadNext == Load \/ LoadFails \/ LoadEnd \/ Refresh \/ RefreshEnd

Next ==
  \/ Scrape
  \/ CheckNext
  \/ ReloadNext
  \/ \E f \in Index : \E c \in Valid \cup Invalid \cup {Missing} : Edit(f, c)

Spec == Init /\ [][Next]_vars

\* Scrapes keep coming, and each one ends.
FairSpec == Spec /\ WF_vars(Scrape \/ CheckNext \/ ReloadNext)

-----------------------------------------------------------------------------
(* Properties                                                              *)

\* Loading file by file and publishing at the end implements AtomicReload: a file that is
\* missing or broken spoils a reload without a trace, "preserving the last known good metric
\* set", and unless one is edited in the middle, what is published is what is on disk.
Abstract ==
  INSTANCE AtomicReload
  WITH Files <- Index, Good <- Valid, Bad <- Invalid \cup {Missing}, edited <- racy
ImplementsAtomicReload == Abstract!Spec

\* Files that stay good are in use in the end, whatever was on disk before, unless one was
\* edited in the middle of a reload.
HotReload == ~racy => \A c \in Complete : <>[](disk = c) => <>[](metrics = c)

\* Without exception: "When these files change, the exporter hot reloads the metrics
\* definition, and serves the new metrics on the next scrape" (custom-metrics.md:27).
ServesNewMetrics == \A c \in Complete : <>[](disk = c) => <>[](metrics = c)

\* Once the files are good and stay so, reloads stop, and with them the loss of every
\* cached metric that each reload is.
ReloadsStop == \A c \in Complete : <>[](disk = c) => <>[](pc # "load")
==============================================================================
