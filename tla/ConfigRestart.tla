---------------------------- MODULE ConfigRestart ----------------------------
(***************************************************************************)
(* Dynamic configuration (restart/config_watcher.go and main.go).  The     *)
(* process loads the config file, fingerprints it and watches it; a change *)
(* that validates asks the coordinator, over a channel that holds one      *)
(* request, to replace the process by a new one, which loads the file      *)
(* again or exits.  RESTART_INTERVAL asks for the same, once per process.  *)
(*                                                                         *)
(* The file is edited by others.  The untimely events a behaviour admits   *)
(* are part of its initial state, so that the properties can say which of  *)
(* them they survive.  A file's content stands for its fingerprint and for *)
(* the configuration it holds.                                             *)
(***************************************************************************)
EXTENDS Naturals

CONSTANTS
  Valid,      \* contents LoadMetricsConfiguration accepts
  Invalid,    \* contents it rejects
  Unstartable,  \* contents it accepts, with which main panics on its way to the server: a
                \* metricsPath "/", a log.interval of zero, ...
  Unscrapable,  \* contents it accepts, with which a scrape panics: a negative interval, a label
                \* no metric may have, ...
  Unservable,   \* contents it accepts, with web settings the HTTP server rejects
  MaxEdits    \* bound on the number of edits

Missing == "missing"      \* the file cannot be read
Untimely ==
  {"boot",      \* an edit between the load of the file and the start of the watch
   "restart",   \* an edit between the validation of a change and the load that follows
   "interval",  \* RESTART_INTERVAL is set
   "watch",     \* fsnotify may not be able to watch the directory
   "exec"}      \* syscall.Exec may fail

\* What is accepted although the process cannot live with it.
Unusable == Unstartable \cup Unscrapable \cup Unservable

ASSUME ContentsAssumption ==
  Valid \cap Invalid = {} /\ Missing \notin Valid \cup Invalid /\ Unusable \subseteq Valid
ASSUME MaxEditsAssumption == MaxEdits \in Nat

Contents == Valid \cup Invalid \cup {Missing}

VARIABLES
  upsets,     \* the untimely events admitted
  disk,       \* the content of the config file
  edits,      \* how many times it has been edited
  verdict,    \* what the watcher has found of it: "none" or "invalid" (a record, for a property)
  main,       \* the main goroutine: "load", "print", "watch", "start", "run" or "exited"
  active,     \* the configuration loaded last
  print,      \* the fingerprint WatchConfigFile compares with
  watching,   \* has watcher.Add succeeded?
  event,      \* does an event wait in watcher.Events?
  watcher,    \* the watching goroutine: "wait", "read", "validate" or "request"
  seen,       \* updatedFingerprint
  requests,   \* does restartRequests hold a request?
  coord,      \* the coordinator: "wait" or "exec"
  armed,      \* is the RESTART_INTERVAL goroutine waiting for its tick?
  unserved    \* a change was accepted and no exec attempted since

vars == <<upsets, disk, edits, verdict, main, active, print, watching, event, watcher, seen, requests,
          coord, armed, unserved>>
file == <<upsets, disk, edits, verdict>>
process == <<main, active>>
watch == <<print, watching, event, watcher, seen>>

TypeOK ==
  /\ upsets \subseteq Untimely
  /\ disk \in Contents
  /\ edits \in 0 .. MaxEdits
  /\ verdict \in {"none", "invalid"}
  /\ main \in {"load", "print", "watch", "start", "run", "exited"}
  /\ active \in Valid
  /\ print \in Contents
  /\ watching \in BOOLEAN
  /\ event \in BOOLEAN
  /\ watcher \in {"wait", "read", "validate", "request"}
  /\ seen \in Valid \cup Invalid
  /\ requests \in BOOLEAN
  /\ coord \in {"wait", "exec"}
  /\ armed \in BOOLEAN
  /\ unserved \in BOOLEAN

\* A process that has just loaded its configuration for the first time.
Init ==
  /\ upsets \in SUBSET Untimely
  /\ disk \in Valid
  /\ edits = 0
  /\ verdict = "none"
  /\ main = "print"
  /\ active = disk
  /\ print = disk
  /\ watching = FALSE
  /\ event = FALSE
  /\ watcher = "wait"
  /\ seen = disk
  /\ requests = FALSE
  /\ coord = "wait"
  /\ armed = FALSE
  /\ unserved = FALSE

-----------------------------------------------------------------------------
(* main                                                                    *)

\* LoadMetricsConfiguration; an invalid file ends the process.
Load ==
  /\ main = "load"
  /\ \/ disk \in Valid /\ active' = disk /\ main' = "print"
     \/ disk \notin Valid /\ main' = "exited" /\ UNCHANGED active
  /\ UNCHANGED <<file, watch, requests, coord, armed, unserved>>

\* WatchConfigFile: a file that cannot be read is not watched, and main goes on.
Fingerprint ==
  /\ main = "print"
  /\ \/ disk # Missing /\ print' = disk /\ main' = "watch"
     \/ disk = Missing /\ main' = "start" /\ UNCHANGED print
  /\ UNCHANGED <<file, active, watching, event, watcher, seen, requests, coord, armed, unserved>>

\* NewWatcher and Add; main goes on without a watch if one of them fails.
Watch ==
  /\ main = "watch"
  /\ \/ watching' = TRUE
     \/ "watch" \in upsets /\ UNCHANGED watching
  /\ main' = "start"
  /\ UNCHANGED <<file, active, print, event, watcher, seen, requests, coord, armed, unserved>>

\* The handlers, the RESTART_INTERVAL goroutine, the tickers and the HTTP server.
Start ==
  /\ main = "start"
  /\ \/ active \in Unstartable /\ main' = "exited" /\ UNCHANGED armed
     \/ active \notin Unstartable /\ main' = "run" /\ armed' = ("interval" \in upsets)
  /\ UNCHANGED <<file, active, watch, requests, coord, unserved>>

\* A goroutine of a scrape panics; those of scheduled ones run before main is ready.
ScrapePanics ==
  /\ main \in {"start", "run"}
  /\ active \in Unscrapable
  /\ main' = "exited"
  /\ UNCHANGED <<file, active, watch, requests, coord, armed, unserved>>

\* The HTTP server's error ends the process.
ServerFails ==
  /\ main = "run"
  /\ active \in Unservable
  /\ main' = "exited"
  /\ UNCHANGED <<file, active, watch, requests, coord, armed, unserved>>

-----------------------------------------------------------------------------
(* The watching goroutine                                                  *)

Wake ==
  /\ watcher = "wait"
  /\ event
  /\ event' = FALSE
  /\ watcher' = "read"
  /\ UNCHANGED <<file, process, print, watching, seen, requests, coord, armed, unserved>>

\* An unreadable or an unchanged file is left at that.  (Mutants: a file seen before is
\* left too; an unreadable one is a change.)
UnchangedSinceSeen == disk \in {Missing, print, seen}
UnreadableCounts == disk = print
Unchanged == disk \in {Missing, print}

Read ==
  /\ watcher = "read"
  /\ \/ /\ ~Unchanged
        /\ seen' = disk
        /\ watcher' = "validate"
     \/ /\ Unchanged
        /\ watcher' = "wait"
        /\ UNCHANGED seen
  /\ UNCHANGED <<file, process, print, watching, event, requests, coord, armed, unserved>>

\* The fingerprint of a file that turns out invalid.  (Mutant: it is remembered, so that
\* a return to the file of before is a change, and one to this file is none.)
RejectedRemembered == seen
Rejected == print

\* Validation reads the file once more.  (Mutant: any file that can be read passes.)
AcceptsReadable == disk # Missing
Accepted == disk \in Valid

Validate ==
  /\ watcher = "validate"
  /\ \/ /\ Accepted
        /\ print' = seen
        /\ unserved' = TRUE
        /\ watcher' = "request"
        /\ UNCHANGED verdict
     \/ /\ ~Accepted
        /\ verdict' = IF disk \in Invalid THEN "invalid" ELSE "none"
        /\ print' = Rejected
        /\ watcher' = "wait"
        /\ UNCHANGED unserved
  /\ UNCHANGED <<upsets, disk, edits, process, watching, event, seen, requests, coord, armed>>

\* RequestRestart: a request that finds another one pending is dropped.
\* (Mutant: the channel holds none, so one that finds the coordinator busy is lost.)
RequestUnbuffered == requests' = (requests \/ coord = "wait")
RequestRestart == requests' = TRUE

Changed ==
  /\ watcher = "request"
  /\ RequestRestart
  /\ watcher' = "wait"
  /\ UNCHANGED <<file, process, print, watching, event, seen, coord, armed, unserved>>

\* The goroutine main starts for RESTART_INTERVAL receives one tick.
IntervalElapses ==
  /\ armed
  /\ armed' = FALSE
  /\ RequestRestart
  /\ UNCHANGED <<file, process, watch, coord, unserved>>

-----------------------------------------------------------------------------
(* RunRestartCoordinator                                                   *)

Take ==
  /\ coord = "wait"
  /\ requests
  /\ requests' = FALSE
  /\ coord' = "exec"
  /\ unserved' = FALSE
  /\ UNCHANGED <<file, process, watch, armed>>

\* syscall.Exec: every goroutine and channel is gone, the file is loaded anew.
Exec ==
  /\ coord = "exec"
  /\ main' = "load"
  /\ watching' = FALSE /\ event' = FALSE /\ watcher' = "wait"
  /\ requests' = FALSE /\ coord' = "wait" /\ armed' = FALSE /\ unserved' = FALSE
  /\ UNCHANGED <<file, active, print, seen>>

\* Its failure is logged.
ExecFails ==
  /\ coord = "exec"
  /\ "exec" \in upsets
  /\ coord' = "wait"
  /\ UNCHANGED <<file, process, watch, requests, armed, unserved>>

-----------------------------------------------------------------------------
(* Environment                                                             *)

RestartUnderway == watcher = "request" \/ requests \/ coord = "exec" \/ main = "load"

\* The file is written, replaced or removed; the watch, if there is one, notices.
Edit(content) ==
  /\ edits < MaxEdits
  /\ main \in {"print", "watch"} => "boot" \in upsets
  /\ RestartUnderway => "restart" \in upsets
  /\ disk # content
  /\ disk' = content
  /\ edits' = edits + 1
  /\ verdict' = "none"
  /\ event' = watching
  /\ UNCHANGED <<upsets, process, print, watching, watcher, seen, requests, coord, armed, unserved>>

-----------------------------------------------------------------------------
(* Specification                                                           *)

\* An exited process does nothing.
MainNext == Load \/ Fingerprint \/ Watch \/ Start
FailureNext == ScrapePanics \/ ServerFails
WatcherNext == main # "exited" /\ (Wake \/ Read \/ Validate \/ Changed)
CoordNext == main # "exited" /\ (Take \/ Exec \/ ExecFails)
TimerNext == main # "exited" /\ IntervalElapses

Next ==
  \/ MainNext \/ FailureNext \/ WatcherNext \/ CoordNext \/ TimerNext
  \/ \E c \in Contents : Edit(c)

Spec == Init /\ [][Next]_vars

\* Goroutines are scheduled; an exec that may fail is not relied on to succeed.
FairSpec ==
  Spec /\ WF_vars(MainNext) /\ WF_vars(WatcherNext) /\ WF_vars(CoordNext)

-----------------------------------------------------------------------------
(* Properties                                                              *)

\* A change the watcher has accepted reaches the coordinator: a request dropped because
\* one was pending is served by that one, for the file is only read after the exec.
RestartNotLost == unserved => watcher = "request" \/ requests

\* While a good file differs from what the watcher has accepted, an event waits or the
\* watcher is on its way to it: an edit in the middle of a check causes another, whatever
\* becomes of the restart the first one asked for.
ChangeNoticed ==
  "boot" \notin upsets /\ watching /\ disk \in Valid /\ disk # print =>
    event \/ watcher \in {"read", "validate"}

\* No file that is edited ends a running exporter through the watcher, unless main accepts it
\* and cannot live with it, or it changes between its validation and its load. Only
\* RESTART_INTERVAL restarts into any other.
StaysUp ==
  main = "exited" => "restart" \in upsets \/ "interval" \in upsets \/ active \in Unusable

\* "If the new config file is invalid or otherwise cannot be parsed, the exporter continues
\* using the previous version of the config file, until a valid config file is supplied"
\* (config-file.md:177): it does not end of a file that it has found invalid.
KeepsPreviousVersion == [][verdict = "invalid" /\ main = "load" => main' # "exited"]_vars

\* A good file that is left alone ends up in use, whatever came before it
\* (config-file.md:175: "will dynamically restart when this file changes"), if the exporter
\* does not exit, exec and fsnotify work and the file was left alone during boot.
AppliesChange ==
  upsets \cap {"boot", "exec", "watch"} = {} /\ [](main # "exited") =>
    \A c \in Valid : <>[](disk = c) => <>[](active = c)
==============================================================================
