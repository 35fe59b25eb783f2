------------------------- MODULE ConfigRestartProofs -------------------------
(***************************************************************************)
(* Safety of the dynamic configuration, for any file contents, number of   *)
(* edits and untimely events.                                              *)
(***************************************************************************)
EXTENDS ConfigRestart, TLAPS

-----------------------------------------------------------------------------
(* The inductive invariant, in named parts                                 *)

\* Before WatchConfigFile has set up the watch, its goroutine does not exist.
WatchInv ==
  /\ main \in {"load", "print", "watch"} => ~watching
  /\ ~watching => ~event /\ watcher = "wait"

\* Without edits during boot the watch starts from the file that was fingerprinted, and
\* what it validates is the file on disk or one an event tells of.
NoticeInv ==
  "boot" \notin upsets =>
    /\ main = "watch" => print = disk
    /\ watcher = "validate" => event \/ seen = disk
    /\ ChangeNoticed

\* Only RESTART_INTERVAL restarts into a file the watcher has not found good.
RestartInv ==
  /\ armed => "interval" \in upsets
  /\ "restart" \in upsets \/ "interval" \in upsets \/ (RestartUnderway => disk \in Valid)

ConfigInv ==
  TypeOK /\ WatchInv /\ NoticeInv /\ RestartInv /\ StaysUp /\ RestartNotLost

-----------------------------------------------------------------------------
LEMMA InitConfig == Init => ConfigInv
<1> SUFFICES ASSUME Init PROVE ConfigInv
  OBVIOUS
<1> USE DEF Init
<1>1. TypeOK
  <2>1. edits \in 0 .. MaxEdits
    BY MaxEditsAssumption
  <2>2. disk \in Contents /\ active \in Valid /\ print \in Contents /\ seen \in Valid \cup Invalid
    BY DEF Contents
  <2> QED
    BY <2>1, <2>2 DEF TypeOK
<1>2. WatchInv /\ NoticeInv
  BY DEF WatchInv, NoticeInv, ChangeNoticed
<1>3. RestartInv /\ StaysUp /\ RestartNotLost
  BY DEF RestartInv, RestartUnderway, StaysUp, RestartNotLost
<1> QED
  BY <1>1, <1>2, <1>3 DEF ConfigInv

LEMMA NextTypes == TypeOK /\ [Next]_vars => TypeOK'
<1> SUFFICES ASSUME TypeOK, [Next]_vars PROVE TypeOK'
  OBVIOUS
<1>c. Valid \cup Invalid \subseteq Contents /\ Contents \ {Missing} \subseteq Valid \cup Invalid
  BY DEF Contents
<1> USE MaxEditsAssumption
<1> USE DEF TypeOK, file, process, watch
<1>1. CASE MainNext \/ FailureNext
  <2>1. CASE Load
    BY <2>1 DEF Load
  <2>2. CASE Fingerprint \/ Watch
    BY <2>2 DEF Fingerprint, Watch
  <2>3. CASE Start
    <3>1. armed' \in BOOLEAN
      <4>1. CASE armed' = ("interval" \in upsets)
        BY <4>1
      <4> QED
        BY <2>3, <4>1 DEF Start
    <3> QED
      BY <2>3, <3>1 DEF Start
  <2>4. CASE ScrapePanics \/ ServerFails
    BY <2>4 DEF ScrapePanics, ServerFails
  <2> QED
    BY <1>1, <2>1, <2>2, <2>3, <2>4 DEF MainNext, FailureNext
<1>2. CASE WatcherNext
  <2>1. CASE Wake
    BY <2>1 DEF Wake
  <2>2. CASE Read
    BY <2>2, <1>c DEF Read, Unchanged
  <2>3. CASE Validate
    <3>1. print' \in Contents
      BY <2>3, <1>c DEF Validate, Rejected
    <3>2. verdict' \in {"none", "invalid"}
      BY <2>3 DEF Validate
    <3> QED
      BY <2>3, <3>1, <3>2 DEF Validate
  <2>4. CASE Changed
    BY <2>4 DEF Changed, RequestRestart
  <2> QED
    BY <1>2, <2>1, <2>2, <2>3, <2>4 DEF WatcherNext
<1>3. CASE CoordNext
  BY <1>3 DEF CoordNext, Take, Exec, ExecFails
<1>4. CASE TimerNext
  BY <1>4 DEF TimerNext, IntervalElapses, RequestRestart
<1>5. CASE \E c \in Contents : Edit(c)
  BY <1>5 DEF Edit
<1>6. CASE UNCHANGED vars
  BY <1>6 DEF vars
<1> QED
  BY <1>1, <1>2, <1>3, <1>4, <1>5, <1>6 DEF Next

\* One step per action.
LEMMA NextConfig == ConfigInv /\ [Next]_vars => ConfigInv'
<1> SUFFICES ASSUME ConfigInv, [Next]_vars PROVE ConfigInv'
  OBVIOUS
<1>t. TypeOK'
  BY NextTypes DEF ConfigInv
<1> SUFFICES (WatchInv /\ NoticeInv /\ RestartInv /\ StaysUp /\ RestartNotLost)'
  BY <1>t DEF ConfigInv
<1> USE DEF ConfigInv, TypeOK, WatchInv, NoticeInv, ChangeNoticed, RestartInv,
            RestartUnderway, StaysUp, RestartNotLost, file, process, watch
<1>1. CASE Load
  BY <1>1 DEF Load
<1>2. CASE Fingerprint
  BY <1>2 DEF Fingerprint
<1>3. CASE Watch
  BY <1>3 DEF Watch
<1>4. CASE Start \/ ScrapePanics \/ ServerFails
  BY <1>4 DEF Start, ScrapePanics, ServerFails, Unusable
<1>5. CASE Wake
  BY <1>5 DEF Wake
<1>6. CASE Read
  BY <1>6, ContentsAssumption DEF Read, Unchanged
<1>7. CASE Validate
  BY <1>7 DEF Validate, Accepted, Rejected
<1>8. CASE Changed
  BY <1>8 DEF Changed, RequestRestart
<1>9. CASE TimerNext
  BY <1>9 DEF TimerNext, IntervalElapses, RequestRestart
<1>10. CASE Take
  BY <1>10 DEF Take
<1>11. CASE Exec /\ main # "exited"
  BY <1>11 DEF Exec
<1>12. CASE ExecFails
  BY <1>12 DEF ExecFails
<1>13. CASE \E c \in Contents : Edit(c)
  BY <1>13 DEF Edit
<1>14. CASE UNCHANGED vars
  BY <1>14 DEF vars
<1> QED
  BY <1>1, <1>2, <1>3, <1>4, <1>5, <1>6, <1>7, <1>8, <1>9, <1>10, <1>11, <1>12, <1>13, <1>14
  DEF Next, MainNext, FailureNext, WatcherNext, CoordNext

LEMMA ConfigCorrect == Spec => []ConfigInv
  BY InitConfig, NextConfig, PTL DEF Spec

-----------------------------------------------------------------------------
\* The files, fingerprints, goroutines and channels are of their types.
THEOREM TypeCorrect == Spec => []TypeOK
<1>1. ConfigInv => TypeOK
  BY DEF ConfigInv
<1> QED
  BY <1>1, ConfigCorrect, PTL

\* RequestRestart may drop a request, but no change the watcher has accepted goes without
\* one: the coordinator has yet to take the request of that change or of another.
THEOREM RequestsReachTheCoordinator == Spec => []RestartNotLost
<1>1. ConfigInv => RestartNotLost
  BY DEF ConfigInv
<1> QED
  BY <1>1, ConfigCorrect, PTL

\* A good file that differs from the accepted one is always about to be looked at, if it
\* was not edited during boot, even when edits come while the watcher is busy.
THEOREM ChangesAreNoticed == Spec => []ChangeNoticed
<1>1. ConfigInv => ChangeNoticed
  BY DEF ConfigInv, NoticeInv, ChangeNoticed
<1> QED
  BY <1>1, ConfigCorrect, PTL

\* The configuration ends the exporter only if the file changed after its validation, if
\* RESTART_INTERVAL loaded it without any, or if it is one that main accepts and cannot live
\* with.
THEOREM ExporterStaysUp == Spec => []StaysUp
<1>1. ConfigInv => StaysUp
  BY DEF ConfigInv
<1> QED
  BY <1>1, ConfigCorrect, PTL
==============================================================================
