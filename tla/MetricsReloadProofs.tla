------------------------- MODULE MetricsReloadProofs -------------------------
(***************************************************************************)
(* Safety of the hot reload, for any number of custom metric files and     *)
(* edits.                                                                  *)
(***************************************************************************)
EXTENDS MetricsReload, TLAPS

\* The definitions in use come from all files or, while no load has succeeded, from none.
AllOrNothing == metrics \in Complete \cup {Nothing}

\* What has been loaded so far is good and, if files stay put during a reload, still on
\* disk.  Nothing is in use before the first load ends.
LoadedSoFar ==
  /\ pc \in {"start", "load"} => \A f \in Index : f < file => loading[f] \in Valid
  /\ pc = "load" /\ ~racy => \A f \in Index : f < file => loading[f] = disk[f]
  /\ pc = "start" => metrics = Nothing

ReloadInv == TypeOK /\ AllOrNothing /\ LoadedSoFar

LEMMA InitReload == Init => ReloadInv
  BY ContentsAssumption, BoundsAssumption
  DEF Init, ReloadInv, TypeOK, AllOrNothing, LoadedSoFar, Nothing, Index

\* One step per action.  Only a load that has come to its end puts anything in use.
LEMMA NextReload == ReloadInv /\ [Next]_vars => ReloadInv'
<1> SUFFICES ASSUME ReloadInv, [Next]_vars PROVE ReloadInv'
  OBVIOUS
<1> USE ContentsAssumption, BoundsAssumption
<1> USE DEF ReloadInv, TypeOK, AllOrNothing, LoadedSoFar, Nothing, Complete, Index
<1>1. CASE Scrape
  BY <1>1 DEF Scrape, Goto
<1>2. CASE Check
  <2>1. file \in Index
    BY <1>2 DEF Check, Last
  <2>2. CASE Goto("load")
    BY <1>2, <2>2 DEF Check, Goto, HashesOnCheck
  <2>3. CASE NextFile
    BY <1>2, <2>1, <2>3 DEF Check, NextFile, HashesOnCheck
  <2> QED
    BY <1>2, <2>2, <2>3 DEF Check
<1>3. CASE CheckEnd
  BY <1>3 DEF CheckEnd, Goto
<1>4. CASE Load
  BY <1>4 DEF Load, Last, NextFile
<1>5. CASE LoadFails
  BY <1>5 DEF LoadFails, LoadFailed, Goto
<1>6. CASE LoadEnd
  <2>1. loading \in [Index -> Valid]
    BY <1>6 DEF LoadEnd, Last
  <2> QED
    BY <1>6, <2>1 DEF LoadEnd, Goto
<1>7. CASE Refresh
  BY <1>7 DEF Refresh, Last, NextFile, Sum
<1>8. CASE RefreshEnd
  BY <1>8 DEF RefreshEnd, Goto, HashesAfterRefresh
<1>9. CASE \E f \in Index : \E c \in Valid \cup Invalid \cup {Missing} : Edit(f, c)
  BY <1>9 DEF Edit
<1>10. CASE UNCHANGED vars
  BY <1>10 DEF vars
<1> QED
  BY <1>1, <1>2, <1>3, <1>4, <1>5, <1>6, <1>7, <1>8, <1>9, <1>10
  DEF Next, CheckNext, ReloadNext

LEMMA ReloadCorrect == Spec => []ReloadInv
  BY InitReload, NextReload, PTL DEF Spec

\* The files, the hashes and the definitions in use are of their types.
THEOREM TypeCorrect == Spec => []TypeOK
<1>1. ReloadInv => TypeOK
  BY DEF ReloadInv
<1> QED
  BY <1>1, ReloadCorrect, PTL

\* Files before the first load are as AtomicReload wants them.
LEMMA InitRefines == Init => Abstract!Init
  BY DEF Init, Nothing, Abstract!Init

\* An edit is an Edit, a load that has come to its end is a Reload, and whatever else the
\* exporter does, a reload that fails included, nobody who scrapes can tell.
LEMMA NextRefines ==
  ReloadInv /\ [Next]_vars => [Abstract!Next]_<<racy, disk, metrics>>
<1> SUFFICES ASSUME ReloadInv, [Next]_vars, ~UNCHANGED <<racy, disk, metrics>>
             PROVE  Abstract!Next
  OBVIOUS
<1>1. CASE LoadEnd
  <2>1. metrics' = loading /\ loading \in Complete
    BY <1>1, BoundsAssumption
    DEF LoadEnd, Last, ReloadInv, TypeOK, LoadedSoFar, Complete, Index
  <2>2. metrics \in Complete => pc = "load"
    BY <1>1, BoundsAssumption, ContentsAssumption
    DEF LoadEnd, ReloadInv, LoadedSoFar, Complete, Nothing, Index
  <2>3. ASSUME pc = "load", ~racy PROVE loading = disk
    BY <1>1, <2>1, <2>3, BoundsAssumption
    DEF LoadEnd, Last, ReloadInv, TypeOK, LoadedSoFar, Complete, Index
  <2>4. UNCHANGED <<racy, disk>>
    BY <1>1 DEF LoadEnd
  <2> QED
    BY <2>1, <2>2, <2>3, <2>4 DEF Abstract!Next, Abstract!Reload, Abstract!Whole, Complete
<1>2. CASE \E f \in Index : \E c \in Valid \cup Invalid \cup {Missing} : Edit(f, c)
  BY <1>2 DEF Edit, Abstract!Next, Abstract!Edit
<1>3. CASE LoadFails
  BY <1>3 DEF LoadFails, LoadFailed
<1>4. CASE Scrape \/ CheckNext \/ Load \/ Refresh \/ RefreshEnd
  BY <1>4 DEF Scrape, CheckNext, Check, CheckEnd, Load, Refresh, RefreshEnd
<1>5. CASE UNCHANGED vars
  BY <1>5 DEF vars
<1> QED
  BY <1>1, <1>2, <1>3, <1>4, <1>5 DEF Next, ReloadNext

\* Reloads are atomic: what a scrape finds in use was loaded from all files at once, a file
\* that is missing or broken leaves it alone, and unless a file is edited in the middle it
\* is what was on disk (loadMetricsToScrape, reloadMetrics).
THEOREM ReloadsAreAtomic == Spec => ImplementsAtomicReload
  BY InitRefines, NextRefines, ReloadCorrect, PTL
  DEF Spec, ImplementsAtomicReload, Abstract!Spec
==============================================================================
