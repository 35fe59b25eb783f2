---------------------------- MODULE AtomicScrape ----------------------------
(***************************************************************************)
(* What a scrape promises to those who read its results, without           *)
(* goroutines and channels: samples and failures come in any order, each   *)
(* once; the failures are counted when no other can come, and the results  *)
(* are there, all of them and at one stroke, when the scrape ends.  While  *)
(* it goes on nobody has results.                                          *)
(***************************************************************************)
EXTENDS Naturals, FiniteSets

CONSTANTS
  Sources,    \* what has samples
  Reporters,  \* what can fail
  Always      \* samples of the exporter itself

VARIABLES
  phase,      \* "ended", "scraping", or "counted"
  found,      \* the sources whose samples the last scrape has sent
  failures,   \* what has failed in it
  results,    \* what a reader gets
  errors      \* the error gauge

Init ==
  /\ phase = "ended"
  /\ found = {} /\ failures = {}
  /\ results = {}
  /\ errors = 0

Start ==
  /\ phase = "ended" /\ phase' = "scraping"
  /\ found' = {} /\ failures' = {}
  /\ results' = {}
  /\ UNCHANGED errors

Find ==
  /\ phase = "scraping"
  /\ \E s \in Sources \ found : found' = found \cup {s}
  /\ UNCHANGED <<phase, failures, results, errors>>

Fail ==
  /\ phase = "scraping"
  /\ \E r \in Reporters \ failures : failures' = failures \cup {r}
  /\ UNCHANGED <<phase, found, results, errors>>

Count ==
  /\ phase = "scraping" /\ phase' = "counted"
  /\ errors' = Cardinality(failures)
  /\ UNCHANGED <<found, failures, results>>

End ==
  /\ phase = "counted" /\ phase' = "ended"
  /\ results' = found \cup Always
  /\ UNCHANGED <<found, failures, errors>>

Next == Start \/ Find \/ Fail \/ Count \/ End

Spec == Init /\ [][Next]_<<phase, found, failures, results, errors>>
=============================================================================
