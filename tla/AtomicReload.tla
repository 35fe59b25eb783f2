---------------------------- MODULE AtomicReload ----------------------------
(***************************************************************************)
(* What a reload of metric files promises to those who scrape: definitions *)
(* change at one stroke, from those of one state of all files to those of  *)
(* another in which all are good.  If the files are edited while they are  *)
(* read, the state may be one that was never on disk, and so may the first *)
(* one be, but it is a whole one nevertheless.                             *)
(***************************************************************************)
CONSTANTS
  Files,
  Good,      \* contents that define metrics
  Bad,       \* contents that do not
  None       \* no definition is taken from a file

VARIABLES
  edited,    \* may files be edited while they are read?
  disk,      \* the content of each file
  metrics    \* the contents whose definitions are in use

Whole == [Files -> Good]

Init ==
  /\ edited \in BOOLEAN
  /\ disk \in [Files -> Good \cup Bad]
  /\ metrics = [f \in Files |-> None]

Edit ==
  /\ \E f \in Files, c \in Good \cup Bad : disk' = [disk EXCEPT ![f] = c]
  /\ UNCHANGED <<edited, metrics>>

Reload ==
  /\ metrics' \in Whole
  /\ metrics \in Whole /\ ~edited => metrics' = disk
  /\ UNCHANGED <<edited, disk>>

Next == Edit \/ Reload

Spec == Init /\ [][Next]_<<edited, disk, metrics>>
=============================================================================
