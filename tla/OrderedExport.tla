---------------------------- MODULE OrderedExport ----------------------------
(***************************************************************************)
(* What an export of alert logs promises: a file only grows, and what it   *)
(* grows by is the next record of a database, none skipped and none twice. *)
(* The promise is given as long as things come in order.                   *)
(***************************************************************************)
EXTENDS Naturals, Sequences

CONSTANTS
  Databases,
  Files,
  FileOf(_),       \* the file of a database
  Line(_, _),      \* the line of a database's record
  Times            \* timestamps

VARIABLES
  orderly,         \* do things come in order?
  view,            \* the timestamps of each database's records
  lines            \* the lines of each file

Exported(d) ==
  {r \in DOMAIN view[d] : \E k \in DOMAIN lines[FileOf(d)] : lines[FileOf(d)][k] = Line(d, r)}

Init ==
  /\ orderly \in BOOLEAN
  /\ view = [d \in Databases |-> <<>>]
  /\ lines = [f \in Files |-> <<>>]

Log(d) ==
  /\ \E time \in Times : view' = [view EXCEPT ![d] = Append(@, time)]
  /\ UNCHANGED <<orderly, lines>>

Export(d) ==
  /\ \E r \in DOMAIN view[d] :
       /\ Exported(d) = 1 .. (r - 1)
       /\ lines' = [lines EXCEPT ![FileOf(d)] = Append(@, Line(d, r))]
  /\ UNCHANGED <<orderly, view>>

Spoil ==
  /\ ~orderly
  /\ UNCHANGED orderly

Next == Spoil \/ \E d \in Databases : Log(d) \/ Export(d)

Spec == Init /\ [][Next]_<<orderly, view, lines>>
=============================================================================
