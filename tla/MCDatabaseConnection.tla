---------------------- MODULE MCDatabaseConnection ----------------------
(* Instances of DatabaseConnection for TLC.                              *)
EXTENDS DatabaseConnection, TLC

\* Scrapers, metric goroutines and handles are interchangeable; used by the runs
\* that check safety only.
Symmetry == Permutations(Scrapers) \cup Permutations(Workers) \cup Permutations(Handles)
==========================================================================
