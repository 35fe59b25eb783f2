------------------------- MODULE SessionOwnership -------------------------
(***************************************************************************)
(* What the locking of collector/database.go promises about the handle a   *)
(* database's goroutines share, without locks, health or control: whoever  *)
(* borrows the handle borrows the current one, and it is replaced only     *)
(* when nobody has it.  DatabaseConnection implements this specification.  *)
(***************************************************************************)
CONSTANTS Borrowers, Handles, NoHandle

VARIABLES
  current,    \* the published handle, or NoHandle
  borrowed    \* the handle each borrower works on, or NoHandle

vars == <<current, borrowed>>

Init ==
  /\ current \in Handles \cup {NoHandle}
  /\ borrowed = [b \in Borrowers |-> NoHandle]

Borrow(b) ==
  /\ current # NoHandle
  /\ borrowed[b] = NoHandle
  /\ borrowed' = [borrowed EXCEPT ![b] = current]
  /\ UNCHANGED current

Return(b) ==
  /\ borrowed[b] # NoHandle
  /\ borrowed' = [borrowed EXCEPT ![b] = NoHandle]
  /\ UNCHANGED current

Replace(h) ==
  /\ \A b \in Borrowers : borrowed[b] = NoHandle
  /\ h # current
  /\ current' = h
  /\ UNCHANGED borrowed

Next ==
  \/ \E b \in Borrowers : Borrow(b) \/ Return(b)
  \/ \E h \in Handles : Replace(h)

Spec == Init /\ [][Next]_vars
============================================================================
