------------------------------ MODULE LockPolicy ------------------------------
(***************************************************************************)
(* What the lock screen promises, without the document it is kept in: each *)
(* wrong password counts once, a right one starts the count again, the     *)
(* wallet's storage is cleared on the Max-th wrong password in a row and   *)
(* never before, unless the user clears it in the settings, and the lock,  *)
(* which outlives a restart, is lifted by a right password only.           *)
(***************************************************************************)
EXTENDS Naturals

CONSTANT Max   \* wrong passwords in a row that clear the storage, at least one

VARIABLES
  count,    \* wrong passwords since the last right one
  locked,   \* the application is locked, now and after a restart
  passed,   \* the right password has been given
  due,      \* the storage is about to be cleared
  wiped     \* why the storage has been cleared; the application will restart

policyVars == <<count, locked, passed, due, wiped>>

Init ==
  /\ count = 0
  /\ locked = FALSE
  /\ passed = FALSE
  /\ due = FALSE
  /\ wiped = "no"

Lock ==
  /\ locked' = TRUE
  /\ UNCHANGED <<count, passed, due, wiped>>

Wrong ==
  /\ ~due
  /\ count' = count + 1
  /\ due' = (count + 1 >= Max)
  /\ UNCHANGED <<locked, passed, wiped>>

Clear ==
  /\ due
  /\ due' = FALSE
  /\ wiped' = "attempts"
  /\ UNCHANGED <<count, locked, passed>>

ClearInSettings ==
  /\ wiped' = "user"
  /\ UNCHANGED <<count, locked, passed, due>>

Right ==
  /\ ~due
  /\ count' = 0
  /\ UNCHANGED <<locked, passed, due, wiped>>

\* The count is back to zero before anything is opened.
Pass ==
  /\ count = 0
  /\ ~due
  /\ passed' = TRUE
  /\ UNCHANGED <<count, locked, due, wiped>>

\* The password may be used up by this, or a little later.
Unlock ==
  /\ passed
  /\ locked' = FALSE
  /\ passed' \in BOOLEAN
  /\ UNCHANGED <<count, due, wiped>>

Forget ==
  /\ passed' = FALSE
  /\ UNCHANGED <<count, locked, due, wiped>>

\* A clearing that was due is missed if the application dies first; the count
\* and the lock are kept, so the next wrong password makes it due again.
Restart ==
  /\ IF wiped = "no"
     THEN UNCHANGED <<count, locked>>
     ELSE count' = 0 /\ locked' = FALSE
  /\ passed' = FALSE
  /\ due' = FALSE
  /\ wiped' = "no"

Next ==
  \/ Lock \/ Wrong \/ Clear \/ ClearInSettings \/ Right \/ Pass \/ Unlock \/ Forget \/ Restart

Spec == Init /\ [][Next]_policyVars
=============================================================================
