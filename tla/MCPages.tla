------------------------------- MODULE MCPages -------------------------------
(* An instance of PagesTogether for TLC: a wallet of software and one on a       *)
(* Ledger, one proposal to vote on and one that takes deposits, two handlers.    *)
EXTENDS PagesTogether, TLC

\* Which slot a handler is in makes no difference.
Symmetric == Permutations(Tasks)

\* Bound: the session starts with the wallet of software; the other one is that
\* of the Ledger, which it may be switched to.
SoftwareFirst == PagesInit /\ wallet \notin Ledgers

\* Bound: nothing is done once the assets page was pushed while it was open already,
\* which leaves its table waiting for the next visit; or once handlers older than the
\* switch have set three of the stores.
Unbroken == ~missed /\ Cardinality(late) <= 2 /\ PagesNext

MCSpec == SoftwareFirst /\ [][Unbroken]_pagesVars
=============================================================================
