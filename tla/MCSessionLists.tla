--------------------------- MODULE MCSessionLists ---------------------------
(* Instances of SessionLists for TLC. *)
EXTENDS SessionLists, TLC

CONSTANTS w1, w2, main, test, r1, r2, l1, l2

\* A wallet of the main network and one of a test network.
TwoNetworks == w1 :> main @@ w2 :> test

\* Different jobs work on different stores, so it is enough to look at one job at
\* a time.
OneJob ==
  \E j \in Jobs :
    /\ \A r \in Runs : job[r] \in {"none", j}
    /\ \A b \in stored : \E n \in DOMAIN PartsOf(j) : b.part = PartsOf(j)[n]

Symmetry == Permutations(Runs)
=============================================================================
