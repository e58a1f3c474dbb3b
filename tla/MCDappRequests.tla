--------------------------- MODULE MCDappRequests ---------------------------
(* One chain listed from the start and one that pages add; two connections. *)
EXTENDS WalletConnect, TLC
CONSTANTS r1, r2, r3, cronos, other, q1, q2, c1, c2
Symmetric == Permutations(Requests) \union Permutations(Calls) \union Permutations(Connections)
=============================================================================
