------------------------------ MODULE MCAppLock -------------------------------
(* AppLock for TLC. *)
EXTENDS AppLock, TLC

Symmetry == Permutations(Handlers)
=============================================================================
