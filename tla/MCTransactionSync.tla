-------------------------- MODULE MCTransactionSync --------------------------
(* An instance of TransactionSync for TLC. *)
EXTENDS TransactionSync, TLC
CONSTANTS w1, w2, r1, r2, i1, i2

\* Two records of one transaction: the hash names a transaction, not a record.
OneTransaction == [i \in Items |-> "tx"]
=============================================================================
