-------------------------- MODULE MCTransactionSend --------------------------
(* An instance of TransactionSend for TLC: a wallet with a phrase, one on a Ledger. *)
EXTENDS TransactionSend, TLC

CONSTANTS w1, w2
=============================================================================
