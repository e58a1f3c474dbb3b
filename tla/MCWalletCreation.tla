--------------------------- MODULE MCWalletCreation ---------------------------
(* An instance of LedgerCreation for TLC: two handlers at once, two wallets; two *)
(* chains, one of them with EVM addresses, and two requests for addresses.     *)
EXTENDS LedgerCreation
=============================================================================
