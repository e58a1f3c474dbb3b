--------------------------- MODULE MCWalletSession ---------------------------
(* Three wallets, two of them of one network. *)
EXTENDS SettingsPages, TLC
CONSTANTS w1, w2, w3, h1, h2
MCOrder == <<w1, w2, w3>>
MCInitial == {{}, {w1, w3}, {w1, w2, w3}}
MCNetworkOf == (w1 :> "main") @@ (w2 :> "main") @@ (w3 :> "test")
Symmetric == Permutations(Handlers) \union Permutations(Addresses)
=============================================================================
