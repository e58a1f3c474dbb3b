--------------------------- MODULE SettingsPages ---------------------------
(***************************************************************************)
(* The wallets and their settings, the address book and the approvals: parts *)
(* of the settings page that share nothing but the wallet selected.          *)
(***************************************************************************)
EXTENDS WalletSession, AddressBook, Revocation

bookUntouched == visit = 0
approvalsUntouched == lastRead = 0
sessionUntouched ==
  /\ clicks = 0 /\ crashes = 0 /\ home = "away"
  /\ Stored = Wallets /\ sessionStore.wallet = Order[1]

SettingsInit == Init /\ BookInit /\ RevokeInit

(* Bound: one of them at a time, and the address book and the approvals of one wallet. *)
SettingsNext ==
  \/ bookUntouched /\ approvalsUntouched /\ Next /\ UNCHANGED <<bookVars, revokeVars>>
  \/ sessionUntouched /\ approvalsUntouched /\ BookNext /\ UNCHANGED <<vars, revokeVars>>
  \/ sessionUntouched /\ bookUntouched /\ RevokeNext /\ UNCHANGED <<vars, bookVars>>

SettingsSpec == SettingsInit /\ [][SettingsNext]_<<vars, bookVars, revokeVars>>

=============================================================================
