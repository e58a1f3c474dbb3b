---------------------------- MODULE LedgerCreation ----------------------------
(* The page that creates a wallet together with the fields of a Ledger wallet    *)
(* and the table of its addresses: WalletCreation and LedgerTable share the page *)
(* and its form.                                                                 *)
EXTENDS WalletCreation, LedgerTable

allVars == <<walletVars, tableVars>>

\* Bound: a user who fills in the fields of the Ledger does it first, on the first
\* visit, and builds no wallet then: the creation reads no more of them than the
\* standard and the index.
Untouched ==
  /\ looks = 0 /\ jobs = {}
  /\ ~dialog /\ field = FreshField

Early == visits <= 1 /\ page.config = Nothing /\ Created = 0 /\ Unused = Tasks

FieldsShown ==
  place = "create" /\ FormShown /\ Free /\ page.name /\ page.kind = "ledger"

FormLeft == Back /\ RemountForm(FALSE)
FormReplaced == ChooseCustom /\ RemountForm(TRUE)
BoxTicked ==
  /\ TickLedger
  /\ IF page'.kind = "ledger" THEN ResetStandard ELSE UNCHANGED tableVars

Building ==
  \/ Submit \/ ConnectCro \/ ConnectEth \/ CloseDialog \/ CloseEth
  \/ Confirm \/ BackToCreate \/ AskPassword \/ CancelPassword
  \/ StoreWallet \/ Restore
  \/ \E t \in Tasks: TaskStep(t)

Filling ==
  \/ \E p \in {"create", "restore"}: Open(p)
  \/ TypeName \/ ChooseListed
  \/ AskNode \/ NodeAnswers \/ CloseNode \/ Continue \/ RestoreNode

CreationInit == WalletInit /\ TableInit

CreationNext ==
  \/ ~dialog /\ (FormLeft \/ FormReplaced \/ BoxTicked)
  \/ Untouched /\ Building /\ UNCHANGED tableVars
  \/ Untouched /\ Filling /\ UNCHANGED tableVars
  \/ /\ Early
     /\ TableAnswers \/ (FieldsShown /\ TableClicks)
     /\ Cardinality(jobs') <= MaxJobs
     /\ UNCHANGED walletVars

CreationSpec ==
  /\ CreationInit /\ [][CreationNext]_allVars
  /\ \A t \in Tasks: WF_allVars(TaskStep(t) /\ UNCHANGED tableVars)

=============================================================================
