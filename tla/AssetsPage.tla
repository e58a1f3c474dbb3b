------------------------------ MODULE AssetsPage ------------------------------
(* The page of the assets: the table, the asset that is open with its transfers, *)
(* which are read from the network each time, its form to send, and the button   *)
(* that adds an asset the wallet does not have yet.                              *)
EXTENDS AppPages

\* Reading the transfers of an asset, or its balance, goes on for another one or
\* for a page that is gone: the spinner of the transfers is one for all.
Crossing(item) ==
  \E t \in Tasks: /\ task[t].kind \in {"transfers", "balance"}
                  /\ task[t].item # item \/ ~task[t].here

Transfers(c) == New("transfers", c)
Balance(c) == Keeps("balance", c, wallet)

(* mutant: the click does not make the asset the current one *)
ShownBefore(v, c) ==
  [v EXCEPT !.chosen = c, !.open = TRUE, !.crossed = Crossing(c)]

\* An asset is opened: its transfers are asked for, those shown before stay under
\* the spinner.
Shown(v, c) ==
  [v EXCEPT !.chosen = c, !.item = c, !.open = TRUE, !.crossed = Crossing(c)]

\* history.push of the home page: the assets page is mounted, reads what it was
\* opened for and resets fetchingDBState; not so when it was open already.
Arrive(t) ==
  /\ Active(t, "push")
  /\ IF page = "assets"
     THEN /\ Ends(t)
          /\ missed' = TRUE
          /\ UNCHANGED <<page, view, fetching, loading>>
     ELSE /\ page' = "assets"
          /\ view' = Shown(FreshView, task[t].item)
          /\ task' = [Gone(task) EXCEPT ![t] = Transfers(task[t].item)]
          /\ fetching' = FALSE /\ loading' = TRUE /\ missed' = FALSE
  /\ UNCHANGED <<session, assets>>

\* Click on a row of the table.
OpenAsset(c) ==
  /\ page = "assets" /\ ~view.open /\ NoDialog
  /\ view' = Shown(view, c)
  /\ StoresSession
  /\ loading' = TRUE
  /\ Starts({Transfers(c)})
  /\ UNCHANGED <<page, session, fetching, missed>>

CloseAsset ==
  /\ page = "assets" /\ view.open
  /\ view' = [view EXCEPT !.open = FALSE, !.chosen = Nothing, !.crossed = FALSE]
  /\ UNCHANGED <<page, task, session, assets, spinners>>

\* The tab of the transfers: they and the balance are read again.
PickTransfers ==
  /\ page = "assets" /\ view.open
  /\ loading' = TRUE
  /\ Starts({Transfers(view.item), Balance(view.item)})
  /\ UNCHANGED <<page, view, session, assets, fetching, missed>>

\* syncTransactions: an error is answered with no transfers.
TransfersCome(t) ==
  /\ Active(t, "transfers")
  /\ view' = IF task[t].here THEN [view EXCEPT !.shows = task[t].item] ELSE view
  /\ loading' = FALSE
  /\ Ends(t)
  /\ UNCHANGED <<page, session, assets, fetching, missed>>

\* syncAssetBalance: the assets of the wallet are read, and the one that was open
\* is the current one again.
BalanceComes(t) ==
  /\ Active(t, "balance")
  /\ Sets({"rows"}, task[t].wallet, task[t].old)
  /\ view' = IF task[t].here THEN [view EXCEPT !.item = task[t].item] ELSE view
  /\ Ends(t)
  /\ UNCHANGED <<page, session, assetChain, opened, spinners>>

\* An asset the wallet does not have is asked for: the password, or the Ledger.
EnableAsset ==
  /\ page = "assets" /\ ~view.open /\ NoDialog
  /\ view' = [view EXCEPT !.mode = IF Ledger THEN "adding" ELSE view.mode,
                          !.dialog = IF Ledger THEN "none" ELSE "ask"]
  /\ UNCHANGED <<page, task, session, assets, spinners>>

CancelEnable ==
  /\ page = "assets" /\ ~NoDialog
  /\ view' = [view EXCEPT !.dialog = "none"]
  /\ UNCHANGED <<page, task, session, assets, spinners>>

\* onWalletDecryptFinishCreateFreshAssets.
CreateAssets ==
  /\ page = "assets" /\ ~NoDialog
  /\ view' = [view EXCEPT !.dialog = "none"]
  /\ fetching' = TRUE
  /\ Starts({Keeps("create", Nothing, wallet)})
  /\ UNCHANGED <<page, session, assets, loading, missed>>

\* The migration, if one is needed, stores the session it was called with.
AssetsCreated(t) ==
  /\ Active(t, "create")
  /\ \E names \in {{"rows"}, {"rows", "session"}}: Sets(names, task[t].wallet, task[t].old)
  /\ Fetches(FALSE, [task EXCEPT ![t] = Idle], {})
  /\ UNCHANGED <<page, session, assetChain, opened, loading>>

\* Another app of the Ledger is connected while an asset is waited for: its
\* address is read (addMissingLedgerAsset).
ReadAddress ==
  /\ page = "assets" /\ view.mode = "adding"
  /\ Starts({Keeps("device", Nothing, wallet)})
  /\ UNCHANGED <<page, view, session, assets, spinners>>

\* getLedgerAddress answers or fails; the answer adds the asset.
AddressComes(t) ==
  /\ Active(t, "device") /\ Ends(t)
  /\ \/ /\ Sets({"rows"}, task[t].wallet, task[t].old)
        /\ view' = IF task[t].here THEN [view EXCEPT !.mode = "none"] ELSE view
     \/ UNCHANGED <<stores, late, view>>
  /\ UNCHANGED <<page, session, assetChain, opened, spinners>>

AssetsPageStep(t) ==
  \/ Arrive(t) \/ TransfersCome(t) \/ BalanceComes(t)
  \/ AssetsCreated(t) \/ AddressComes(t)
=============================================================================
