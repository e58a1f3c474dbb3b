------------------------------- MODULE NftPages -------------------------------
(* The page of the NFTs: the list, the NFT that is open, and its transfer.  An    *)
(* NFT is one of its chain; opening one sets the asset all pages share to the     *)
(* asset of that chain.  The minting form is part of TransactionSend.             *)
EXTENDS AppPages

\* Click on an NFT; the list is under a spinner while fetchingDBState is set.  The
\* asset is taken from the list of all assets.
OpenNft(n) ==
  /\ page = "nft" /\ NoDialog
  /\ ~fetching
  /\ view' = [view EXCEPT !.chosen = n, !.item = n, !.dialog = "detail"]
  /\ Sets({"asset"}, stores.rows, "rows" \in late)
  /\ assetChain' = n /\ opened' = TRUE
  /\ UNCHANGED <<page, task, session, spinners>>

\* The dialogs: the NFT, the recipient (and the password), what will be sent.
Turns(from, to) ==
  /\ page = "nft" /\ view.dialog = from
  /\ view' = [view EXCEPT !.dialog = to]
  /\ UNCHANGED <<page, task, session, assets, spinners>>

CloseNft == Turns("detail", "none")

\* The button under the details: those of a Crypto.org NFT, those of a CRC-721 token.
AskTransfer == view.item = "cro" /\ Turns("detail", "ask")
AskTokenTransfer == view.item = "evm" /\ Turns("detail", "ask")

BackToRecipient == Turns("confirm", "ask")

\* The cross of the dialog, which works while the transfer is being sent too.
BackToNft == Turns("ask", "detail") \/ Turns("confirm", "detail")

(* mutant: the values to send are filled in once *)
FillInOnce ==
  /\ page = "nft" /\ view.dialog = "ask"
  /\ view' = [view EXCEPT !.dialog = "confirm",
                          !.filled = IF view.filled = Nothing THEN view.item ELSE view.filled]
  /\ UNCHANGED <<page, task, session, assets, spinners>>

\* showConfirmationModal copies the NFT into the values to send.
FillIn ==
  /\ page = "nft" /\ view.dialog = "ask"
  /\ view' = [view EXCEPT !.dialog = "confirm", !.filled = view.item]
  /\ UNCHANGED <<page, task, session, assets, spinners>>

ConfirmTransfer ==
  /\ page = "nft" /\ view.dialog = "confirm" /\ ~view.busy
  /\ view' = [view EXCEPT !.busy = TRUE]
  /\ Starts({Keeps("nft", view.filled, wallet)})
  /\ UNCHANGED <<page, session, assets, spinners>>

\* All dialogs close; the list and the asset are those of the wallet that sent.
NftSent(t) ==
  /\ Active(t, "nft") /\ Ends(t)
  /\ view' = IF task[t].here THEN [view EXCEPT !.busy = FALSE, !.dialog = "none"] ELSE view
  /\ SetsDefault({"nfts"}, task[t].wallet, task[t].old)
  /\ UNCHANGED <<page, session, spinners>>

\* Which dialogs an error leaves: the NFT and the password are closed, under which the
\* recipient is hidden already; on a Ledger no password is asked for.
LeftOpen(dialog) ==
  CASE dialog = "detail" -> {"none"}
    [] dialog = "ask" -> IF Ledger THEN {"ask"} ELSE {"ask", "none"}
    [] OTHER -> {dialog}

NftFails(t) ==
  /\ Active(t, "nft") /\ Ends(t)
  /\ \E dialog \in LeftOpen(view.dialog):
       view' = IF task[t].here THEN [view EXCEPT !.busy = FALSE, !.dialog = dialog]
               ELSE view
  /\ UNCHANGED <<page, session, assets, spinners>>

NftStep(t) == NftSent(t) \/ NftFails(t)
=============================================================================
