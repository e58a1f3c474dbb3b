----------------------------- MODULE PagesTogether -----------------------------
(* The pages and the handlers they leave behind, composed.                        *)
EXTENDS AssetsPage, ProposalPages, NftPages

Step(t) == HomeStep(t) \/ AssetsPageStep(t) \/ GovernanceStep(t) \/ NftStep(t)

PagesNext ==
  \/ \E p \in Pages \ {"lobby"}: OpenPage(p)
  \/ \E w \in Wallets: SwitchWallet(w)
  \/ SyncAll
  \/ \E c \in Chains: ChooseAsset(c) \/ OpenAsset(c) \/ OpenNft(c)
  \/ CloseAsset \/ PickTransfers
  \/ EnableAsset \/ CancelEnable \/ CreateAssets \/ ReadAddress
  \/ \E p \in Proposals: OpenProposal(p) \/ OpenVoted(p)
  \/ CloseProposal \/ AskVote \/ AskDeposit \/ AskProposal \/ Asks \/ FillDeposit
  \/ CancelGovernance \/ ConfirmGovernance
  \/ CloseNft \/ AskTransfer \/ AskTokenTransfer \/ BackToNft
  \/ FillIn \/ ConfirmTransfer \/ BackToRecipient
  \/ \E t \in Tasks: Step(t)

PagesSpec == PagesInit /\ [][PagesNext]_pagesVars

-----------------------------------------------------------------------------
(* Properties. *)

Kinds ==
  {"idle", "refresh", "balances", "sync", "nfts", "push", "transfers", "balance",
   "create", "device", "nft", "proposal"} \union Figures

PagesTypeOK ==
  /\ page \in Pages
  /\ view \in [chosen: Items \union {Nothing}, item: Items \union {Nothing}, open: BOOLEAN,
               shows: Items \union {Nothing}, dialog: {"none", "detail", "ask", "confirm"},
               mode: {"none", "adding", "vote", "deposit", "proposal"},
               filled: Chains \union {Nothing}, spin: BOOLEAN, busy: BOOLEAN,
               crossed: BOOLEAN]
  /\ task \in [Tasks -> [kind: Kinds, item: Items \union {Nothing},
                         wallet: Wallets \union {Nothing}, here: BOOLEAN, old: BOOLEAN]]
  /\ wallet \in Wallets /\ unused \subseteq Wallets
  /\ voting \subseteq Items \union {Nothing}
  /\ stores \in [Stores -> Wallets] /\ assetChain \in Chains
  /\ late \subseteq Stores
  /\ {fetching, loading, opened, missed} \subseteq BOOLEAN

\* What the user has opened is what is shown, and the transfers and the figures
\* shown with it, once the spinner stops, are its own: whatever was opened before
\* and closed again.  Only when something else was still being read at that moment
\* may its late answer take the place of what the user has opened; and a proposal
\* of the voting history comes without figures.
ShownIsChosen ==
  view.open /\ ~view.crossed =>
    /\ view.item = view.chosen
    /\ page = "assets" /\ ~loading => view.shows = view.item
    /\ page = "governance" /\ ~view.spin => view.shows = view.item

\* The stores hold data of the wallet of the session, whatever pages are left and
\* wallets switched: unless a handler older than the switch has set them after it,
\* or they were set from a store one has set.
StoresFollowTheWallet == \A s \in Stores: stores[s] = wallet \/ s \in late

\* A vote, a deposit and the transfer of an NFT are for the item the
\* user has opened, unless an answer for another one has come in between.
Sends == {"vote", "deposit", "proposal", "nft"}
Sending(t) == task[t] = Idle /\ task'[t].kind \in Sends

\* Votes, deposits and proposals use the CRO asset of the wallet of the session
\* unless an NFT has been opened since it was read, and the transfer of an NFT the
\* asset of its chain unless it was read again since the NFT was opened.
ActsOnTheChosen ==
  [][\A t \in Tasks: Sending(t) =>
       /\ task'[t].kind # "proposal" => task'[t].item = view.chosen \/ view.crossed
       /\ stores.asset = wallet \/ "asset" \in late
       /\ task'[t].kind \in {"vote", "deposit", "proposal"} => assetChain = "cro" \/ opened
       /\ task'[t].kind = "nft" => assetChain = task'[t].item \/ ~opened]_pagesVars

\* What shows that something is going on has a handler that will end it: the
\* state that the database is read, unless the assets page was told of an asset
\* when it was open already; the spinners of the transfers, which all visits of
\* the page share, and of the home page; the buttons that send.  Each spinner has
\* several handlers that set it, and any of them may be the last.
SpinnersAreServed ==
  LET Going(kinds) == \E t \in Tasks: task[t].kind \in kinds
      GoingHere(kinds) == \E t \in Tasks: task[t].kind \in kinds /\ task[t].here
  IN  /\ fetching => missed \/ Going({"sync", "nfts", "push", "create"})
      /\ loading => Going({"transfers"})
      /\ page = "home" /\ view.spin => GoingHere({"refresh", "balances"})
      /\ view.busy => GoingHere(Sends \union {"voted"})

=============================================================================
