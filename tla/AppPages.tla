------------------------------- MODULE AppPages -------------------------------
(* What the pages of the desktop wallet share: the stores of the application     *)
(* (recoil atoms and the stored session), and the handlers that are still under  *)
(* way when their page is gone.  One page is open at a time; its React state is   *)
(* lost when it is left.  A handler goes on: what it sets on a page that is gone  *)
(* is ignored, what it sets in the stores is not.  This module has the menu, the  *)
(* choice of the wallet and the home page; AssetsPage, ProposalPages and NftPages *)
(* are the pages that act, PagesTogether composes them.                           *)
(*                                                                                *)
(* Abstracted: an asset of a wallet is its wallet and its chain; what a handler   *)
(* awaits from the local database alone is not a step of its own.                 *)
EXTENDS Naturals, FiniteSets

CONSTANTS
  Wallets,
  Ledgers,      \* the wallets kept on a Ledger
  Proposals,
  InVoting,     \* proposals in their voting period at first; the others take deposits
  Tasks,        \* bound: handlers that can be under way at once
  Nothing

ASSUME PagesAssumption ==
  /\ Wallets # {} /\ Ledgers \subseteq Wallets
  /\ InVoting \subseteq Proposals
  /\ Nothing \notin Wallets \union Proposals \union {"cro", "evm"}
  /\ IsFiniteSet(Tasks)

VARIABLES
  page,        \* the page that is open
  view,        \* its React state
  task,        \* task[t]: a handler under way
  wallet,      \* sessionState: the wallet of the session
  stores,      \* the wallets whose data walletAssetState, walletAllAssetsState,
               \* nftListState and the stored session hold
  assetChain,  \* chain of the asset in walletAssetState
  fetching,    \* fetchingDBState
  loading,     \* fetchingComponentState
  voting,      \* proposals the list that was read has in their voting period
  unused,      \* bound: wallets the session can still be switched to
  late,        \* history: stores last set by a handler older than the switch
  opened,      \* history: walletAssetState was last set by opening an NFT
  missed       \* history: fetchingDBState is left set by a push to the assets page
               \* when it was open already

session == <<wallet, voting, unused>>
spinners == <<fetching, loading, missed>>
assets == <<stores, late, assetChain, opened>>
pagesVars == <<page, view, task, session, assets, spinners>>

Pages == {"lobby", "home", "wallets", "assets", "governance", "nft"}
Chains == {"cro", "evm"}
Stores == {"asset", "rows", "nfts", "session"}
Items == Chains \union Proposals

Idle == [kind |-> "idle", item |-> Nothing, wallet |-> Nothing, here |-> FALSE, old |-> FALSE]

\* The state of a page when it is opened.  chosen and crossed are history: what
\* the user has opened last, and whether something else was then still loading.
FreshView ==
  [chosen |-> Nothing, item |-> Nothing, open |-> FALSE, shows |-> Nothing,
   dialog |-> "none", mode |-> "none", filled |-> Nothing, spin |-> FALSE,
   busy |-> FALSE, crossed |-> FALSE]

PagesInit ==
  /\ page = "lobby"
  /\ view = FreshView
  /\ task = [t \in Tasks |-> Idle]
  /\ wallet \in Wallets
  /\ stores = [s \in Stores |-> wallet]
  /\ assetChain = "cro"
  /\ fetching = FALSE /\ loading = FALSE
  /\ voting = InVoting
  /\ unused = Wallets \ {wallet}
  /\ late = {} /\ opened = FALSE /\ missed = FALSE

-----------------------------------------------------------------------------
(* Handlers and stores. *)

\* A handler that keeps the wallet it was started for, and one that does not.
Keeps(kind, item, from) ==
  [kind |-> kind, item |-> item, wallet |-> from, here |-> TRUE, old |-> "session" \in late]
New(kind, item) ==
  [kind |-> kind, item |-> item, wallet |-> Nothing, here |-> TRUE, old |-> FALSE]

IdleTasks == {t \in Tasks: task[t] = Idle}

\* The tasks of `started` in slots that are idle, any of them.
Begin(started, tasks) ==
  LET free == {t \in Tasks: tasks[t] = Idle}
      slot == CHOOSE f \in [started -> free]: \A k, l \in started: f[k] = f[l] => k = l
  IN  [t \in Tasks |-> IF \E k \in started: slot[k] = t
                       THEN CHOOSE k \in started: slot[k] = t ELSE tasks[t]]

Starts(started) ==
  /\ Cardinality(IdleTasks) >= Cardinality(started)
  /\ task' = Begin(started, task)

Ends(t) == task' = [task EXCEPT ![t] = Idle]
Becomes(t, kind) ==
  task' = [task EXCEPT ![t] = [New(kind, task[t].item) EXCEPT !.here = task[t].here]]

Active(t, kind) == task[t].kind = kind

\* A page is left: React ignores what its handlers still set on it.
Gone(tasks) == [t \in Tasks |-> [tasks[t] EXCEPT !.here = FALSE]]

\* setRecoil and setCurrentSession: `names` now hold data of wallet w; `stale` says
\* that the handler that sets them is older than the last switch.
Sets(names, w, stale) ==
  /\ stores' = [s \in Stores |-> IF s \in names THEN w ELSE stores[s]]
  /\ late' = IF stale THEN late \union names ELSE late \ names

\* retrieveDefaultWalletAsset, then setWalletAsset: the CRO asset of a wallet.
DefaultChain == "cro"
SetsDefault(names, w, stale) ==
  /\ Sets(names \union {"asset"}, w, stale)
  /\ assetChain' = DefaultChain /\ opened' = FALSE

\* The rows of sender and receiver are of the wallet of the session, which the
\* click on a row, and the governance page when it is opened, store again.
StoresSession == Sets({"session"}, wallet, FALSE) /\ UNCHANGED <<assetChain, opened>>

Ledger == wallet \in Ledgers
NoDialog == view.dialog = "none"

-----------------------------------------------------------------------------
(* The menu and the wallets page.  A dialog covers the menu. *)

\* The home page reads all it shows again when it is opened and whenever
\* fetchingDBState changes.
Refresh == Keeps("refresh", Nothing, stores.session)

Enter(p) ==
  /\ page' = p
  /\ view' = [FreshView EXCEPT !.spin = (p = "home")]

OpenPage(p) ==
  /\ NoDialog /\ page # p
  /\ Enter(p)
  /\ IF p = "home"
     THEN IdleTasks # {} /\ task' = Begin({Refresh}, Gone(task))
     ELSE task' = Gone(task)
  /\ IF p = "governance" THEN StoresSession ELSE UNCHANGED assets
  /\ UNCHANGED <<session, spinners>>

(* mutant: the list of the NFTs is not read for the new wallet *)
SwitchWalletKeepsNfts(w) ==
  /\ page = "wallets" /\ w \in unused
  /\ wallet' = w /\ unused' = unused \ {w}
  /\ SetsDefault(Stores \ {"nfts"}, w, FALSE)
  /\ task' = [t \in Tasks |-> [task[t] EXCEPT !.old = (task[t].wallet # Nothing)]]
  /\ UNCHANGED <<page, view, voting, spinners>>

\* onWalletSwitch; its steps are taken apart in WalletSession.
SwitchWallet(w) ==
  /\ page = "wallets" /\ w \in unused
  /\ wallet' = w /\ unused' = unused \ {w}
  /\ SetsDefault(Stores, w, FALSE)
  /\ task' = [t \in Tasks |-> [task[t] EXCEPT !.old = (task[t].wallet # Nothing)]]
  /\ UNCHANGED <<page, view, voting, spinners>>

-----------------------------------------------------------------------------
(* The home page. *)

\* fetchingDBState is set: on the home page, a change starts another refresh.
Fetches(value, tasks, started) ==
  LET again == IF page = "home" /\ fetching # value THEN {Refresh} ELSE {}
  IN  /\ Cardinality({t \in Tasks: tasks[t] = Idle}) >= Cardinality(started \union again)
      /\ fetching' = value /\ missed' = (missed /\ value)
      /\ task' = Begin(started \union again, tasks)
      /\ view' = IF again = {} THEN view ELSE [view EXCEPT !.spin = TRUE]

\* syncAssetData has read the local database: the stores hold its wallet.
RefreshShows(t) ==
  /\ Active(t, "refresh")
  /\ SetsDefault({"rows", "nfts"}, task[t].wallet, task[t].old)
  /\ Becomes(t, "balances")
  /\ UNCHANGED <<page, view, session, spinners>>

\* syncBalancesData, which catches its errors, and the prices.
RefreshEnds(t) ==
  /\ Active(t, "balances")
  /\ view' = IF task[t].here THEN [view EXCEPT !.spin = FALSE] ELSE view
  /\ Ends(t)
  /\ UNCHANGED <<page, session, assets, spinners>>

\* onSyncAndRefreshBtnCall.
SyncAll ==
  /\ page = "home"
  /\ Fetches(TRUE, task, {New("sync", Nothing)})
  /\ UNCHANGED <<page, session, assets, loading>>

\* syncAll has ended; the stored session is read after it.
SyncShows(t) ==
  /\ Active(t, "sync")
  /\ Sets({"rows"}, stores.session, "session" \in late)
  /\ Becomes(t, "nfts")
  /\ UNCHANGED <<page, view, session, assetChain, opened, spinners>>

SyncEnds(t) ==
  /\ Active(t, "nfts")
  /\ Fetches(FALSE, [task EXCEPT ![t] = Idle], {})
  /\ UNCHANGED <<page, session, assets, loading>>

\* A row of the table of assets: fetchingDBState is set until the assets page,
\* which is opened when the session is stored, resets it.
ChooseAsset(c) ==
  /\ page = "home"
  /\ Fetches(TRUE, task, {New("push", c)})
  /\ StoresSession
  /\ UNCHANGED <<page, session, loading>>

HomeStep(t) == RefreshShows(t) \/ RefreshEnds(t) \/ SyncShows(t) \/ SyncEnds(t)
=============================================================================
