# Crypto.com DeFi Desktop Wallet: specifications, checks and proofs

This directory holds TLA+ modules for the parts of `chain-desktop-wallet` whose
correctness depends on the order in which things happen: sending transactions, the
bridge, the background synchronization and the stores it writes, the lock screen,
the wallets and their settings, their creation, the requests of web pages, and the
pages that share stores and are left with handlers still under way. TLC checks the
modules on small instances; the theorems of the eight modules named `...Proofs` are
proved with TLAPS for every instance (section 6).

Paths in this file are relative to `src/` of the repository, unless they name a
module.

## 1. The system

The wallet is an Electron application. One renderer process runs everything that
matters here: React pages, the services under `src/service`, and NeDB stores
(`nedb-promises`) that are files loaded into memory. There is one JavaScript
thread, so a piece of code between two `await`s is atomic, and **every hard
behaviour comes from what happens between two of them**: a timer starts the next
sync, the user clicks or opens another page, another save is served first, the
application is closed.

Nothing in the services takes a lock, and no operation on the stores is a
transaction. A NeDB store executes its operations one at a time in the order in
which they were called.

### Components

| Component | State | Operations | Correct if | Modules |
|---|---|---|---|---|
| Transaction sync (`TransactionHistoryService`, `StorageService`) | records in `commonTransactionStore`, totals in `commonAttributeStore` | fetch delegations, rewards, NFT transactions; replace the stored list; update totals | the newest answer is stored, whole and once, under the wallet it is about; errors erase nothing | `TransactionSync`, `WalletRecordsProofs` |
| Chain lists | `validatorStore`, `proposalStore`, `unbondingDelegationStore`, `nftStore` | fetch and replace a list as a whole | the latest list is there, under the chain or wallet it was asked for | `SessionLists`, `SessionListsProofs` |
| Application lock, general configuration (`GeneralConfigService`, `layouts/home/home.tsx`, `PasswordFormModal`) | the document of `generalConfigStore`, the lock screen | lock, unlock, count wrong passwords, clear the storage, language, announcement | the storage is cleared after the allowed number of wrong passwords, or when the user says so, and not before | `AppLock`, `LockPolicy`, `AppLockProofs` |
| Wallet assets and balances | `assetStore` | refresh balances and tokens, settings and gas, migration, the check of the explorers | one record per asset, with the settings saved last and the balance read last | `WalletAssets`, `AssetPagesProofs` |
| Wallets, session, settings (`WalletService`, `StorageService`) | `walletStore`, `sessionStore`, `seedStore` | create, import, delete, switch, edit, propagate | the session names a wallet that exists, settings reach the wallets they were made for, the wallet shown is the one deleted or selected | `WalletSession`, `SettingsPages`, `SettingsPagesProofs` |
| Address book (`AddressBookService`, `AddressBook.tsx`, `AddressBookInput.tsx`) | `addressBookStore`, the field of the form | add, edit, remove, look up, add with a payment | a contact is there once; the payment goes to the address shown | `AddressBook`, `SettingsPagesProofs` |
| Revocation of approvals (`RevokePermission`) | the events read, the table, the dialogs | read, load, revoke | what is revoked is what was clicked | `Revocation`, `SettingsPagesProofs` |
| Creating, backing up, restoring a wallet (`pages/create`, `backup`, `restore`) | the forms, the temporary wallet, the table of a Ledger's addresses | fill in, check the Ledger, create, show the phrase, store | what is stored is what the user was told of; the address picked is the one used | `WalletCreation`, `LedgerTable`, `LedgerCreation`, `WalletRecordsProofs` |
| Transaction sending (`TransactionSenderService`, `TransactionPrepareService`, the forms) | the dialog; the sequence numbers and the pool of the chain | confirm, prepare, sign, broadcast, poll, refresh | one confirmation pays once, from the wallet it was confirmed for, and its result is told as it was | `SendFlows`, `TransactionSend`, `TransactionSendProofs` |
| Signers and Ledger | the device, its address | enable, sign | what is signed is signed with the wallet's key | `TransactionSend`, `LedgerTable` (the bytes are not modelled) |
| Bridge (`BridgeService`, `pages/bridge`) | the form, the stored configurations, the lock of the page | fill in, confirm, send, look for the other end, go back | what is sent is what was shown, once; the list ends with one outcome | `BridgeForm`, `BridgeTransfer`, `BridgeTransferProofs` |
| DApp browser (`DappBrowser.tsx`, `useIPCProvider.ts`, `useChainConfigs.ts`) | one request shown, its callbacks, the dialogs, the chains | request, password, confirm, reject, answer; chains | a request is carried out and answered once, one that was cancelled never | `DappRequests`, `WalletConnectProofs` |
| WalletConnect (`useWalletConnect.ts`, `WalletConnectModal`) | state of the connection, list of requests | connect, approve, reject, request, end, restore | a live session is shown; no request is lost or answered twice | `WalletConnect`, `WalletConnectProofs` |
| Pages of home, the assets, the proposals, the NFTs | what a page shows, the shared atoms | open, leave, refresh, choose, send | what is shown and acted on is what was opened, of the wallet selected | `AppPages`, `AssetsPage`, `ProposalPages`, `NftPages`, `PagesTogether`, `AssetPagesProofs` |
| Pure algorithms; EVM, Cronos and Tendermint clients; market prices; notifications; secret store; analytics; Electron main process; rendering | see `PROJECT.json` | | | not modelled, section 7 |

### How they interact

* `BackgroundJob` calls `WalletService.syncAll` every 30 seconds, whether or not
  the previous call has ended. The refresh buttons, a wallet switch, the settings
  form, a deletion and the end of every transaction start the same refreshes.
* A refresh reads the session once, mostly. `fetchCurrentValidators`,
  `fetchCurrentProposals`, the NFT loaders and `prepareTransaction` read it a second
  time.
* The settings forms and `fetchAndUpdateBalances` write whole asset records to
  the same store; the lock screen, the language selector and the announcement
  write the whole configuration document.
* Pages hold copies of what they have loaded (Recoil atoms) and save these copies;
  their handlers go on when the page is gone.
* A form hands a confirmed transaction to `TransactionSenderService`, which signs it
  with the phrase or asks the Ledger, broadcasts it, waits for a block (Cosmos) or
  not (EVM), and refreshes the lists it thinks have changed.
* A web page in the browser sends requests by IPC, a WalletConnect client over a
  socket, whenever they like. Both use the chains of `useChainConfigs`.

### What is hard

Overlapping refreshes; read, await, write back; a second read of the session that
gives another wallet; one failing request of several; lists replaced by "remove"
then "insert" with the application closed in between; a time-out of a broadcast that
has gone through; late answers for what was open before; handlers of a form that is
gone. The hazards are listed one by one, with their lines and the properties that are
about them, in `PROJECT.json`; where the code itself goes wrong in some order of steps,
the property is about all the others, and the hazard has a note that says which.

## 2. Conventions

* An action is the code between two awaits: it ends with a call whose result is
  waited for. Operations of a NeDB store are atomic and served in the order of the
  calls; saves that are queued in one go (a `map` of `async` functions) are one
  action. In the modules of forms and pages an await of the local database alone is
  not a step of its own, since nothing else happens there in practice; the modules
  of the stores (`WalletSession`, `AppLock`, `AddressBook`, ...) take these apart.
* A handler has a `pc` per instance; `Runs`, `Handlers` or `Tasks` is the set of
  instances that may be in flight together, which the code does not limit.
* A request to the network is one action that chooses among the answers the code
  tells apart, failures included. Values are abstract; what is kept of a list is
  which items it has, of a record which save has written it.
* `Crash` or `Restart` ends all handlers and keeps what the stores hold: NeDB appends
  an operation to its file before it calls back.
* History variables (named so in the declarations) are only read by properties, and
  by guards that are marked as bounds.
* An operator marked `mutant` is what a plausible bug would make of the definition
  that follows it. No specification uses it: replaced in turn, each shows that one
  property does depend on the code.
* `TypeOK` documents the variables. The runs do not spend a check on it, as every
  other property fails or errs when a variable leaves its type; for `TransactionSync`
  it is proved, and the other proofs begin with the types they need.
* Values that stand for "none" are assumed to differ from what they are told apart
  from (`ConstantsAssumption`, `SessionAssumption`, `NothingAssumption`): in the code they
  are `null`, `undefined` or a missing document.

## 3. The modules

### TransactionSync

`fetchAndUpdateTransactions` and the saves it ends in. `StartRun` captures the
session; one pipeline per kind of record goes through `fetching`, `remove`
(`RemovePrevious`), `dedupe` (`RemoveSameHash`, the per-hash removal in
`insertCommonTransactionRecords`), `insert` and `attributes`
(`updateCommonAttributeByCorrelator`). `Lists` says which lists a pipeline goes on
with after each outcome: code 5 of the node ends the delegations where it is met,
any other error fails the pipeline; rewards and NFT transactions take an HTTP error
for an empty list. `Duplicates` is a set of possible results, as several documents
may share a hash and NeDB removes any one of them. `FairSpec` asks for weak fairness
of the steps of a started run.

### SessionLists

The lists replaced as a whole: validators and proposals under a chain,
unbonding delegations and NFTs under a wallet. `ReadSession` is the second reading
of the session. `Answers` are the lists and failures of each fetch, with the empty
list that a network without a node gives for native NFTs and `null` that leaves the
stored list alone. `RemovePart`, `RemovePartAgain` and `InsertPart` are the awaited
calls of the saves.

### AppLock and LockPolicy

`AppLock` models the configuration document with the fields that matter (`Missing`
and `NaN` are values: `undefined + 1` is never an attempt count), the start of the
home page, and the handlers. A setter is `ReadConfig` then `WriteConfig`, whose
document is the one read with one field changed. `CheckPassword`, `ResetAttempts`,
`CountMiss`, `DeleteDatabase` and `Answer` are `onValidatePassword` and the form.
`AskToClear`, `TickClear`, `ConfirmClear` and `ClearStorage` are the dialog with which
the user clears the storage himself (`wiped` says whose decision it was). Timers (two
seconds for the lock screen, 200 ms for the form) may fire at any time. `deleteDatabase`
is assumed to succeed, and writes between it and the restart to have no effect.

`LockPolicy` is what the screen promises, without the document. `KeepsPolicy` is
the refinement: the count is the document's, `due` is "a handler is about to read a
counter that has reached the limit". It speaks of behaviours in which handlers do not
overlap: from the first overlap on, the mapped variables are constant.

### WalletAssets

The asset records of one wallet. A refresh reads all records, handles the tokens
(remove, fetch, save), asks for each balance and writes each whole record back with
its new balance. The forms save the page's copy (`LoadAssets`, `SaveSettings`); the
migration removes all records and three seconds later creates new ones with new
identifiers; `SaveDefaults` is the check of the explorers at the start, which saves
the records that name an explorer out of use. Identifiers are pairs of an asset and the
number of its creation.

### WalletSession, AddressBook, Revocation, SettingsPages

`WalletSession` has the wallets with their settings, the stored session, the stored
phrases, and what the pages hold: `page` (Recoil's `sessionState`), `walletList`
(`walletListState`) and the deletion dialog. A session is a copy of a whole wallet
record, and so is each row of the list, so one setting has up to four places; the
operations differ in which of them they update, and in what order:

* `CreateWallet`, `PersistPhrase`, `SetNewSession`: the wallet, its phrase, the session
  (`encryptWalletAndSetSession`).
* `OpenDialog`, `TickDeletion`, `ConfirmDeletion`, `SubmitDelete`, then `DeleteList`,
  `SelectFirst`, `Reload`, `DeleteShow`: the wallet of the pages' session is removed,
  the first wallet left is selected. The phrase stays.
* `Switch`, `Reload`, `SwitchShow`: the session stored is the row of the list whose
  number is the key of the row clicked; the pages show what the store returns.
* `Toggle` and `ToggleWrite` (default memo, analytics), `EditNode` with `EditForAll` or
  `EditSession` and `EditWrite`, `Propagate`: each followed by `FindUpdated` and either
  `StoreSession` and `ShowSession` or `ShowAndStore`, `ReadList` and `ShowList`.
* `SelectAsset`, `SwitchCurrency` and `MigratedSession` store the session of the pages,
  the last one some seconds after the click.
* `MountHome` to `MountShow`: the start of the home layout, after a restart, or after a
  wallet was created.

`intended` is the store as it would be if every operation took effect at once when the
user asked for it. It is compared with the store when no two handlers have overlapped
(`met`); a handler ended by a crash is taken as far as it came. `cut` and `interrupted`
say what a crash has ended.

`AddressBook` keeps the calls to the database in a queue (`calls`), because NeDB serves
them in order, and runs what follows a call when it is answered, whatever page or
dialog is open by then: the validator of the dialog looks for the address and the
dialog saves (`Checked`, `SaveNew`, `SaveEdited`; `CheckLost` is a check whose field
has changed, which antd drops), each key in the sending form looks one up (`LookedUp`),
and a payment looks for, counts and inserts its contact (`Find`, `Count`, `AutoAdd`).
The dialog of a contact opens with the row of the list the page has loaded (`contacts`,
`OpenContact`), which an edit that is served late leaves behind: saving such a row again
puts an address back that is not looked up (`InItsPlace`).

`Revocation` is the tab of the approvals: each reading of the events loads the table
twice, from the events before and from the new ones; `ClickRevoke` to `ConfirmRequest`
are the password, the decryption, the question and the request with its gas; the
transaction is taken, refused or mined.

`SettingsPages` composes the three: they share the wallet and nothing else, so one of
them runs at a time.

### WalletCreation, LedgerTable, LedgerCreation

`WalletCreation` has the pages that create, back up and restore: the form, the dialogs,
the form for a custom network on either page (`AskNode`, `NodeAnswers`, `Continue`;
`RestoreNode`, which may not hold on to its configuration), and the tasks a click
leaves behind: the checks of the Ledger (`CroStep`, `EthStep`), the creation
(`DeriveStep`, `Finish`), the import and the storing. A task knows whether its form and
its page are still there (`here`, `page`): what it sets on a form that is gone is lost,
what it leaves in the store of the temporary wallet is not, and the backup page takes
what it finds there. `LedgerTable` has the fields of a Ledger wallet and the dialog
with the table of addresses, which lists of two requests and the balances of each row
arrive for; an answer keeps the chain and the standard it was asked with, and whether
another choice has been made since (`old`). `LedgerCreation` puts both on the page and says which fields the replaced
form keeps.

### SendFlows and TransactionSend

`SendFlows` describes, in one record per function, the 17 sending functions (how often
they read the session, which node they talk to, what they refresh and when), the
messages the signers make of each kind of transaction, and the 12 forms (what they do
before and after, what their dialogs offer). `TransactionSend` runs these descriptions:
`OpenPage`, `Submit`, `Decrypted`, `Click` and the other steps of the dialog; then, for
each click, `FindContact`, `AddContact`, `ReadSession`, `PrepareTransaction`,
`ReadAccount`, `ReadSigner`, `Sign`, `Accepted` or `Refused`, `Poll`, `RefreshAfter`
and `Show`, with the failures of each. The chain has the sequence number of every
account, a pool and blocks: `Include` runs or fails a transaction, `Drop` forgets one.
A Ledger signs with the key at its address, whichever wallet the session names.

### BridgeForm and BridgeTransfer

`BridgeForm` is the form: the two chains, the direction, the assets and the address are
set by different callbacks (`Fill` is one of them), some on the form and some on the
page, and the confirmation shows one part from each. `BridgeTransfer` is what follows:
`Prepare` (the page goes to the confirmation; what it awaits is local), `Confirm`,
`Sending` (configuration, signature, broadcast, polling, rows of the list), a timer
(`Tick`) that asks for the other end and whose answers come in any order (`Found`,
`NotFound`, `GivesUp`), `Back`, `Leave`, `History`, and the lock of the page. `SaveConfig`
and `LoadConfig` are the stored configurations.

### DappRequests and WalletConnect

`at[r]` says where a request of a page is: `filling` (the price of gas is asked for),
`parsing` (a token's contract is), `waiting` in the slot, `running` after "Confirm", or
over. `HandOver` is the body the five `onRequest...` callbacks share: it takes the slot
(`txEvent`, `callback`) from whatever request was there and opens the password dialog,
or the confirmation when the phrase is known already or the wallet is a Ledger's.
`Continue` and `Decrypted` are the click and the end of `decryptPhrase`; between them
the dialog can be cancelled or clicked again. `Confirm` calls the callback and keeps
it, `CancelPassword` gives it up, `Cancel` keeps it and clears the request.
`AskAddChain` and `AskSwitchChain` have dialogs of their own (`addModal`,
`switchModal`), which ignore a request while they show another one; `ApproveAdd` opens
the dialog for switching. `ExitBrowser` unmounts the browser, `SelectChain` is the
selection in the address bar, `RemoveChain` and `RenumberChain` the tab of the chains.
`alone`, `overtaken` and `twice` record overlaps: no other request open at the same
time, a chain selected by the user while a transaction was filled in, and two
decryptions at once.

`WalletConnect` extends it, since both use the same chains. `app` is the state of the
connection, `link` what has become of each session at the other side. `OpenUrl` is a
link opened in the system, `SessionRequest`, `ApproveSession`, `RejectSession`,
`KillSession`, `DappLeaves` and `Restart` with `Restored` the rest of a session's life.
`CallRequest` to `CancelCall` are the requests: a handler that awaits something
(`FillIn`, `Approved`) writes back the list it has seen before (`WriteBack`).

### AppPages, AssetsPage, ProposalPages, NftPages, PagesTogether

`AppPages` has the menu, the choice of the wallet, the home page and what the pages
share: for every store (the active asset, the rows of the tables, the NFTs, the
session) the wallet its data is of, the state that the database is being read
(`fetching`) and the spinner of the transfers (`loading`). A handler (`task`) knows
whether its page is still there and whether it is older than the last switch.
`AssetsPage` is the table and the asset that is open, with its transfers;
`ProposalPages` the list, a proposal with its figures, and the dialogs of votes,
deposits and proposals, where a deposit may bring a proposal into its voting period
(`voting`); `NftPages` the list, an NFT and the dialogs of its transfer.
`PagesTogether` composes them. What the confirmed forms send is `TransactionSend`'s.

## 4. Runs

| Run | Module, configuration | Shows |
|---|---|---|
| `sync_overlap` | `MCTransactionSync`, `SyncOverlap.cfg` | two overlapping runs save the delegations of one of two wallets, with a crash and every failure: the list saved last survives, an undisturbed save is exact, errors erase nothing, and every run ends (`RunEnds`, under `FairSpec`) |
| `session_lists` | `MCSessionLists`, `SessionLists.cfg` | two overlapping refreshes, a wallet switch, a crash: the list inserted last survives and is filed where it belongs, an undisturbed refresh is exact |
| `lock` | `MCAppLock`, `AppLock.cfg` | two handlers, a restart: however they overlap, nothing is cleared before the allowed number of wrong passwords, and the counter stays a number; where they do not, `AppLock` implements `LockPolicy` |
| `asset_refresh` | `MCWalletAssets`, `AssetRefresh.cfg` | two refreshes, an edit, a migration, the check of the explorers, a change on chain and a crash: no record of an older creation comes back, settings saved while no refresh runs survive, an undisturbed refresh is exact |
| `session_pages` | `MCWalletSession`, `SessionPages.cfg` | two handlers, three wallets of two networks, a crash: phrases stay with their wallets and no setting reaches another network (in every interleaving); for handlers that do not overlap, the store is what the user asked for; the dialog deletes the wallet it shows. A contact is in the book once and a payment goes where its field says; the approval revoked is the one clicked |
| `session_search` | `SessionSearch.cfg` | **violated**: after a search "Select" selects another wallet than that of its row |
| `dapp_requests` | `MCDappRequests`, `DappRequests.cfg` | three requests of a page in any order, all dialogs, two chains, and two requests of two WalletConnect sessions: a request is carried out and answered at most once, a cancelled one never, one that is not overlapped is always shown, and on its chain; a live session is shown; no WalletConnect request is lost or answered twice |
| `transaction_send` | `MCTransactionSend`, `TransactionSend.cfg` | every kind of transaction, four of them sent twice, from a wallet with a phrase or on a Ledger: one payment per confirmation, the result told is the true one, the payer is the wallet of the dialog, the lists show what was sent, buttons stop spinning |
| `bridge_transfer` | `MCBridgeTransfer`, `BridgeTransfer.cfg` | two confirmations on two openings of the form: what is sent is what is shown, once; the list of steps tells the truth and ends with one outcome; the page stays locked while the transfer is unfinished, and is released |
| `bridge_config` | `BridgeConfig.cfg` | **violated**: a configuration the user has saved is replaced by the defaults |
| `wallet_creation` | `MCWalletCreation`, `WalletCreation.cfg` | two wallets created, backed up or restored on two visits, with or without a Ledger: what is stored is what the user was told of, the spinner stops, the table of a Ledger's addresses offers what was chosen, the path shown is the one used |
| `pages` | `MCPages`, `Pages.cfg` | two wallets, one of them on a Ledger, two handlers: what is shown is what was opened, the stores follow the wallet, every spinner has a handler that ends it, a transaction is for the item that was opened and paid with its asset |

### What restricts the properties

Where a property is restricted, the restriction says what the code guarantees; each
of these was found as a counterexample of the stronger form.

* `LastSaveSurvives` speaks of moments at which no run is between its removal and its
  insert. `LatestListSurvives` and `QuietRefreshExact` of refreshes during which the
  user has not switched wallets: the second reading of the session misfiles a list.
* `CleanEditsSurvive` speaks of edits made while no refresh runs. A refresh that has
  read the record before undoes the edit.
* `WipedAfterAttempts` bounds the clearing from one side only: with overlapping
  handlers a wrong password may go uncounted, because any other setter that has read
  the document before writes the old count back.
* `StoreIsAsIntended` speaks of histories in which no two handlers of the wallet pages
  overlap (`Settled`): when they do, `ToggleWrite` and `EditWrite` write the whole wallet
  as they read it, with upsert, so that an edit may undo another and revive a wallet
  deleted meanwhile. Its part `NodeInForce` is about the node settings only: the
  handlers of the switches and of the propagation flag do not read the list of wallets
  again, and a wallet selected from it afterwards has the old switch in its session.
* `NoDuplicates` leaves out two look-then-write sequences under way together, and an
  edit that is not looked up and yet moves its contact: to another network, or, from a
  list older than the last edit, back to where it was. `PaysWhatItShows` waits for the
  look-ups to end.
* `RevokesTheListed` leaves out two approvals clicked during one decryption, and
  compares the table with the events only if its last load was the last to be answered.
* `CarriedOutOnce` leaves out histories in which "Continue" was clicked twice during one
  decryption: the second one opens the confirmation again after the first has been
  confirmed, and its callbacks are still there; and, for the single answer, the
  addition of a chain, which is answered when the chain is added and again when it is
  selected. That every request of a page is answered is not a property of this code: a
  request replaced in the slot, one that finds its dialog showing another, a refused
  switch, an asset to be watched, and a transaction whose data or nonce makes the
  handler throw get no answer. `WaitingIsShown` is therefore about requests that no
  other overlaps, and its part about the chain leaves out a chain selected in the
  address bar while a transaction is filled in: the confirmation
  (`RequestConfirmation.tsx`, line 67) then shows amounts in the currency of the new
  chain and the transaction goes to the old one.
* `EveryCallIsAnswered` ends when a handler has written back a list that had changed
  meanwhile (`stale`): a request that arrives while another is being signed, or while
  the transaction of another is completed, may be dropped or come back.
* `OnePaymentPerDialog` and `OnePaymentPerRequest` leave out a dialog or page that was
  told of an error although the transaction had gone through (`lost`), and the double
  click that the form for sending lets through while it saves the contact.
  `ToldTheTruth` has what an EVM node has only taken, and the form for a proposal,
  which shows any result as success. `SeenAfterSend` leaves out the lists of
  `LeftStale`, which are not refreshed, or too early.
* `BridgeTellsTheTruth` leaves out, for the single outcome only, runs that had two
  requests under way at a time. `LockedWhileUnfinished` leaves out a transfer confirmed
  again after an error, which takes no lock.
* `StoredAsAnnounced` leaves out a Ledger wallet finished by a form that was gone.
  `SpinnerStops` of that module leaves out three early returns after which the spinner
  stays. `OffersTheChosen` leaves out tables for which an answer of an earlier choice, or
  balances of an earlier list, came in between (`upset`) and first rows listed anew
  (`again`); `PathIsUsed` leaves out paths not shown again (`unsaid`).
* `ShownIsChosen`, `StoresFollowTheWallet` and `ActsOnTheChosen` leave out what a
  handler older than the last choice has set after it (`crossed`, `late`, `opened`).

### Fairness

* `TransactionSync`: weak fairness of the steps of a started run. Every request is
  answered or fails (the HTTP libraries report both), NeDB serves its queue.
* `TransactionSend`: weak fairness of `HandlerStep(h)`, for the same reason; a Ledger
  that is asked answers or times out. `Include` and `Drop` have none: polling gives up.
* `BridgeTransfer`: weak fairness of `Sending(r)`, `Tick(r)` and `Answer(r)`: requests
  are answered, and an interval that is set goes off. The chains have none.
* `WalletCreation`: weak fairness of the steps of each task.
* The user, the 30-second timer, the chains and the closing of the application have no
  fairness, and the modules without liveness properties state none.

### Bounds

Constants named `Max...` bound what could go on for ever; they occur in the guards of
the actions they bound and nowhere else. A bound on who acts when is marked "Bound" at
its definition.

* Two runs, handlers or tasks: every race met needs two, because handlers interact
  only through single documents, lists and stores; a third can stand for the second.
  The theorems about `TransactionSync` cover any number of runs.
* `sync_overlap` looks at delegations only, the kind with every error path; the
  theorems cover rewards and NFT transactions, whose hash two records may share.
* Two items: a list can grow, shrink, be empty, or be partly answered.
* Two wallets of two networks: a misfiled list needs two, and `NotLive` one without
  a node. `SessionLists` looks at one job at a time (`OneJob`): jobs share nothing but
  the session, which they only read.
* One crash or restart reaches every state between two calls.
* `Max = 2` (10 in the code) is the smallest limit at which a wrong password may be
  counted without clearing anything; `MaxTries = 2` reaches it and goes past it with
  the handlers in flight. The dialog that clears the storage is opened before the
  first restart and not again once its box was ticked.
* Three wallets, two of one network: a propagated edit has one wallet to reach and one
  to spare, and a deletion leaves a list of two, with its own dialog. `Initial` holds
  the empty store (first start), two wallets, and all three. `MaxClicks = 3` is enough
  for two operations on one wallet and a selection of it; `MaxEdits = 2` for an edit
  that another undoes. `session_search` needs one click.
* Address book: two dialogs, three changes of a field, three pages opened, two calls
  waiting; the fields of a new contact are filled when its dialog opens, and a payment
  takes longer than the database. Approvals: three readings of the events.
* Three requests of a page: one shown, one that replaces it, one that comes while the
  replaced one is being cancelled. One chain listed from the start and one to add,
  select, remove or give another number. `MaxContinues = 2` decryptions overlap.
* WalletConnect: two sessions, two requests, two confirmations, one restart, a wallet
  with a phrase (the hook does not ask a Ledger); the browser has been used before, for
  no more than a chain that was added and selected.
* `TransactionSend`: one kind of transaction per behaviour, since forms do not share
  dialogs; two clicks for one kind of each shape (`Repeated`: an EVM transfer, a
  delegation, an NFT, a deposit), one click for the others (`MaxClicks = 2`). A wallet with
  a phrase and one on a Ledger, whose first address may be nobody's wallet
  (`DeviceFirst`). `MaxSequence = 3` leaves room for both clicks and another.
* `BridgeTransfer`: two confirmations, visits, requests of the form and requests in
  flight; the timer gives up after 2 failures instead of 6. The form is filled in until
  the first transfer is confirmed.
* `WalletCreation`: two wallets, two visits, two tasks; two chains, one of them with
  EVM addresses, two lists of ten addresses, of which a row of the table stands for one.
  The fields of the Ledger are filled in first, on the first visit, and no wallet is
  built then: the creation reads only the standard and the index.
* `pages`: one switch of the wallet, from that of software to that of the Ledger, two
  handlers, one proposal to vote on and one that takes deposits, one NFT of each chain.
  A behaviour ends when the assets page is pushed while it is open already (`missed`),
  or when handlers older than the switch have set three of the four stores (`late`).
  The theorems about the pages have none of these bounds, except that a wallet which was
  left is not chosen again.

`CHECK_DEADLOCK FALSE` stands where the bounds let the model run out of steps;
`TransactionSync` and `SessionLists` are checked for deadlock.

## 5. Findings

1. `session_search`. The "Select" link of a row stores `walletList[e.key]`
   (`src/pages/wallet/wallet.tsx`, line 111), and the keys are numbered in the list that
   the search has filtered: after a search the link selects the wallet at that place
   of the whole list.
2. `bridge_config`. "Bridge Config updated successfully" is undone by
   `loadBridgeConfig` (`src/service/bridge/BridgeService.ts`, line 479), which saves the
   default configurations over all stored ones before it reads one, and which every use
   of a configuration goes through.

Three more effects were met as counterexamples of unrestricted properties, and are
races rather than contradictions of a text: two overlapping saves of rewards remove,
remove, insert, insert, and leave every reward twice until the next undisturbed sync
(`StorageService.ts`, lines 455–456; rewards have no `txHash`); a wrong password is not
counted when another setter writes the document it had read before
(`GeneralConfigService.ts`, line 106); settings saved during a balance refresh are lost
(`TransactionHistoryService.ts`, line 1005).

## 6. Proofs

Every theorem is about the specification its component is checked with, or about the
part of that specification it `EXTENDS`, for all values of the constants that the named
assumptions of the modules allow: any number of wallets, runs, handlers, requests,
contacts, crashes and clicks. All arguments have one form. The property is not
inductive: what a step does depends on what handlers hold that are still under way,
which the property does not mention. An invariant is stated that says it of them; TLC has checked
each of these invariants on the configuration of the component's run before it was
proved; then `Init => Inv`, `Inv /\ [Next]_vars => Inv'`, with one step per action, and
`Inv => Property`.

| Module | Theorems | Property or formula |
|---|---|---|
| `WalletRecordsProofs` | `TypeCorrect`, `RecordsOfTheirWallet` | `TypeOK`, `OwnRecords` |
| | `NewestListSurvives`, `QuietSavesAreExact` | `LastSaveSurvives`, `QuietSaveExact` |
| | `AnswersErase` | `OnlyAnswersErase`, an action property |
| | `WalletsStoredAsAnnounced` | `StoredAsAnnounced` |
| | `TableOffersTheChosen`, `ShownPathIsUsed` | `OffersTheChosen`, `PathIsUsed` |
| `SessionListsProofs` | `KeepsTheLatestList`, `ReplacesExactly` | `LatestListSurvives`, `QuietRefreshExact` |
| `AssetPagesProofs` | `EditsSurvive`, `RefreshesExactly` | `CleanEditsSurvive`, `QuietRefreshExact` |
| | `PagesAreSound` | the inductive invariant of the pages |
| | `ShowsTheChosen`, `StoresAreOfTheWallet` | `ShownIsChosen`, `StoresFollowTheWallet` |
| | `NoSpinnerIsLeft` | `SpinnersAreServed` |
| | `ActsOnWhatIsOpen` | `ActsOnTheChosen`, an action property |
| `AppLockProofs` | `WipedAfterAttemptsAlways` | `WipedAfterAttempts` |
| | `ImplementsPolicy` | `KeepsPolicy`, the refinement of `LockPolicy` |
| `SettingsPagesProofs` | `PhrasesAreKept`, `NodesStayInTheirNetwork` | `SeedForEveryWallet`, `NodesOfTheirNetwork` |
| | `StoresWhatIsIntended`, `DeletesTheShown` | `StoreIsAsIntended`, `DeletesWhatItShows` |
| | `AddressesOnce`, `SendsToTheShown` | `NoDuplicates`, `PaysWhatItShows` |
| | `RevokesWhatIsListed` | `RevokesTheListed` |
| `WalletConnectProofs` | `ConfirmsWhatItShows`, `SelectedStaysListed` | `ShownIsConfirmed`, `SelectedIsListed` |
| | `CancelledStaysCancelled` | `CancelledForGood`, an action property |
| | `CarriesOutOnce`, `ShowsWhatWaits` | `CarriedOutOnce`, `WaitingIsShown` |
| | `BrowserAsBefore` | `DappsSpec => Spec` |
| | `CancelledBesideConnect`, `ConfirmsBesideConnect`, `CarriedOutOnceBesideConnect`, `WaitingShownBesideConnect` | the properties of the browser, in the composition |
| | `ShowsTheSession`, `AnswersEveryCall` | `SessionIsAsShown`, `EveryCallIsAnswered` |
| `BridgeTransferProofs` | `ConfirmsTheShown`, `PaysOnce` | `RequestIsAsShown`, `OnePaymentPerRequest` |
| | `LocksThePage`, `TellsOfTheBridge` | `LockedWhileUnfinished`, `BridgeTellsTheTruth` |
| `TransactionSendProofs` | `SendingIsSound`, `SendingTyped` | the inductive invariant, `TypeOK` |
| | `PaysOnce`, `TellsTheTruth` | `OnePaymentPerDialog`, `ToldTheTruth` |
| | `TheConfirmedPays`, `ShowsWhatIsSent` | `PaidByTheConfirmed`, `SeenAfterSend` |

### The stores the refreshes write

`WalletRecordsProofs`, first part: a step that files what was fetched needs to know that the run
has a session and that the answer was asked for it; `Inv == TypeOK /\ Answered` adds that
and is inductive. `StepCases` reduces a step to the three that write records and the
others; `OthersKeepRecords` and `OthersKeepSaves` say that a pipeline only touches the
records of its own wallet and kind. For `QuietSaveExact` the cases are by who has moved:
another pipeline has either ended the solitude of this one or left its records alone.
`NodeAnswered` is what makes a removal follow an answer (`AnswersErase`).

`SessionListsProofs`: `LatestKept` says where the latest list is: in the store, or gone
with a run that will insert another under the same key. `AloneIsExact` has what a run that
is alone has left at each of its steps; it rests on `StaysWithOwner` (while the user
stays, both readings of the session give the owner) and `AskedInTime` (nothing is saved
that was not asked for).

`AssetPagesProofs`, first part: `OneCreation` (a refresh that has read records from before a
migration finds nothing to update), `CleanRecords` (while an edit is clean, nobody holds
other settings that he may still write) and `AloneSoFar` (what a lone refresh has written).

### The lock

`WipedAfterAttempts` holds in every interleaving, because of `CreatedAtStart`: the setter
that could create a document without a counter only runs when the start of the home page
has created one; and `Counted`: every counter, stored or read, is at most the number of
wrong passwords. For `KeepsPolicy`, `InvAlone` says what a handler that overlaps no other
has read; there is one lemma per step of the policy over what its variables stand for
(`Locks`, `CountsMiss`, `Clears`, ...), and the actions are sorted under them.

### The pages of the settings

The proofs are about `SettingsSpec`, the composition. `RevokeInv`: the loads are numbered,
and the highest of them is of the events read last; whatever is under way is about the
approval clicked last. `BookInv`: the calls are ordered by their dialogs, at most one of
them still has to write (`OneWriterWaits`), and what it will write is `Vacant`: no other
contact is there. The attempt to prove this has shown that an address can be there twice
in a way the property did not except, a contact edited from an old list; `moved` has it
now. `FieldInv` relates the field of the form to the look-ups that will still change it.

`SessionInv` types the copies of a wallet (`Sound`: its node was edited in a wallet of its
network) wherever they are, in the handlers, too, and at which steps each kind of handler
may be (`PhaseOf`); an edit writes back what it has read (`WritesWhatItRead`), which is why no
node crosses networks even when handlers overlap. `SeedInv` follows the phrase through a
creation. `QuietInv` is for histories in which no two handlers have met: one formula for
each kind of handler says what is in the store, the session, the page and the list at each
of its steps (`Pending`, `QuietHome`, `QuietEdit`), and `AtRest` what is left between handlers.

### The browser and WalletConnect

`OneSlot`: while a request is shown, the callbacks kept are its own or none. `SlotKinds`
keeps the slot and the dialogs of the chains apart, so that a click on "Confirm" does not
move a request that a dialog of the chains waits for. `ModalsWaitedFor`: the chain a
dialog for switching holds is still listed, because chains are removed outside the
browser only, which cannot be left while a dialog is open; `renumbered` excepts a chain
the user gives another number while it is selected. `CancelledIsOver`: a cancelled request
is never both shown and held by the callbacks. `OneDialog` and `NotYet`: the dialogs
exclude each other, and a request that waits has not been carried out. `Undisturbed`: a
request that no other overlaps has the slot and a dialog.

`BrowserAsBefore` says that beside WalletConnect the browser only takes steps of its own,
which carries its theorems over. For the sessions, `HeldConnection`: the one connection
that has not ended is the one the program holds. For the calls, `ListsOnce` (a call is listed
once, also in the lists handlers have seen), `RepliesArrive` and `OneReply`.

### The bridge

`FormSound`: the fields that different callbacks set belong together, which `Fill` could
break in each of its cases. `PageSound`: from the first step on the request is what the
confirmation shows. `RunSound` has the rows, the result and the timer of a run at each of
its steps. `PagesOfRuns` relates the runs to the page: they start in order (`InOrder`); a
request is only confirmed again after an error (`AgainAfterError`); of the runs of the form
that is open at most the last has not failed (`OneOnThePage`); the lock is held from the
first step until the transfer has an outcome (`LockHeld`).

### Sending a transaction

`TransactionSendProofs` proves one invariant for all kinds of transactions, any number of
wallets, Ledgers and clicks, and any interleaving of the handlers with the user and the
chain. `SentOnce`: a handler has sent at most one transaction per stage, and only once it
is past the broadcast; a transaction is in the pool or in one block. `ResultFits`: the
result a handler holds is what the chain says of its transaction (which `Lives` or not),
or its answer is lost; this is `ToldTheTruth` at each step before it is told.
`ReadingFits`: what a handler has read of the session is the wallet of its page, unless
the user has switched wallets, which with `Payers` gives `PaidByTheConfirmed`; that a node
refuses nothing of its own (`TakesItsOwn`) needs `NumberFits`, the number is the next one
of the account until another transaction comes between. `ScreenFits`, `OneAtATime` and
`ClickedAgain` are about the clicks: the openings of the page and the confirmations are
numbered by the clicks before them, at most one handler runs for the page that is open and
its button spins, and a confirmation that is clicked again has a first transaction that
failed or is lost, which is `OnePaymentPerDialog`. `twice` excepts a second click while the
form for sending saves a contact. For `SeenAfterSend`, `RefreshCovers` goes through the kinds:
the messages of a kind change no more lists than are refreshed or named in `LeftStale`.

A step of a handler is described by what it leaves alone (`GoesOn`, `ScreenGoesOn`); the
lemmas `OthersKept`, `SentKept` and `ScreenKept` are proved from that once, and each action
is shown to be such a step.

### The pages of home, the assets, the proposals and the NFTs

The second part of `AssetPagesProofs` is about `PagesSpec`, the composition of the four
pages, with any finite number of handlers that may be under way at once (`PagesAssumption`;
what a click starts has to find a slot). `PagesInv` adds to the three invariants what they
leave open. `HandlersFit` is about the handlers. `OfThePage`: one that may still set
something on a page was started on the page that is open; leaving a page takes that from
all of them (`GoneFit`). `OfTheWallet`: one that will write into the stores has the wallet of
the session in its closure, or is older than the last switch. `OfTheItem`: unless
something else was awaited when an item was opened (`crossed`), all that is awaited for
the page is about that item. `DialogsFit`: a dialog is about the item that is open, and a
transfer that is about to be confirmed has been filled in for it.

`Begun` is the lemma about the slots: handlers that are started are each in one, and all
others go on; it needs the cardinality of the idle slots and is the only place where
finiteness matters. A step of a handler is then described by who leaves, who joins and who goes
on, and the spinners follow from that. For `ActsOnTheChosen`, `SilentClicks` and
`SilentHandlers` show that only a confirmation sends, and `SendsOne` that it sends one
transaction.

### Creating a wallet and the table of a Ledger's addresses

The second part of `WalletRecordsProofs` is about `CreationSpec`, the pages together with
the fields of a Ledger, for any handlers, wallets, visits, chains, rows and requests; the
bounds are only bounds of the checks. `CreationIsWallet` shows that the fields take no step
of their own in the pages, so that each part has an invariant of its own.

`TableInv`, for the table. `JobFits`: an answer that is awaited and not outdated is for the
chain and the standard chosen, and more rows are asked for after the rows of the click,
which are the first ones. `RowsListed`: the rows listed are the first ones, and those
shown are the same or their balances are awaited. `RowsShown`: rows of another choice
are only left under the spinner, which no click of this choice will stop; that is why
`SelectRow` takes a row of the standard of the form (`PathIsUsed`). `Processed` says what
`processLedgerAccountsList` does, once for the three actions that call it. The argument
has corrected the model: it had taken an answer of an earlier choice for one of the
present choice when the same chain had been chosen again, which the bounds of the run do
not show.

`PagesInv`, for the pages. `Storable` is what `StoredAsAnnounced` says of a stored wallet.
It is kept from where a wallet is built to where it is stored: a form that is shown has a
network whose node has answered (`PageFits`), a handler of a form that is there has the
configuration of the page (`HandlerFits`), the form tells of the wallet it has built, which
is the one left for the backup unless a form that was gone has left another (`FormFits`),
and a page asks the password for a wallet that is `Storable`. `LeftFits` covers what
becomes of a handler whose page is left, `HandlerKept` the handlers beside the one that
takes a step, and `Built` the one step that adds a wallet.

### Only model-checked

* Liveness under fairness (`RunEnds`, both `SpinnerStops`, `LockReleased`) is out of the
  prover's reach.
* `SelectsTheRow` and `SavedConfigStays` are violated.
* Results of recursive definitions for every input cannot be proved with the installed
  provers; the modules with theorems have no recursive operators. Where an operator of
  the sequence modules stood in the way (`SelectSeq` in `AllWallets` and `Removed`), it is
  written with its positions. `Removed` takes one occurrence away, which is the filter
  of the code because a call is listed once, also in the lists handlers hold (`ListsOnce`).

## 7. Not modelled

* Signing, encryption, hashing, address generation and validation: functions of
  libraries, values in and values out. Right and wrong passwords, valid and invalid
  fields are choices.
* HTTP clients, JSON formats, pagination beyond where an error ends it.
* What lists contain: sorting and uptime of validators, amounts, units, prices, gas.
* Transfers: `saveTransferTransactions` has no caller in a sync any more.
* In the browser: scripts queued before the page is ready, a page that navigates away
  (its answers go nowhere), the values of gas, nonces and signatures. `ecRecover` has
  its callbacks swapped in `DappBrowser.tsx`, line 327, so that its answer is always an
  error; the model only counts answers.
* In WalletConnect: the library with its socket and its encryption. Connecting and
  ending a session are atomic, a link it does not understand makes it throw after the
  session there was has ended. The methods that ask for something are signing, sending
  and unknown ones; a request that arrives after its session was rejected, the check of
  the balance, and the branches for a connector that is already connected are left out.
* In the pages: the Ledger connection the confirming buttons ask for and whether an
  asset is missing are left open; the password step of a form has no states of its own;
  the list of proposals that is read again and again while it is empty, the loading
  time-out of the layout, the upload of an NFT's file, the tabs of closed proposals and how a voting period
  ends; errors of the local database, except after a transaction was sent: an NFT, a
  vote, a proposal or a deposit then ends as if it had failed.
* In the creation: `waitFlag`, which only delays; errors of the database; restarts; the
  wallet identifier a page is given is that of the wallet just confirmed.
* In the address book and the approvals: labels, errors of the database, the dialogs
  of the password, a change of the wallet while they are open, leaving the tab.
* In the bridge: amounts and fees, the list of past transfers, `checkBridgeConfigs`.
* Rendering, translations, analytics, notifications, auto-update, window management,
  market prices (one upsert per price under its own key).
* The currency of a session, which a creation, a deletion and a migration set to USD.
* A NeDB file that is corrupted by a crash in the middle of a write.

## 8. Plan

1. In `DappRequests`, the scripts queued while a page loads (`useIPCProvider.ts`, line
   145) and a page that navigates away.
2. The history of bridge transfers and `checkBridgeConfigs`.
3. Algorithms as operators against a reference: the sort of the validators and of the
   assets, amounts and units.
4. An abstract specification of `WalletSession` (a set of wallets, one of them selected)
   and one of `TransactionSend` (a confirmed transaction is included at most once), with
   refinements.
