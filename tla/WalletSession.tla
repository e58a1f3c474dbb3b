---------------------------- MODULE WalletSession ----------------------------
(***************************************************************************)
(* The wallets, the session that names the selected one, and the copies of *)
(* both that the pages keep: WalletService, StorageService (walletStore,    *)
(* sessionStore), SecretStoreService (seedStore), layouts/home, pages/wallet,*)
(* pages/settings.                                                         *)
(*                                                                         *)
(* A session holds a whole wallet record, settings included, and so does    *)
(* the list of wallets of the pages: a setting is in up to four places.     *)
(* Each action is the code between two awaits; a handler is an instance of  *)
(* one of the pages' async functions, and up to Cardinality(Handlers) of    *)
(* them are in flight together.  Of a wallet the model keeps the node       *)
(* settings (which edit has written them), one of the two switches that are *)
(* saved in the same way (default memo, analytics), and the flag for        *)
(* propagating settings to the wallets of the same network.                 *)
(***************************************************************************)
EXTENDS Naturals, FiniteSets, Sequences, Functions

CONSTANTS
  Order,        \* the wallets, in the order in which the store lists them
  NetworkOf,    \* the name of the network (config.name) of each wallet
  Initial,      \* sets of wallets the application may start with
  Handlers,     \* instances of the pages' async functions
  NoWallet,     \* no wallet
  NoSession,    \* no session document, or one without a wallet
  MaxClicks,    \* bound: operations the user starts
  MaxEdits,     \* bound: edits of node settings
  MaxCrashes    \* bound: times the application is closed

Wallets  == Range(Order)
Settings == [node: 0 .. MaxEdits, memo: BOOLEAN, general: BOOLEAN]
Sessions == [wallet: Wallets, settings: Settings]

ASSUME SessionAssumption ==
  /\ Order \in Seq(Wallets) /\ \A i, j \in DOMAIN Order: Order[i] = Order[j] => i = j
  /\ DOMAIN NetworkOf = Wallets
  /\ Initial \subseteq SUBSET Wallets
  /\ NoWallet \notin Wallets /\ NoSession \notin Sessions
  /\ {MaxClicks, MaxEdits, MaxCrashes} \subseteq Nat

VARIABLES
  walletStore,  \* the wallets stored and their settings
  sessionStore, \* the stored session
  seedStore,    \* the wallets whose encrypted phrase is stored
  home,         \* is the home layout mounted
  page,         \* sessionState: the session as the pages know it
  walletList,   \* walletListState: the wallets as the pages know them
  dialog,       \* the wallet whose address the deletion dialog shows
  deletion,     \* how far the deletion dialog is: "asked", "ticked", "typing" or "done"
  handler,      \* what each handler does and what it has read
  edits,        \* history: the wallet each edit of node settings was made for
  used,         \* history: the wallets that have ever been saved
  intended,     \* history: the wallets if every operation were one step
  interrupted,  \* history: wallets being created or deleted when it was closed
  met,          \* history: two handlers have been in flight together
  cut,          \* history: it was closed with a handler in flight
  quietDialog,  \* history: nothing was in flight when the dialog was opened
  clicks, crashes

stores  == <<walletStore, sessionStore, seedStore>>
pages   == <<home, page, walletList, dialog, deletion>>
history == <<edits, used, intended, interrupted, met, cut, quietDialog>>
bounds  == <<clicks, crashes>>
vars    == <<stores, pages, handler, history, bounds>>

Fresh == [node |-> 0, memo |-> FALSE, general |-> FALSE]
Idle  == [op |-> "none"]

Busy == {h \in Handlers: handler[h] # Idle}
At(h, step) == h \in Busy /\ handler[h].at = step
Keep(h, step) == handler' = [handler EXCEPT ![h].at = step]
Go(h, step) ==  \* what was read is of no use any more
  handler' = [handler EXCEPT ![h].at = step, ![h].snap = NoSession, ![h].list = <<>>,
                             ![h].value = 0]
Finish(h) == handler' = [handler EXCEPT ![h] = Idle]

-----------------------------------------------------------------------------
(* The operations of the stores. *)

Stored == DOMAIN walletStore

(* findWalletByIdentifier, put into a session: without a wallet if there is none *)
Found(w) ==
  IF w \in Stored THEN [wallet |-> w, settings |-> walletStore[w]] ELSE NoSession

(* retrieveAllWallets *)
AllWallets ==
  LET places == {i \in DOMAIN Order: Order[i] \in Stored}
      rank   == [i \in places |-> Cardinality({j \in places: j <= i})]
  IN  [k \in 1 .. Cardinality(places) |-> Found(Order[CHOOSE i \in places: rank[i] = k])]

Upserted(store, w, s) ==
  [v \in DOMAIN store \union {w} |-> IF v = w THEN s ELSE store[v]]

SaveWallet(w, s) == walletStore' = Upserted(walletStore, w, s)

(* updateGeneralSettingsPropagation *)
Propagated(store, w, on) ==
  [v \in DOMAIN store |->
     IF NetworkOf[v] = NetworkOf[w] THEN [store[v] EXCEPT !.general = on] ELSE store[v]]

(* mutant: the query without the name of the network *)
NodeForEvery(store, w, n) == [v \in DOMAIN store |-> [store[v] EXCEPT !.node = n]]

(* handleGeneralWalletSettingsUpdate *)
NodeForAll(store, w, n) ==
  [v \in DOMAIN store |->
     IF NetworkOf[v] = NetworkOf[w] THEN [store[v] EXCEPT !.node = n] ELSE store[v]]

(* What the user wants of an edit of node settings. *)
NodeEdited(store, w, n) ==
  IF store[w].general THEN NodeForAll(store, w, n)
                      ELSE [store EXCEPT ![w].node = n]

-----------------------------------------------------------------------------
Init ==
  /\ \E S \in Initial:
       /\ walletStore = [w \in S |-> Fresh]
       /\ IF S = {} THEN sessionStore = NoSession
                    ELSE \E w \in S: sessionStore = [wallet |-> w, settings |-> Fresh]
       /\ seedStore = S
       /\ used = S
       /\ intended = [w \in S |-> Fresh]
  /\ home = "away" /\ page = NoSession /\ walletList = <<>>
  /\ dialog = NoWallet /\ deletion = "closed"
  /\ handler = [h \in Handlers |-> Idle]
  /\ edits = <<>> /\ interrupted = {}
  /\ met = FALSE /\ cut = FALSE /\ quietDialog = FALSE
  /\ clicks = 0 /\ crashes = 0

Started(op, step, w) ==
  [op |-> op, at |-> step, wallet |-> w, snap |-> NoSession, list |-> <<>>, value |-> 0]

Begin(h, task) ==
  /\ h \notin Busy
  /\ handler' = [handler EXCEPT ![h] = task]
  /\ met' = (met \/ Busy # {})

(* History: of no interest once two handlers have met. *)
Intend(store) == intended' = IF met' THEN <<>> ELSE store

(* mutant: the dialog does not cover the page *)
ClickBehind ==
  /\ home = "mounted" /\ page # NoSession
  /\ clicks < MaxClicks
  /\ clicks' = clicks + 1
  /\ UNCHANGED crashes

(* A click on a page: it shows a session, and no dialog is over it. *)
Click ==
  /\ home = "mounted" /\ page # NoSession /\ deletion = "closed"
  /\ clicks < MaxClicks
  /\ clicks' = clicks + 1
  /\ UNCHANGED crashes

-----------------------------------------------------------------------------
(* The home layout is mounted: fetchDB of layouts/home. *)

(* Without a session document it throws and the pages keep what they have. *)
MountHome(h) ==
  /\ home = "away" /\ Stored # {}
  /\ home' = "mounted"
  /\ IF sessionStore = NoSession
     THEN UNCHANGED <<handler, met>>
     ELSE Begin(h, [Started("start", "wallets", NoWallet) EXCEPT !.snap = sessionStore])
  /\ UNCHANGED <<stores, page, walletList, dialog, deletion, edits, used, intended, interrupted,
                 cut, quietDialog, bounds>>

MountWallets(h) ==
  /\ At(h, "wallets")
  /\ handler' = [handler EXCEPT ![h].list = AllWallets, ![h].at = "mount"]
  /\ UNCHANGED <<stores, pages, history, bounds>>

MountShow(h) ==
  /\ At(h, "mount")
  /\ page' = handler[h].snap
  /\ walletList' = handler[h].list
  /\ Finish(h)
  /\ UNCHANGED <<stores, home, dialog, deletion, history, bounds>>

-----------------------------------------------------------------------------
(* Creating and restoring: encryptWalletAndSetSession, on pages outside the home layout. *)

CreateWallet(h, w) ==
  /\ w \notin used /\ deletion = "closed"
  /\ clicks < MaxClicks /\ clicks' = clicks + 1
  /\ Begin(h, Started("create", "seed", w))
  /\ SaveWallet(w, Fresh)
  /\ used' = used \union {w}
  /\ Intend(Upserted(intended, w, Fresh))
  /\ home' = "away"
  /\ UNCHANGED <<sessionStore, seedStore, page, walletList, dialog, deletion, edits, interrupted,
                 cut, quietDialog, crashes>>

PersistPhrase(h) ==
  /\ At(h, "seed")
  /\ seedStore' = seedStore \union {handler[h].wallet}
  /\ Go(h, "session")
  /\ UNCHANGED <<walletStore, sessionStore, pages, history, bounds>>

SetNewSession(h) ==
  /\ At(h, "session")
  /\ sessionStore' = [wallet |-> handler[h].wallet, settings |-> Fresh]
  /\ Finish(h)
  /\ UNCHANGED <<walletStore, seedStore, pages, history, bounds>>

-----------------------------------------------------------------------------
(* Deleting: the menu and the dialog of layouts/home, onWalletDeleteFinish. *)

Deleting == {h \in Busy: handler[h].op = "delete"}

DialogUnchanged == <<stores, home, page, walletList, handler, edits, used, intended,
                     interrupted, met, cut>>

OpenDialog ==
  /\ Click /\ Len(walletList) > 1
  /\ dialog' = page.wallet /\ deletion' = "asked"
  /\ quietDialog' = (Busy = {})
  /\ UNCHANGED DialogUnchanged

(* The box that enables the button, ... *)
TickDeletion ==
  /\ deletion \in {"asked", "ticked"}
  /\ deletion' = IF deletion = "asked" THEN "ticked" ELSE "asked"
  /\ UNCHANGED <<DialogUnchanged, dialog, quietDialog, bounds>>

(* ... the button that asks for the word, ... *)
ConfirmDeletion ==
  /\ deletion = "ticked" /\ deletion' = "typing"
  /\ UNCHANGED <<DialogUnchanged, dialog, quietDialog, bounds>>

(* ... and the form with the word; its button is busy while it is deleting. *)
MayDelete == deletion = "typing" /\ Deleting = {} /\ page # NoSession

CancelDialog ==
  /\ dialog # NoWallet /\ Deleting = {}
  /\ dialog' = NoWallet /\ deletion' = "closed" /\ quietDialog' = FALSE
  /\ UNCHANGED <<DialogUnchanged, bounds>>

(* What is told of the deletion covers the page, too. *)
CloseDeleted ==
  /\ deletion = "done" /\ deletion' = "closed"
  /\ UNCHANGED <<DialogUnchanged, dialog, quietDialog, bounds>>

(* mutant: the phrase is deleted with the wallet *)
SubmitDeleteAll(h) ==
  /\ MayDelete
  /\ Begin(h, Started("delete", "list", page.wallet))
  /\ walletStore' = Restrict(walletStore, Stored \ {page.wallet})
  /\ seedStore' = seedStore \ {page.wallet}
  /\ Intend(Restrict(intended, DOMAIN intended \ {page.wallet}))
  /\ UNCHANGED <<sessionStore, pages, edits, used, interrupted, cut, quietDialog, bounds>>

SubmitDelete(h) ==
  /\ MayDelete
  /\ Begin(h, Started("delete", "list", page.wallet))
  /\ walletStore' = Restrict(walletStore, Stored \ {page.wallet})
  /\ Intend(Restrict(intended, DOMAIN intended \ {page.wallet}))
  /\ UNCHANGED <<sessionStore, seedStore, pages, edits, used, interrupted, cut,
                 quietDialog, bounds>>

DeleteList(h) ==
  /\ At(h, "list")
  /\ handler' = [handler EXCEPT ![h].list = AllWallets, ![h].at = "select"]
  /\ UNCHANGED <<stores, pages, history, bounds>>

SelectFirst(h) ==
  /\ At(h, "select")
  /\ walletList' = handler[h].list
  /\ sessionStore' = IF handler[h].list = <<>> THEN NoSession ELSE Head(handler[h].list)
  /\ Go(h, "reload")
  /\ UNCHANGED <<walletStore, seedStore, home, page, dialog, deletion, history, bounds>>

(* retrieveCurrentSession, here and in onWalletSwitch; the assets of no wallet cannot be read. *)
Reload(h) ==
  /\ At(h, "reload")
  /\ IF sessionStore = NoSession
     THEN Finish(h)
     ELSE handler' = [handler EXCEPT ![h].snap = sessionStore, ![h].at = "shown"]
  /\ UNCHANGED <<stores, pages, history, bounds>>

DeleteShow(h) ==
  /\ At(h, "shown") /\ handler[h].op = "delete"
  /\ page' = handler[h].snap
  /\ dialog' = NoWallet /\ deletion' = "done" /\ quietDialog' = FALSE
  /\ Finish(h)
  /\ UNCHANGED <<stores, home, walletList, edits, used, intended, interrupted, met, cut,
                 bounds>>

-----------------------------------------------------------------------------
(* Switching: pages/wallet. *)

(* The key of a row is its place in the list it was filtered from: all wallets, or
   after a search for an address the one that has it. *)
Key(row, searched) == IF searched THEN 1 ELSE row

Switch(h, row, searched) ==
  /\ Click
  /\ walletList[row].wallet # page.wallet
  /\ sessionStore' = walletList[Key(row, searched)]
  /\ Begin(h, [Started("switch", "reload", walletList[row].wallet)
               EXCEPT !.value = IF searched THEN 1 ELSE 0])
  /\ UNCHANGED <<walletStore, seedStore, pages, edits, used, intended, interrupted,
                 cut, quietDialog>>

SwitchShow(h) ==
  /\ At(h, "shown") /\ handler[h].op = "switch"
  /\ page' = handler[h].snap
  /\ Finish(h)
  /\ UNCHANGED <<stores, home, walletList, dialog, deletion, history, bounds>>

-----------------------------------------------------------------------------
(* Settings: pages/settings and the gas forms.  Each handler works on the wallet
   of the session its page showed at the click. *)

EditUnchanged == <<seedStore, pages, used, interrupted, cut, quietDialog>>

(* mutant: the wallet is taken from the session of the page *)
ToggleOfPage(h, disabled) ==
  /\ Click /\ page.wallet \in Stored
  /\ Begin(h, [Started("toggle", "write", page.wallet)
               EXCEPT !.snap = page, !.value = IF disabled THEN 1 ELSE 0])
  /\ Intend([intended EXCEPT ![page.wallet].memo = disabled])
  /\ UNCHANGED <<walletStore, sessionStore, edits, EditUnchanged>>

(* updateDisabledDefaultMemo, updateDisabledGA: the whole wallet is read, ... *)
Toggle(h, disabled) ==
  /\ Click /\ page.wallet \in Stored
  /\ Begin(h, [Started("toggle", "write", page.wallet)
               EXCEPT !.snap = Found(page.wallet), !.value = IF disabled THEN 1 ELSE 0])
  /\ Intend([intended EXCEPT ![page.wallet].memo = disabled])
  /\ UNCHANGED <<walletStore, sessionStore, edits, EditUnchanged>>

(* ... and written back, with upsert. *)
ToggleWrite(h) ==
  /\ At(h, "write") /\ handler[h].op = "toggle"
  /\ SaveWallet(handler[h].wallet,
                [handler[h].snap.settings EXCEPT !.memo = (handler[h].value = 1)])
  /\ Go(h, "find")
  /\ UNCHANGED <<sessionStore, seedStore, pages, history, bounds>>

(* onEnableGeneralWalletConfig *)
Propagate(h, on) ==
  /\ Click
  /\ Begin(h, Started("propagate", "find", page.wallet))
  /\ walletStore' = Propagated(walletStore, page.wallet, on)
  /\ Intend(Propagated(intended, page.wallet, on))
  /\ UNCHANGED <<sessionStore, edits, EditUnchanged>>

(* FormSettings.onFinish and updateWalletSettings: the wallet is read, ... *)
EditNode(h) ==
  /\ Click /\ page.wallet \in Stored /\ Len(edits) < MaxEdits
  /\ edits' = Append(edits, page.wallet)
  /\ Begin(h, [Started("settings", "apply", page.wallet)
               EXCEPT !.snap = Found(page.wallet), !.value = Len(edits) + 1])
  /\ Intend(NodeEdited(intended, page.wallet, Len(edits) + 1))
  /\ UNCHANGED <<walletStore, sessionStore, EditUnchanged>>

(* ... and either the wallets of the network are updated where they are stored, ... *)
EditForAll(h) ==
  /\ At(h, "apply") /\ handler[h].snap.settings.general
  /\ walletStore' = NodeForAll(walletStore, handler[h].wallet, handler[h].value)
  /\ Go(h, "find")
  /\ UNCHANGED <<sessionStore, seedStore, pages, history, bounds>>

EditedWallet(h) == [handler[h].snap.settings EXCEPT !.node = handler[h].value]

(* ... or the wallet as it was read gets the new values, first in the session, ... *)
EditSession(h) ==
  /\ At(h, "apply") /\ ~handler[h].snap.settings.general
  /\ sessionStore' = [wallet |-> handler[h].wallet, settings |-> EditedWallet(h)]
  /\ Keep(h, "write")
  /\ UNCHANGED <<walletStore, seedStore, pages, history, bounds>>

(* ... then in its store, with upsert. *)
EditWrite(h) ==
  /\ At(h, "write") /\ handler[h].op = "settings"
  /\ SaveWallet(handler[h].wallet, EditedWallet(h))
  /\ Go(h, "find")
  /\ UNCHANGED <<sessionStore, seedStore, pages, history, bounds>>

(* The gas forms, and the settings of another asset: the wallet is only read again. *)
EditAsset(h) ==
  /\ Click
  /\ Begin(h, [Started("asset", "both", page.wallet) EXCEPT !.snap = Found(page.wallet)])
  /\ UNCHANGED <<stores, pages, edits, used, intended, interrupted, cut, quietDialog>>

(* findWalletByIdentifier after the update *)
FindUpdated(h) ==
  /\ At(h, "find")
  /\ handler' = [handler EXCEPT
       ![h].snap = Found(handler[h].wallet),
       ![h].at = IF handler[h].op = "settings" THEN "both" ELSE "store"]
  /\ UNCHANGED <<stores, pages, history, bounds>>

(* MetaInfoComponent, onEnableGeneralWalletConfig: the stored session first, ... *)
StoreSession(h) ==
  /\ At(h, "store")
  /\ sessionStore' = handler[h].snap
  /\ Keep(h, "show")
  /\ UNCHANGED <<walletStore, seedStore, pages, history, bounds>>

(* ... then that of the pages; the list of wallets is not read again. *)
ShowSession(h) ==
  /\ At(h, "show")
  /\ page' = handler[h].snap
  /\ Finish(h)
  /\ UNCHANGED <<stores, home, walletList, dialog, deletion, history, bounds>>

(* FormSettings and the gas forms: the pages' session and the stored one together, ... *)
ShowAndStore(h) ==
  /\ At(h, "both")
  /\ page' = handler[h].snap
  /\ sessionStore' = handler[h].snap
  /\ Go(h, "all")
  /\ UNCHANGED <<walletStore, seedStore, home, walletList, dialog, deletion, history, bounds>>

(* ... then the list of wallets, read again ... *)
ReadList(h) ==
  /\ At(h, "all")
  /\ handler' = [handler EXCEPT ![h].list = AllWallets, ![h].at = "refill"]
  /\ UNCHANGED <<stores, pages, history, bounds>>

(* ... and shown. *)
ShowList(h) ==
  /\ At(h, "refill")
  /\ walletList' = handler[h].list
  /\ Finish(h)
  /\ UNCHANGED <<stores, home, page, dialog, deletion, history, bounds>>

-----------------------------------------------------------------------------
(* Other writers of the session. *)

(* An asset is selected: the pages' session, with that asset, is stored at once. *)
SelectAsset ==
  /\ Click
  /\ sessionStore' = page
  /\ met' = (met \/ Busy # {})
  /\ UNCHANGED <<walletStore, seedStore, pages, handler, edits, used, intended, interrupted,
                 cut, quietDialog>>

(* onSwitchCurrency: the same, and the pages' session is set when it is stored. *)
SwitchCurrency(h) ==
  /\ Click
  /\ sessionStore' = page
  /\ Begin(h, [Started("currency", "show", page.wallet) EXCEPT !.snap = page])
  /\ UNCHANGED <<walletStore, seedStore, pages, edits, used, intended, interrupted,
                 cut, quietDialog>>

(* handleCurrentWalletAssetsMigration stores, seconds later, the session of the click. *)
Migrate(h) ==
  /\ Click
  /\ Begin(h, [Started("migrate", "migrated", page.wallet) EXCEPT !.snap = page])
  /\ UNCHANGED <<stores, pages, edits, used, intended, interrupted, cut, quietDialog>>

MigratedSession(h) ==
  /\ At(h, "migrated")
  /\ sessionStore' \in {handler[h].snap, sessionStore}  \* or no asset was missing
  /\ Finish(h)
  /\ UNCHANGED <<walletStore, seedStore, pages, history, bounds>>

(* The application is closed and started again. *)
Crash ==
  /\ crashes < MaxCrashes /\ home = "mounted"
  /\ crashes' = crashes + 1
  /\ home' = "away" /\ page' = NoSession /\ walletList' = <<>>
  /\ dialog' = NoWallet /\ deletion' = "closed" /\ quietDialog' = FALSE
  /\ handler' = [h \in Handlers |-> Idle]
  /\ interrupted' = interrupted \union
       {handler[h].wallet: h \in {g \in Busy: handler[g].op \in {"create", "delete"}}}
  /\ cut' = (cut \/ Busy # {})
  /\ intended' = IF met \/ Busy = {} THEN intended ELSE walletStore
  /\ UNCHANGED <<stores, edits, used, met, clicks>>

HandlerStep(h) ==
  \/ MountWallets(h) \/ MountShow(h)
  \/ PersistPhrase(h) \/ SetNewSession(h)
  \/ DeleteList(h) \/ SelectFirst(h) \/ Reload(h) \/ DeleteShow(h) \/ SwitchShow(h)
  \/ ToggleWrite(h) \/ EditForAll(h) \/ EditSession(h) \/ EditWrite(h)
  \/ FindUpdated(h) \/ StoreSession(h) \/ ShowSession(h)
  \/ ShowAndStore(h) \/ ReadList(h) \/ ShowList(h)
  \/ MigratedSession(h)

UserStep(h) ==
  \/ MountHome(h)
  \/ \E w \in Wallets: CreateWallet(h, w)
  \/ SubmitDelete(h)
  \/ \E row \in DOMAIN walletList, searched \in BOOLEAN: Switch(h, row, searched)
  \/ \E on \in BOOLEAN: Toggle(h, on) \/ Propagate(h, on)
  \/ EditNode(h) \/ EditAsset(h) \/ SwitchCurrency(h) \/ Migrate(h)

Next ==
  \/ \E h \in Handlers: HandlerStep(h) \/ UserStep(h)
  \/ OpenDialog \/ TickDeletion \/ ConfirmDeletion \/ CancelDialog \/ CloseDeleted
  \/ SelectAsset \/ Crash

Spec == Init /\ [][Next]_vars

-----------------------------------------------------------------------------
(* Properties. *)

Snapshots == Sessions \union {NoSession}

Tasks ==
  [op: {"start", "create", "delete", "switch", "toggle", "propagate", "settings",
        "asset", "currency", "migrate"},
   at: {"wallets", "mount", "seed", "session", "list", "select", "reload", "shown",
        "write", "apply", "find", "store", "show", "both", "all", "refill", "migrated"},
   wallet: Wallets \union {NoWallet}, snap: Snapshots, list: Seq(Sessions),
   value: 0 .. MaxEdits \union {0, 1}]

(* Every variable holds a value of its kind. *)
TypeOK ==
  /\ Stored \subseteq Wallets /\ \A w \in Stored: walletStore[w] \in Settings
  /\ sessionStore \in Snapshots /\ page \in Snapshots
  /\ seedStore \subseteq Wallets
  /\ home \in {"away", "mounted"}
  /\ walletList \in Seq(Sessions) /\ Len(walletList) <= Len(Order)
  /\ dialog \in Wallets \union {NoWallet}
  /\ deletion \in {"closed", "asked", "ticked", "typing", "done"}
  /\ \A h \in Busy: handler[h] \in Tasks

(* In every interleaving and after every crash, the encrypted phrase of a stored
   wallet is stored, except of one that was being created when the application was
   closed.  Deleting a wallet and reviving it by an upsert are no exceptions. *)
SeedForEveryWallet ==
  \A w \in Stored \ seedStore:
    \/ w \in interrupted
    \/ \E h \in Busy: handler[h].at = "seed" /\ handler[h].wallet = w

OfItsNetwork(w, s) == s.node = 0 \/ NetworkOf[edits[s.node]] = NetworkOf[w]

(* The node settings of a wallet, wherever they are copied to and whatever overlaps,
   were made for a wallet of the same network: no wallet of the main network is ever
   sent to a node of a test network. *)
NodesOfTheirNetwork ==
  /\ \A w \in Stored: OfItsNetwork(w, walletStore[w])
  /\ \A s \in {sessionStore, page} \union Range(walletList):
       s # NoSession => OfItsNetwork(s.wallet, s.settings)

Settled == Busy = {} /\ ~met

SessionNamesAWallet ==
  /\ sessionStore # NoSession /\ sessionStore.wallet = page.wallet
  /\ page.wallet \in Stored \union interrupted

(* Not so the switches and the propagation flag: their handlers do not read the list
   again. *)
NodeInForce ==
  page.wallet \in Stored /\ ~cut =>
    /\ page.settings.node = walletStore[page.wallet].node
    /\ sessionStore.settings.node = walletStore[page.wallet].node

(* As long as no two handlers have been in flight together, what is stored between
   them is what the user's operations amount to if each was one step: no edit undoes
   another, a propagated edit reaches the wallets of its network and no others, and no
   deleted wallet comes back.  The pages and the stored session name the same wallet,
   which exists unless the application was closed while it was created or deleted, and
   the node in force is the one stored for it, also when the wallet was selected from a
   list the pages had loaded earlier. *)
StoreIsAsIntended ==
  Settled =>
    /\ walletStore = intended
    /\ home = "mounted" /\ page # NoSession => SessionNamesAWallet /\ NodeInForce

(* A dialog opened while nothing was in flight deletes the wallet whose address it
   shows. *)
DeletesWhatItShows ==
  dialog # NoWallet /\ quietDialog /\ Deleting = {} => page # NoSession /\ page.wallet = dialog

(* Select in a row of the list of wallets selects the wallet of that row, with or
   without a search. *)
SelectsTheRow ==
  [][\A h \in Handlers: SwitchShow(h) => page'.wallet = handler[h].wallet]_vars

=============================================================================
