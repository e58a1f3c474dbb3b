---------------------------- MODULE WalletCreation ----------------------------
(* The pages that create, back up and restore a wallet: src/src/pages/create,    *)
(* pages/backup, pages/restore and the services behind them.  One page is open   *)
(* at a time.  What a page has started - the creation itself, the checks of a    *)
(* Ledger, the storing of a wallet - are tasks that go on when the form or the   *)
(* page that started them is gone: what they set on a form that is no longer     *)
(* there is ignored, what they set in the stores of the application is not.      *)
(*                                                                               *)
(* Abstracted: a form is whether its name (and phrase) is filled in, the kind of *)
(* wallet, and whether the network is the custom one; every delay is a step; the *)
(* storing of a wallet, a step here, is taken apart in WalletSession.            *)
EXTENDS Naturals, FiniteSets

CONSTANTS
  Tasks,        \* handlers that can be under way at once
  Nothing,
  MaxWallets,   \* bound: wallets built
  MaxVisits     \* bound: pages opened

ASSUME CreationAssumption ==
  /\ Tasks \subseteq Nat
  /\ MaxWallets \in Nat /\ MaxVisits \in Nat
  /\ Nothing \notin Nat
  /\ Nothing # "tested"    \* a configuration

VARIABLES
  place,       \* the page that is open; "lobby" stands for all others
  page,        \* state of the page
  form,        \* state of its form, lost when the form is replaced
  task,        \* task[t]: a handler under way
  temp,        \* walletTempBackupState: the wallet the last creation has left
  made,        \* made[w]: kind and configuration of the w-th wallet built
  saved,       \* wallets whose assets are stored
  stored,      \* wallets that are stored, with phrase and session
  told,        \* history: wallets whose creation the user has been told of
  strays,      \* history: wallets finished when their form was gone
  visits

walletVars == <<place, page, form, task, temp, made, saved, stored, told, strays, visits>>
stores == <<saved, stored>>
history == <<told, strays, visits>>

Ids == 1 .. MaxWallets
WalletKinds == {"normal", "ledger"}
Configs == {"listed", "tested", "default"}
Dialogs == {"success", "error", "cro", "eth"}
CroSteps == {"cro500", "croAsk", "croShown", "croFailed", "croDone"}
CoreSteps == {"create", "croAddress", "wait", "ethAddress", "hold", "assets"}
EthSteps == {"eth500", "ethAsk", "ethShown", "ethFailed"}
StoreSteps == {"restore", "store", "storeAndForget"}

Idle == [at |-> "idle", here |-> FALSE, page |-> FALSE, config |-> Nothing,
         wallet |-> Nothing, late |-> FALSE]

\* CreatePage and RestorePage when they are opened.
FreshPage ==
  [custom |-> FALSE, connected |-> FALSE, config |-> Nothing, node |-> "idle",
   name |-> FALSE, kind |-> "normal", net |-> "listed", locked |-> TRUE,
   wallet |-> Nothing, password |-> FALSE, going |-> FALSE]

\* FormCreate and FormRestore when they are mounted.
FreshForm ==
  [loading |-> FALSE, forgotten |-> FALSE, dialogs |-> {}, connecting |-> FALSE,
   croOk |-> FALSE, ethOk |-> FALSE, wallet |-> Nothing]

WalletInit ==
  /\ place = "lobby"
  /\ page = FreshPage
  /\ form = FreshForm
  /\ task = [t \in Tasks |-> Idle]
  /\ temp = Nothing
  /\ made = [w \in {} |-> Nothing]
  /\ saved = {} /\ stored = {}
  /\ told = {} /\ strays = {}
  /\ visits = 0

-----------------------------------------------------------------------------
(* Pages and forms. *)

FormShown == ~page.custom \/ page.connected

\* A dialog covers the page behind it.
Free == form.dialogs = {} /\ ~page.password

\* The checks of a form that is gone set nothing any more; of a page that is
\* still there, a check of the Crypto.org app goes on to create the wallet.
Left(k, samePage) ==
  IF k.at \in EthSteps \/ (k.at \in CroSteps /\ ~samePage)
  THEN Idle
  ELSE [k EXCEPT !.here = FALSE, !.page = samePage /\ k.page]

Leave(to) ==
  /\ place' = to
  /\ page' = FreshPage
  /\ form' = FreshForm

Open(p) ==
  /\ place = "lobby"
  /\ visits < MaxVisits
  /\ visits' = visits + 1
  /\ Leave(p)
  /\ UNCHANGED <<task, temp, made, stores, told, strays>>

Back ==
  /\ place \in {"create", "restore"}
  /\ Free /\ page.node \in {"idle", "checking"}
  /\ Leave("lobby")
  /\ task' = [t \in Tasks |-> Left(task[t], FALSE)]
  /\ UNCHANGED <<temp, made, stores, history>>

Editable == place \in {"create", "restore"} /\ FormShown /\ Free

\* onChange: the network can be chosen once there is a name.
TypeName ==
  /\ Editable
  /\ page' = [page EXCEPT !.name = ~page.name, !.locked = page.name]
  /\ UNCHANGED <<place, form, task, temp, made, stores, history>>

\* onCheckboxChange
TickLedger ==
  /\ Editable /\ place = "create"
  /\ \E k \in WalletKinds \ {page.kind}: page' = [page EXCEPT !.kind = k]
  /\ UNCHANGED <<place, form, task, temp, made, stores, history>>

\* onNetworkChange: the custom network replaces the form by one for its node.
ChooseListed ==
  /\ Editable /\ ~page.locked
  /\ page.net = "custom"
  /\ page' = [page EXCEPT !.net = "listed"]
  /\ UNCHANGED <<place, form, task, temp, made, stores, history>>

ChooseCustom ==
  /\ Editable /\ ~page.locked
  /\ page.net = "listed"
  /\ page' = [page EXCEPT !.net = "custom", !.custom = TRUE, !.connected = FALSE]
  /\ form' = FreshForm
  /\ task' = [t \in Tasks |-> Left(task[t], TRUE)]
  /\ UNCHANGED <<place, temp, made, stores, history>>

\* FormCustomConfig of CreatePage: checkNodeConnectivity, checkNodeIsLive
AskNode ==
  /\ place = "create" /\ ~FormShown
  /\ page.node = "idle"
  /\ page' = [page EXCEPT !.node = "checking"]
  /\ UNCHANGED <<place, form, task, temp, made, stores, history>>

NodeAnswers ==
  /\ place = "create" /\ page.node = "checking"
  /\ \/ page' = [page EXCEPT !.node = "live", !.config = "tested"]
     \/ page' = [page EXCEPT !.node = "dead"]
  /\ UNCHANGED <<place, form, task, temp, made, stores, history>>

CloseNode ==
  /\ place = "create" /\ page.node \in {"live", "dead"}
  /\ page' = [page EXCEPT !.node = "idle"]
  /\ UNCHANGED <<place, form, task, temp, made, stores, history>>

Continue ==
  /\ place = "create" /\ page.node = "live"
  /\ page' = [page EXCEPT !.node = "idle", !.connected = TRUE]
  /\ UNCHANGED <<place, form, task, temp, made, stores, history>>

\* FormCustomConfig of RestorePage: the check of the node, its dialogs and "Continue".
RestoreNode ==
  /\ place = "restore" /\ ~FormShown
  /\ \/ page.node = "idle" /\ page' = [page EXCEPT !.node = "checking"]
     \/ page.node = "checking" /\ page' = [page EXCEPT !.node = "dead"]
     \/ page.node = "checking" /\ page' = [page EXCEPT !.node = "live", !.config = "tested"]
     \/ page.node \in {"live", "dead"} /\ page' = [page EXCEPT !.node = "idle"]
     \/ page.node = "live" /\ page' = [page EXCEPT !.node = "idle", !.connected = TRUE]
  /\ UNCHANGED <<place, form, task, temp, made, stores, history>>

-----------------------------------------------------------------------------
(* Tasks. *)

Under(steps) == {t \in Tasks: task[t].at \in steps}
Unused == Under({"idle"})
FirstUnused == CHOOSE t \in Unused: \A u \in Unused: t <= u

Begin(k) ==
  /\ Unused # {}
  /\ task' = [task EXCEPT ![FirstUnused] = k]

Goto(t, step) == task' = [task EXCEPT ![t].at = step]
End(t) == task' = [task EXCEPT ![t] = Idle]

\* Bound: a check of the Crypto.org app will build a wallet, too.
Room == Cardinality(DOMAIN made) + Cardinality(Under(CroSteps)) < MaxWallets

\* What a task sets on its form.
OnForm(t, f) == form' = IF task[t].here THEN f ELSE form

\* getSelectedNetwork: without a tested configuration the custom network is the
\* placeholder of the list.
Selected(net, config) ==
  IF net = "listed" THEN "listed" ELSE IF config = Nothing THEN "default" ELSE config

Created == Cardinality(DOMAIN made)
Build(kind, config) ==
  made' = [w \in 1 .. Created + 1 |->
             IF w <= Created THEN made[w] ELSE [kind |-> kind, config |-> config]]

Loads(f) == [f EXCEPT !.loading = TRUE, !.forgotten = FALSE]
Stops(f) == [f EXCEPT !.loading = FALSE, !.forgotten = FALSE]

\* onWalletCreateFinishCore reads the form when it starts; a form that is not
\* shown has no values, and without a name it returns.
Readable(k) == k.page /\ place = "create" /\ FormShown /\ page.name

\* ... from the page, or at the end of the Ledger's check.
StartCore(k) ==
  IF Readable(k)
  THEN [k EXCEPT !.at = "create", !.wallet = Created + 1]
  ELSE Idle

AfterStart(k, f) ==
  IF ~k.here THEN form
  ELSE [f EXCEPT !.loading = TRUE, !.forgotten = ~Readable(k)]

BuildIfReadable(k) ==
  IF Readable(k) THEN Build(page.kind, Selected(page.net, k.config))
  ELSE made' = made

Here(step) ==
  [Idle EXCEPT !.at = step, !.here = TRUE, !.page = TRUE, !.config = page.config]

-----------------------------------------------------------------------------
(* FormCreate. *)

\* onWalletCreateFinish
Submit ==
  /\ place = "create" /\ FormShown /\ Free
  /\ page.name /\ ~form.loading
  /\ \/ /\ page.kind = "normal"
        /\ Room
        /\ Begin(StartCore(Here("create")))
        /\ form' = AfterStart(Here("create"), form)
        /\ BuildIfReadable(Here("create"))
     \/ /\ page.kind = "ledger"
        /\ form' = [form EXCEPT !.dialogs = {"cro"}, !.croOk = FALSE]
        /\ UNCHANGED <<task, made>>
  /\ UNCHANGED <<place, page, temp, stores, history>>

\* The Connect button of the dialog for the Crypto.org app.
ConnectCro ==
  /\ "cro" \in form.dialogs
  /\ ~form.croOk /\ ~form.connecting
  /\ Room
  /\ Begin(Here("cro500"))
  /\ form' = [form EXCEPT !.connecting = TRUE]
  /\ UNCHANGED <<place, page, temp, made, stores, history>>

\* The Connect button of the dialog for the Ethereum app.
ConnectEth ==
  /\ "eth" \in form.dialogs
  /\ ~form.ethOk /\ ~form.connecting
  /\ Begin([Here("eth500") EXCEPT !.late = Under({"hold"}) # {}])
  /\ form' = [form EXCEPT !.connecting = TRUE]
  /\ UNCHANGED <<place, page, temp, made, stores, history>>

\* handleCroCancel, handleErrorCancel: nothing that is under way stops.
CloseDialog ==
  /\ \E d \in form.dialogs \cap {"cro", "error"}:
       form' = [form EXCEPT !.dialogs = @ \ {d}]
  /\ place \in {"create", "restore"}
  /\ UNCHANGED <<place, page, task, temp, made, stores, history>>

\* handleEthCancel
CloseEth ==
  /\ "eth" \in form.dialogs
  /\ form' = [form EXCEPT !.dialogs = @ \ {"eth"}]
  /\ UNCHANGED <<place, page, task, temp, made, stores, history>>

\* checkIsLedgerCroAppConnected, 500 ms after the click.
CheckCro(t) ==
  \/ /\ task[t].at = "cro500"
     /\ OnForm(t, Loads(form))
     /\ Goto(t, "croAsk")
     /\ UNCHANGED made
  \/ /\ task[t].at = "croAsk"
     /\ \E ok \in BOOLEAN:
          /\ OnForm(t, [form EXCEPT !.croOk = ok])
          /\ Goto(t, IF ok THEN "croShown" ELSE "croFailed")
     /\ UNCHANGED made
  \/ /\ task[t].at = "croFailed"
     /\ OnForm(t, [Stops(form) EXCEPT !.dialogs = @ \ {"cro"}, !.connecting = FALSE])
     /\ End(t)
     /\ UNCHANGED made
  \/ /\ task[t].at = "croShown"
     /\ OnForm(t, [form EXCEPT !.dialogs = @ \ {"cro"}, !.connecting = FALSE])
     /\ Goto(t, "croDone")
     /\ UNCHANGED made
  \/ /\ task[t].at = "croDone"
     /\ task' = [task EXCEPT ![t] = StartCore(task[t])]
     /\ form' = AfterStart(task[t], form)
     /\ BuildIfReadable(task[t])

CroStep(t) ==
  /\ CheckCro(t)
  /\ UNCHANGED <<place, page, temp, stores, history>>

\* checkIsLedgerEthAppConnected, 500 ms after the click: an app that answers
\* leaves the spinner to the creation, which may have failed by then.
Working == {t \in Under(CoreSteps): task[t].here} # {}

CheckEth(t) ==
  \/ /\ task[t].at = "eth500"
     /\ form' = [form EXCEPT !.loading = TRUE, !.forgotten = ~Working]
     /\ Goto(t, "ethAsk")
  \/ /\ task[t].at = "ethAsk"
     /\ \E ok \in BOOLEAN:
          /\ form' = [form EXCEPT !.ethOk = ok]
          /\ Goto(t, IF ok THEN "ethShown" ELSE "ethFailed")
  \/ /\ task[t].at = "ethShown"
     /\ form' = [form EXCEPT !.connecting = FALSE]
     /\ End(t)
  \/ /\ task[t].at = "ethFailed"
     /\ form' = [Stops(form) EXCEPT !.dialogs = @ \ {"eth"}, !.connecting = FALSE]
     /\ End(t)

EthStep(t) ==
  /\ CheckEth(t)
  /\ UNCHANGED <<place, page, temp, made, stores, history>>

-----------------------------------------------------------------------------
(* The creation itself, onWalletCreateFinishCore. *)

Kind(t) == made[task[t].wallet].kind

(* mutant: the spinner is left to the dialog *)
FailedLoading(f) == [f EXCEPT !.croOk = FALSE, !.ethOk = FALSE,
                              !.dialogs = @ \union {"error"}]

\* The catch.  The dialog for the Ethereum app stays.
Failed(f) == [Stops(f) EXCEPT !.croOk = FALSE, !.ethOk = FALSE,
                              !.dialogs = @ \union {"error"}]

Fail(t) ==
  /\ OnForm(t, Failed(form))
  /\ End(t)

\* A configuration no address can be derived from, a Ledger that does not answer.
CanFail(t) ==
  \/ task[t].at = "create" /\ made[task[t].wallet].config # "listed"
  \/ task[t].at \in {"croAddress", "ethAddress"}

Derive(t) ==
  \/ /\ task[t].at = "create"
     /\ Goto(t, IF Kind(t) = "ledger" THEN "croAddress" ELSE "assets")
     /\ UNCHANGED form
  \/ /\ task[t].at = "croAddress"
     /\ OnForm(t, [form EXCEPT !.dialogs = @ \union {"eth"}])
     /\ Goto(t, "wait")
  \/ /\ task[t].at = "wait"             \* until a click (waitFlag), or 60 s
     /\ Goto(t, "ethAddress")
     /\ UNCHANGED form
  \/ /\ task[t].at = "ethAddress"
     /\ OnForm(t, [form EXCEPT !.ethOk = TRUE])
     /\ Goto(t, "hold")
  \/ /\ task[t].at = "hold"             \* 3 s
     /\ \A u \in Under({"eth500"}): task[u].late    \* 500 ms pass before them
     /\ OnForm(t, [form EXCEPT !.dialogs = @ \ {"eth"}])
     /\ Goto(t, "assets")

DeriveStep(t) ==
  /\ \/ Derive(t)
     \/ CanFail(t) /\ Fail(t)
  /\ UNCHANGED <<place, page, temp, made, stores, history>>

\* resetFields, on the form of the page: the choice of the network stays open.
Reset(p) == [p EXCEPT !.name = FALSE, !.kind = "normal", !.net = "listed"]

Finish(t) ==
  /\ task[t].at = "assets"
  /\ saved' = saved \union {task[t].wallet}
  /\ temp' = task[t].wallet
  /\ OnForm(t, [Stops(form) EXCEPT !.wallet = task[t].wallet, !.croOk = FALSE,
                                   !.ethOk = FALSE,
                                   !.dialogs = @ \union {"success"}])
  /\ page' = IF task[t].page THEN Reset(page) ELSE page
  /\ strays' = IF task[t].here THEN strays ELSE strays \union {task[t].wallet}
  /\ End(t)
  /\ UNCHANGED <<place, made, stored, told, visits>>

-----------------------------------------------------------------------------
(* From the success to the stored wallet. *)

(* mutant: the backup page takes the wallet it finds *)
WalletFound(w) == temp

\* BackupPage shows the wallet the creation has left in walletTempBackupState, if
\* it is the one of walletIdentifierState, the wallet just confirmed.
WalletMeant(w) == IF temp = w THEN w ELSE Nothing

BackUp(w) ==
  /\ place' = "backup"
  /\ page' = [FreshPage EXCEPT !.wallet = WalletMeant(w)]
  /\ form' = [FreshForm EXCEPT
                !.dialogs = IF WalletMeant(w) = Nothing THEN {"error"} ELSE {}]
  /\ task' = [t \in Tasks |-> Left(task[t], FALSE)]

\* handleOk, handleCancel of the success dialog, and CreatePage's effect on the
\* identifier.
Confirm ==
  /\ place = "create"
  /\ "success" \in form.dialogs
  /\ told' = told \union {form.wallet}
  /\ IF made[temp].kind = "ledger"
     THEN /\ page' = [page EXCEPT !.wallet = temp, !.password = TRUE]
          /\ form' = [form EXCEPT !.dialogs = @ \ {"success"}]
          /\ UNCHANGED <<place, task>>
     ELSE BackUp(form.wallet)
  /\ UNCHANGED <<temp, made, stores, strays, visits>>

\* handleErrorCancel of BackupPage
BackToCreate ==
  /\ place = "backup"
  /\ "error" \in form.dialogs
  /\ Leave("create")
  /\ UNCHANGED <<task, temp, made, stores, history>>

\* The phrase has been written down; a restored wallet is submitted.
AskPassword ==
  /\ Free
  /\ \/ place = "backup"
     \/ place = "restore" /\ FormShown /\ page.name
  /\ page' = [page EXCEPT !.password = TRUE]
  /\ UNCHANGED <<place, form, task, temp, made, stores, history>>

CancelPassword ==
  /\ page.password
  /\ page' = [page EXCEPT !.password = FALSE]
  /\ UNCHANGED <<place, form, task, temp, made, stores, history>>

\* onWalletBackupFinish of CreatePage and of BackupPage
StoreWallet ==
  /\ place \in {"create", "backup"}
  /\ page.password /\ ~page.going
  /\ page.wallet # Nothing
  /\ page' = [page EXCEPT !.going = TRUE]
  /\ Begin([Here(IF place = "backup" THEN "storeAndForget" ELSE "store")
              EXCEPT !.wallet = page.wallet])
  /\ UNCHANGED <<place, form, temp, made, stores, history>>

\* onWalletImportFinish
Restore ==
  /\ place = "restore" /\ FormShown
  /\ page.password /\ ~form.loading
  /\ Room
  /\ form' = Loads(form)
  /\ Build("normal", Selected(page.net, page.config))
  /\ Begin([Here("restore") EXCEPT !.wallet = Created + 1])
  /\ UNCHANGED <<place, page, temp, stores, history>>

\* ... an error leaves its button loading.
Import(t) ==
  /\ task[t].at = "restore"
  /\ \/ /\ saved' = saved \union {task[t].wallet}
        /\ told' = told \union {task[t].wallet}
        /\ Goto(t, "store")
        /\ UNCHANGED form
     \/ /\ made[task[t].wallet].config # "listed"
        /\ OnForm(t, [form EXCEPT !.dialogs = @ \union {"error"}, !.forgotten = TRUE])
        /\ End(t)
        /\ UNCHANGED <<saved, told>>
  /\ UNCHANGED <<place, page, temp, made, stored, strays, visits>>

\* encryptWalletAndSetSession, then home, whatever page is open by then; the
\* backup page forgets the phrase.
Store(t) ==
  /\ task[t].at \in {"store", "storeAndForget"}
  /\ stored' = stored \union {task[t].wallet}
  /\ temp' = IF task[t].at = "storeAndForget" THEN Nothing ELSE temp
  /\ Leave("lobby")
  /\ task' = [u \in Tasks |-> IF u = t THEN Idle ELSE Left(task[u], FALSE)]
  /\ UNCHANGED <<made, saved, history>>

-----------------------------------------------------------------------------
TaskStep(t) ==
  CroStep(t) \/ EthStep(t) \/ DeriveStep(t) \/ Finish(t) \/ Import(t) \/ Store(t)

WalletNext ==
  \/ \E p \in {"create", "restore"}: Open(p)
  \/ Back \/ TypeName \/ TickLedger \/ ChooseListed \/ ChooseCustom
  \/ AskNode \/ NodeAnswers \/ CloseNode \/ Continue \/ RestoreNode
  \/ Submit \/ ConnectCro \/ ConnectEth \/ CloseDialog \/ CloseEth
  \/ Confirm \/ BackToCreate \/ AskPassword \/ CancelPassword
  \/ StoreWallet \/ Restore
  \/ \E t \in Tasks: TaskStep(t)

WalletSpec ==
  WalletInit /\ [][WalletNext]_walletVars /\ \A t \in Tasks: WF_walletVars(TaskStep(t))

-----------------------------------------------------------------------------
(* Properties. *)

WalletTypeOK ==
  /\ place \in {"lobby", "create", "backup", "restore"}
  /\ page \in [custom: BOOLEAN, connected: BOOLEAN, config: {Nothing, "tested"},
               node: {"idle", "checking", "live", "dead"}, name: BOOLEAN,
               kind: WalletKinds, net: {"listed", "custom"}, locked: BOOLEAN,
               wallet: Ids \union {Nothing}, password: BOOLEAN, going: BOOLEAN]
  /\ form \in [loading: BOOLEAN, forgotten: BOOLEAN, dialogs: SUBSET Dialogs,
               connecting: BOOLEAN, croOk: BOOLEAN, ethOk: BOOLEAN,
               wallet: Ids \union {Nothing}]
  /\ \A t \in Tasks:
       /\ task[t].at \in {"idle"} \union CroSteps \union CoreSteps
                         \union EthSteps \union StoreSteps
       /\ task[t].at \in CoreSteps \union StoreSteps => task[t].wallet \in DOMAIN made
       /\ task[t].here => task[t].page
  /\ temp \in DOMAIN made \union {Nothing}
  /\ DOMAIN made \subseteq Ids
  /\ \A w \in DOMAIN made: made[w].kind \in WalletKinds /\ made[w].config \in Configs
  /\ saved \subseteq DOMAIN made /\ stored \subseteq DOMAIN made
  /\ told \subseteq DOMAIN made /\ strays \subseteq DOMAIN made

\* Whatever creations overlap, and whatever pages are left in between: a wallet
\* that is stored is one whose creation the user has been told of, its assets were
\* stored before it, and a wallet of the custom network has the configuration
\* whose node has answered.  Excepted is a Ledger wallet finished by a form that
\* was gone: CreatePage asks the password for the last wallet left.
StoredAsAnnounced ==
  \A w \in stored:
    /\ w \in saved
    /\ \/ w \in told /\ made[w].config # "default"
       \/ w \in strays /\ made[w].kind = "ledger"

\* The spinner of the button that creates or restores ends, unless the form is
\* read when it has no name any more, the check of the Ethereum app starts after
\* the creation has failed, or the import fails.
SpinnerStops == form.loading /\ ~form.forgotten ~> ~form.loading \/ form.forgotten

=============================================================================
