--------------------------- MODULE TransactionSend ---------------------------
(***************************************************************************)
(* From the form of a transaction to the dialog that tells the user what   *)
(* has become of it: the forms of the pages, TransactionSenderService,     *)
(* TransactionPrepareService, the signers and NodeRpcService.broadcast-    *)
(* Transaction, against a chain that takes, includes, fails and drops      *)
(* transactions on its own.                                                *)
(*                                                                         *)
(* One kind of transaction is looked at per behaviour.  A handler is one   *)
(* click on "Confirm"; it works on through its awaits whatever the user    *)
(* does meanwhile, reads the session once or twice on its way, and shows   *)
(* its result if its page is still there.                                  *)
(***************************************************************************)
EXTENDS SendFlows, Naturals

CONSTANTS
  Wallets,
  Ledgers,      \* the wallets whose key is on a Ledger
  DeviceFirst,  \* the account of the Ledger's first address, a wallet's or nobody's
  Repeated,     \* bound: the kinds "Confirm" is clicked again for, else it is once
  MaxClicks,    \* bound: how often it is clicked for them
  NoWallet,
  MaxSequence   \* bound: how many transactions are included

ASSUME ConstantsAssumption ==
  /\ Ledgers \subseteq Wallets
  /\ NoWallet \notin Wallets \cup {DeviceFirst}
  /\ MaxClicks \in Nat \ {0}
  /\ MaxSequence \in Nat

Handlers == 1..MaxClicks

Accounts == Wallets \cup {DeviceFirst}

VARIABLES
  kind,       \* what is being sent
  session,    \* wallet of the one document of sessionStore
  page,       \* the wallet the page was opened for, NoWallet if it is closed
  mount,      \* which opening of the page it is: the clicks before it
  view,       \* what is open on it: the form, the password, the confirmation
  dialog,     \* which confirmation is shown: the clicks before it
  busy,       \* confirmLoading
  box,        \* the result that is shown
  job,        \* job[h]: how far the handler is and what it has read
  known,      \* isDenomIdIssued
  checking,   \* getDenomIdData has not answered yet
  contacts,   \* how often the address is in the address book
  sequence,   \* sequence[w]: number of transactions of the account w in blocks
  pool,       \* transactions that wait for a block
  blocks,     \* transactions in blocks
  denom,      \* whether the denom has been issued
  seen,       \* seen[w][l]: transactions the saved list shows
  twice       \* history: "Confirm" was clicked again while a contact was saved

vars == <<kind, session, page, mount, view, dialog, busy, box, job, known,
          checking, contacts, sequence, pool, blocks, denom, seen, twice>>

screen == <<page, mount, view, dialog, box, known, checking>>
chain == <<sequence, pool, blocks, denom>>

Steps == {"idle", "find", "add", "first", "second", "account", "signing", "before", "sign",
          "broadcast", "poll", "after", "show", "over"}

\* stage 1 issues the denom of an NFT, stage 2 is the transaction itself.
\* moved, overtaken, lost: history; the user has switched wallets on its way, another
\* transaction of the account came between, the application has not learnt what
\* became of a transaction the node has taken.
NoJob == [pc |-> "idle", dialog |-> 0, mount |-> 0, wallet |-> NoWallet,
          first |-> NoWallet, second |-> NoWallet, number |-> 0, stage |-> 2,
          result |-> "none", told |-> "none", moved |-> FALSE, overtaken |-> FALSE,
          lost |-> FALSE, refused |-> FALSE, answered |-> FALSE]

Tx(h, payer) == [by |-> h, stage |-> job[h].stage, payer |-> payer,
                 number |-> job[h].number]

Init ==
  /\ kind \in Kinds
  /\ session \in Wallets
  /\ page = NoWallet
  /\ mount = 0
  /\ view = "form"
  /\ dialog = 0
  /\ busy = FALSE
  /\ box = "none"
  /\ job = [h \in Handlers |-> NoJob]
  /\ known = FALSE
  /\ checking = FALSE
  /\ contacts = 0
  /\ sequence = [w \in Accounts |-> 0]
  /\ pool = {}
  /\ blocks = {}
  /\ denom \in (IF kind = "mint" THEN BOOLEAN ELSE {FALSE})
  /\ seen = [w \in Wallets |-> [l \in Lists |-> {}]]
  /\ twice = FALSE

Form == FormOf(kind)

Dialog == DialogOf(kind)

Flow(h) == FlowOf(IF job[h].stage = 1 THEN "issue" ELSE kind)

Clicked == {h \in Handlers : job[h].pc # "idle"}

MayClick == Cardinality(Clicked) < (IF kind \in Repeated THEN MaxClicks ELSE 1)

Running(h) == job[h].pc \notin {"idle", "over"}

-----------------------------------------------------------------------------
(* The user *)

OpenPage ==
  /\ page = NoWallet
  /\ MayClick
  /\ page' = session
  /\ mount' = Cardinality(Clicked)
  /\ view' = "form"
  /\ box' = "none"
  /\ busy' = FALSE
  /\ known' = FALSE
  /\ checking' = FALSE
  /\ UNCHANGED <<kind, session, dialog, job, contacts, chain, seen, twice>>

\* Dialogs cover the menu.
LeavePage ==
  /\ page # NoWallet
  /\ view = "form" /\ box = "none"
  /\ page' = NoWallet
  /\ busy' = FALSE
  /\ UNCHANGED <<kind, session, mount, view, dialog, box, job, known,
                 checking, contacts, chain, seen, twice>>

\* On the page of the wallets.  Only switches a handler can notice, one for each.
SwitchWallet(w) ==
  /\ page = NoWallet
  /\ w # session
  /\ \E h \in Handlers : Running(h) /\ ~job[h].moved
  /\ session' = w
  /\ job' = [h \in Handlers |-> IF Running(h) THEN [job[h] EXCEPT !.moved = TRUE]
                                ELSE job[h]]
  /\ UNCHANGED <<kind, screen, busy, contacts, chain, seen, twice>>

\* showConfirmationModal; the form for a new NFT asks for its denom meanwhile.
ShowConfirmation ==
  /\ view' = "confirm"
  /\ dialog' = Cardinality(Clicked)
  /\ checking' = (kind = "mint")
  /\ UNCHANGED <<page, mount, box, known>>

\* A Ledger needs no password.
Submit ==
  /\ page # NoWallet
  /\ view = "form" /\ box = "none"
  /\ MayClick
  /\ IF page \in Ledgers
     THEN ShowConfirmation
     ELSE view' = "password" /\ UNCHANGED <<page, mount, dialog, box, known, checking>>
  /\ UNCHANGED <<kind, session, busy, job, contacts, chain, seen, twice>>

Decrypted ==
  /\ view = "password" /\ page # NoWallet
  /\ ShowConfirmation
  /\ UNCHANGED <<kind, session, busy, job, contacts, chain, seen, twice>>

CancelPassword ==
  /\ view = "password" /\ page # NoWallet
  /\ view' = "form"
  /\ UNCHANGED <<kind, session, page, mount, dialog, box, known, checking,
                 busy, job, contacts, chain, seen, twice>>

DenomAnswered ==
  /\ checking
  /\ known' = denom
  /\ checking' = FALSE
  /\ UNCHANGED <<kind, session, page, mount, view, dialog, box, busy, job,
                 contacts, chain, seen, twice>>

Cancel ==
  /\ page # NoWallet
  /\ view = "confirm" /\ box = "none"
  /\ Dialog.cancel \/ ~busy
  /\ view' = "form"
  /\ UNCHANGED <<kind, session, page, mount, dialog, box, known, checking,
                 busy, job, contacts, chain, seen, twice>>

\* Where a handler starts.
Started(h, busyNow) ==
  /\ page # NoWallet
  /\ view = "confirm" /\ box = "none"
  /\ MayClick /\ h = Cardinality(Clicked) + 1
  /\ job' = [job EXCEPT ![h] =
       [NoJob EXCEPT !.pc = IF Form.saves /\ ~busyNow THEN "find" ELSE "first",
                     !.dialog = dialog, !.mount = mount, !.wallet = page,
                     !.stage = IF kind = "mint" /\ ~known THEN 1 ELSE 2]]
  /\ twice' = (twice \/ \E g \in Handlers : job[g].pc \in {"find", "add"})
  /\ UNCHANGED <<kind, session, screen, contacts, chain, seen>>

\* mutant: the button can be clicked while the transaction is being sent
ClickAnyway(h) ==
  /\ Started(h, ~Form.saves)
  /\ busy' = (busy \/ ~Form.saves)

\* The button spins as soon as it is clicked, on the form for sending only once the
\* contact has been saved; a contact that was chosen from the book is not saved.
Click(h) ==
  /\ ~busy
  /\ \E spins \in (IF Form.saves THEN BOOLEAN ELSE {TRUE}) :
       /\ Started(h, spins)
       /\ busy' = spins

Dismiss ==
  /\ box # "none"
  /\ box' = "none"
  /\ UNCHANGED <<kind, session, page, mount, view, dialog, known, checking,
                 busy, job, contacts, chain, seen, twice>>

-----------------------------------------------------------------------------
(* A handler on its way to the node *)

To(h, pc) == job' = [job EXCEPT ![h].pc = pc]

Here(h) == page # NoWallet /\ job[h].mount = mount

\* Saving is over: the form spins, if it is still there.
Spin(h) == busy' = (busy \/ Here(h))

\* autoAddAddressBookContact: look for the contact, count the others, insert it.
FindContact(h) ==
  /\ job[h].pc = "find"
  /\ IF contacts > 0
     THEN To(h, "first") /\ Spin(h)
     ELSE To(h, "add") /\ UNCHANGED busy
  /\ UNCHANGED <<kind, session, screen, contacts, chain, seen, twice>>

AddContact(h) ==
  /\ job[h].pc = "add"
  /\ contacts' = contacts + 1
  /\ To(h, "first")
  /\ Spin(h)
  /\ UNCHANGED <<kind, session, screen, chain, seen, twice>>

\* The sending function's own reading, for the functions that have one; transactions
\* for an EVM node are prepared for the asset of the page and need no other.
ReadSession(h) ==
  /\ job[h].pc = "first"
  /\ job' = [job EXCEPT ![h].first = IF Flow(h).first THEN session ELSE NoWallet,
                        ![h].pc = IF Flow(h).node = "evm" THEN "account" ELSE "second"]
  /\ UNCHANGED <<kind, session, screen, busy, contacts, chain, seen, twice>>

PrepareTransaction(h) ==
  /\ job[h].pc = "second"
  /\ job' = [job EXCEPT ![h].second = session,
                        ![h].first = IF Flow(h).first THEN @ ELSE session,
                        ![h].pc = "account"]
  /\ UNCHANGED <<kind, session, screen, busy, contacts, chain, seen, twice>>

Pooled(w) == {t \in pool : t.payer = w}

\* Whose account number and sequence the transaction gets.
Account(h) == IF Flow(h).node = "evm" THEN job[h].wallet ELSE job[h].second

\* A Tendermint node answers with the sequence of the last block, an EVM node counts
\* the transactions that wait as well.
ReadAccount(h) ==
  /\ job[h].pc = "account"
  /\ job' = [job EXCEPT
       ![h].number = sequence[Account(h)] +
         (IF Flow(h).node = "evm" THEN Cardinality(Pooled(Account(h))) ELSE 0),
       ![h].overtaken = @ \/ Pooled(Account(h)) # {},
       ![h].pc = IF Flow(h).index = "signing" THEN "signing" ELSE "sign"]
  /\ UNCHANGED <<kind, session, screen, busy, contacts, chain, seen, twice>>

-----------------------------------------------------------------------------
(* Signing: by the phrase the page has decrypted, or by the Ledger with the path of
   the wallet of a session the handler has read *)

\* signContractCallTransaction reads the session when everything is prepared.
ReadSigner(h) ==
  /\ job[h].pc = "signing"
  /\ job' = [job EXCEPT ![h].second = session, ![h].pc = "sign"]
  /\ UNCHANGED <<kind, session, screen, busy, contacts, chain, seen, twice>>

\* The reading that names the wallet on the device.
Signer(h) == IF Flow(h).index = "first" THEN job[h].first ELSE job[h].second

\* For EVM assets it also says whether there is a device, otherwise the page does.
OnLedger(h) ==
  IF Flow(h).node = "evm" THEN Signer(h) \in Ledgers ELSE job[h].wallet \in Ledgers

\* mutant: every wallet is asked for by index 0
DeviceAtZero(w) == DeviceFirst

\* The device signs for an index; a wallet with a phrase has index 0.
Device(w) == IF w \in Ledgers THEN w ELSE DeviceFirst

Key(h) == IF OnLedger(h) THEN Device(Signer(h)) ELSE job[h].wallet

Fails(h) == job' = [job EXCEPT ![h].result = "error", ![h].pc = "show"]

\* There is a phrase to sign with, or a Ledger.
CanSign(h) == OnLedger(h) \/ job[h].wallet \notin Ledgers

Sign(h) ==
  /\ job[h].pc = "sign"
  /\ CanSign(h)
  /\ To(h, IF Flow(h).before # {} THEN "before" ELSE "broadcast")
  /\ UNCHANGED <<kind, session, screen, busy, contacts, chain, seen, twice>>

\* The device is not there, locked, in another application, or the user declines.
SignFails(h) ==
  /\ job[h].pc = "sign"
  /\ OnLedger(h) \/ ~CanSign(h)
  /\ Fails(h)
  /\ UNCHANGED <<kind, session, screen, busy, contacts, chain, seen, twice>>

-----------------------------------------------------------------------------
(* The node and the chain *)

From(h) ==
  CASE Flow(h).from = "first"  -> job[h].first
    [] Flow(h).from = "second" -> job[h].second
    [] Flow(h).from = "page"   -> job[h].wallet
    [] Flow(h).from = "key"    -> IF OnLedger(h) THEN job[h].first ELSE Key(h)

\* An EVM node learns who pays from the signature and keeps what is to come later; a
\* Tendermint node wants the sequence that is next after what it has taken already.
Takes(h) ==
  IF Flow(h).node = "evm"
  THEN /\ job[h].number >= sequence[Key(h)]
       /\ \A t \in Pooled(Key(h)) : t.number # job[h].number
  ELSE /\ From(h) = Key(h)
       /\ Account(h) = Key(h)
       /\ job[h].number = sequence[Key(h)] + Cardinality(Pooled(Key(h)))

\* The transaction overtakes the others that are about to be sent for the account.
Overtakes(h, g) ==
  /\ g # h
  /\ job[g].pc \in {"signing", "sign", "before", "broadcast"}
  /\ Account(g) = Key(h)

\* The node takes the transaction; the answer may be lost on its way.
Accepted(h) ==
  /\ job[h].pc = "broadcast"
  /\ Takes(h)
  /\ pool' = pool \cup {Tx(h, Key(h))}
  /\ \E lost \in BOOLEAN :
       job' = [g \in Handlers |->
         IF g = h
         THEN [job[h] EXCEPT
                 !.lost = @ \/ lost,
                 !.result = IF lost THEN "error"
                            ELSE IF Flow(h).node = "evm" THEN "hash" ELSE "none",
                 !.pc = IF lost THEN "show"
                        ELSE IF Flow(h).node = "evm" THEN "after" ELSE "poll"]
         ELSE [job[g] EXCEPT !.overtaken = @ \/ Overtakes(h, g)]]
  /\ UNCHANGED <<kind, session, screen, busy, contacts, sequence, blocks,
                 denom, seen, twice>>

Refused(h) ==
  /\ job[h].pc = "broadcast"
  /\ ~Takes(h)
  /\ job' = [job EXCEPT ![h].result = "error", ![h].refused = TRUE, ![h].pc = "show"]
  /\ UNCHANGED <<kind, session, screen, busy, contacts, chain, seen, twice>>

\* A transaction runs in a block, or fails in it.
Include(t) ==
  /\ t \in pool
  /\ t.number = sequence[t.payer]
  /\ sequence[t.payer] < MaxSequence
  /\ \E ok \in BOOLEAN :
       /\ ok /\ t.stage = 1 => ~denom
       /\ ok /\ kind = "mint" /\ t.stage = 2 => denom
       /\ blocks' = blocks \cup {[tx |-> t, ok |-> ok]}
       /\ denom' = (denom \/ (ok /\ t.stage = 1))
  /\ pool' = pool \ {t}
  /\ sequence' = [sequence EXCEPT ![t.payer] = @ + 1]
  /\ UNCHANGED <<kind, session, screen, busy, job, contacts, seen, twice>>

Drop(t) ==
  /\ t \in pool
  /\ pool' = pool \ {t}
  /\ UNCHANGED <<kind, session, screen, busy, job, contacts, sequence, blocks,
                 denom, seen, twice>>

InBlock(h, ok) ==
  \E b \in blocks : b.tx.by = h /\ b.tx.stage = job[h].stage /\ b.ok = ok

\* mutant: a transaction that has failed in its block counts as sent
PollAnyResult(h) ==
  /\ job[h].pc = "poll"
  /\ InBlock(h, TRUE) \/ InBlock(h, FALSE)
  /\ job' = [job EXCEPT ![h].result = "hash", ![h].pc = "after"]
  /\ UNCHANGED <<kind, session, screen, busy, contacts, chain, seen, twice>>

\* The client asks for the transaction until it is in a block.
Poll(h) ==
  /\ job[h].pc = "poll"
  /\ \/ /\ InBlock(h, TRUE)
        /\ job' = [job EXCEPT ![h].result = "hash", ![h].pc = "after"]
     \/ InBlock(h, FALSE) /\ Fails(h)
  /\ UNCHANGED <<kind, session, screen, busy, contacts, chain, seen, twice>>

\* An error on the way, or the client gives up after a minute.  Only the node's own
\* text for a timeout becomes a result, anything else is thrown.
PollFails(h) ==
  /\ job[h].pc = "poll"
  /\ \/ job' = [job EXCEPT ![h].result = "timeout", ![h].lost = TRUE, ![h].pc = "after"]
     \/ job' = [job EXCEPT ![h].result = "error", ![h].lost = TRUE, ![h].pc = "show"]
  /\ UNCHANGED <<kind, session, screen, busy, contacts, chain, seen, twice>>

-----------------------------------------------------------------------------
(* What is refreshed, and what the user is told *)

Done == {b.tx : b \in {c \in blocks : c.ok}}

\* What the saved lists of a wallet show once a refresh has been answered.
Refreshed(w, lists) ==
  seen' = [seen EXCEPT ![w] = [l \in Lists |->
    IF l \in lists
    THEN {t \in Done : t.payer = w /\ t.stage = 2
                        /\ l \in Changes(Messages(kind, w \in Ledgers))}
    ELSE @[l]]]

RefreshBefore(h) ==
  /\ job[h].pc = "before"
  /\ \E answered \in BOOLEAN :
       /\ Refreshed(job[h].first, IF answered THEN Flow(h).before ELSE {})
       /\ job' = [job EXCEPT ![h].answered = answered, ![h].pc = "broadcast"]
  /\ UNCHANGED <<kind, session, screen, busy, contacts, chain, twice>>

\* After the denom has been issued the NFT is minted, whatever the node has said.
Mints(h) == [job[h] EXCEPT !.stage = 2, !.result = "none", !.pc = "first"]

RefreshAfter(h) ==
  /\ job[h].pc = "after"
  /\ \E answered \in BOOLEAN :
       /\ Refreshed(job[h].first, IF answered THEN Flow(h).after ELSE {})
       /\ job' = IF job[h].stage = 1
            THEN [job EXCEPT ![h] = Mints(h)]
            ELSE [job EXCEPT ![h].answered = @ \/ answered, ![h].pc = "show"]
  /\ UNCHANGED <<kind, session, screen, busy, contacts, chain, twice>>

Tells(h) ==
  CASE job[h].result = "error"                         -> "error"
    [] job[h].result = "timeout" /\ Form.silent        -> "none"
    [] job[h].result = "timeout" /\ ~Form.silent /\ Dialog.tells -> "timeout"
    [] OTHER                                           -> "success"

\* mutant: what is not told is not ended either
EndsWithBox(h) == Tells(h) # "none"

\* The button stops spinning whatever the result.
Ends(h) == TRUE

ClosesDialog(h) ==
  \/ job[h].result = "hash"
  \/ job[h].result = "timeout" /\ ~Form.silent
  \/ job[h].result = "error" /\ ~Form.stays

\* What a handler has read does not matter any more.
Over(h) == [job[h] EXCEPT !.pc = "over", !.first = NoWallet, !.second = NoWallet,
                          !.number = 0]

Show(h) ==
  /\ job[h].pc = "show"
  /\ job' = [job EXCEPT ![h] = [Over(h) EXCEPT !.told = Tells(h)]]
  /\ IF Here(h)
     THEN /\ busy' = (busy /\ ~Ends(h))
          /\ box' = IF Tells(h) = "none" THEN box ELSE Tells(h)
          /\ view' = IF ClosesDialog(h) THEN "form" ELSE view
     ELSE UNCHANGED <<busy, box, view>>
  /\ UNCHANGED <<kind, session, page, mount, dialog, known, checking,
                 contacts, chain, seen, twice>>

HandlerStep(h) ==
  \/ FindContact(h) \/ AddContact(h) \/ ReadSession(h) \/ PrepareTransaction(h)
  \/ ReadAccount(h) \/ ReadSigner(h) \/ Sign(h) \/ SignFails(h)
  \/ Accepted(h) \/ Refused(h) \/ Poll(h) \/ PollFails(h)
  \/ RefreshBefore(h) \/ RefreshAfter(h) \/ Show(h)

Next ==
  \/ OpenPage \/ LeavePage \/ Submit \/ Decrypted \/ CancelPassword \/ Cancel
  \/ DenomAnswered \/ Dismiss
  \/ \E w \in Wallets : SwitchWallet(w)
  \/ \E h \in Handlers : Click(h) \/ HandlerStep(h)
  \/ \E t \in pool : Include(t) \/ Drop(t)

\* Every request is answered or fails in the end, and the client gives up polling.
Fairness == \A h \in Handlers : WF_vars(HandlerStep(h))

Spec == Init /\ [][Next]_vars /\ Fairness

-----------------------------------------------------------------------------
TxSet == [by : Handlers, stage : 1..2, payer : Accounts, number : Nat]

JobSet ==
  [pc : Steps, dialog : Nat, mount : Nat, wallet : Wallets \cup {NoWallet},
   first : Wallets \cup {NoWallet}, second : Wallets \cup {NoWallet}, number : Nat,
   stage : 1..2, result : {"none", "hash", "timeout", "error"},
   told : {"none", "success", "timeout", "error"}, moved : BOOLEAN,
   overtaken : BOOLEAN, lost : BOOLEAN, refused : BOOLEAN, answered : BOOLEAN]

TypeOK ==
  /\ kind \in Kinds
  /\ session \in Wallets
  /\ page \in Wallets \cup {NoWallet}
  /\ mount \in Nat /\ dialog \in Nat /\ contacts \in Nat
  /\ view \in {"form", "password", "confirm"}
  /\ {busy, known, checking, denom, twice} \subseteq BOOLEAN
  /\ box \in {"none", "success", "timeout", "error"}
  /\ job \in [Handlers -> JobSet]
  /\ sequence \in [Accounts -> Nat]
  /\ pool \subseteq TxSet
  /\ blocks \subseteq [tx : TxSet, ok : BOOLEAN]
  /\ seen \in [Wallets -> [Lists -> SUBSET TxSet]]

\* The transaction a handler was started for still counts: it waits or has run.
Lives(h) ==
  \/ \E t \in pool : t.by = h /\ t.stage = 2
  \/ \E t \in Done : t.by = h /\ t.stage = 2

\* One confirmation pays at most once, and saves its contact once: a second click only
\* gets through while the form for sending saves the contact, and otherwise the dialog
\* is clicked again only after the user could not be told what had become of the first
\* transaction.
OnePaymentPerDialog ==
  /\ contacts <= 1 \/ twice
  /\ \A g, h \in Handlers :
       g # h /\ job[g].dialog = job[h].dialog /\ Lives(g) /\ Lives(h) =>
         twice \/ job[g].lost \/ job[h].lost

\* "Success" means that the transaction is in a block and has not failed there; an
\* EVM node has only taken it, and the form for a proposal shows any result as one.
\* An error means that it has not run, unless the answer got lost on its way.
ToldTheTruth ==
  \A h \in Handlers :
    /\ job[h].told = "success" =>
         \/ \E t \in Done : t.by = h /\ t.stage = 2
         \/ FlowOf(kind).node = "evm" /\ ~job[h].lost
         \/ ~Dialog.tells /\ job[h].result = "timeout"
    /\ job[h].told = "error" /\ Lives(h) => job[h].lost

\* The one who pays is the wallet the dialog was opened for; a Ledger can be made to
\* pay from another of its accounts by switching wallets while the transaction is sent.
\* And address, number and key are those of one account: the node refuses a transaction
\* only if the user has switched wallets on its way or another transaction of the same
\* account came between.
PaidByTheConfirmed ==
  /\ \A t \in pool \cup {b.tx : b \in blocks} :
       \/ t.payer = job[t.by].wallet
       \/ t.payer \in Ledgers \cup {DeviceFirst} /\ job[t.by].moved
  /\ \A h \in Handlers : job[h].refused => job[h].moved \/ job[h].overtaken

\* Lists the sending function does not refresh: they are as they were until the next
\* sync.  The transaction of an EVM node is not in a block yet when it is refreshed for.
LeftStale ==
  CASE kind \in {"restake", "restakeAll"} -> {"rewards"}
    [] kind \in {"deposit", "proposal"}   -> {"balances"}
    [] kind = "nft"                       -> {"nfts", "nftAccountTxs"}
    [] FlowOf(kind).node = "evm"          -> Lists
    [] OTHER                              -> {}

\* The handler's refresh was answered and the lists show its transaction.
Shown(h, lists) ==
  job[h].told = "success" /\ job[h].result = "hash" /\ job[h].answered /\ ~job[h].moved
  => \A t \in Done : t.by = h /\ t.stage = 2 =>
       \A l \in lists \cap Changes(Messages(kind, t.payer \in Ledgers)) :
         t \in seen[t.payer][l]

\* When the user is told of success, the saved lists show what the transaction has
\* changed, but for the lists named in LeftStale, if the node has answered the refresh
\* and the user has not switched wallets meanwhile.
SeenAfterSend == \A h \in Handlers : Shown(h, Lists \ LeftStale)

\* A button that spins stops spinning.
SpinnerStops == busy ~> ~busy

=============================================================================
