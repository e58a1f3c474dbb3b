------------------------------ MODULE LedgerTable ------------------------------
(* The derivation path of a Ledger wallet on the page that creates it: the       *)
(* standard, the index, the paths shown beside them, and the dialog with the     *)
(* table of the Ledger's addresses an index is picked from                       *)
(* (src/src/pages/create/create.tsx and LedgerAddressIndexBalanceTable).  The    *)
(* Ledger and the nodes answer late, and what they answer sets the rows of the   *)
(* table, whatever has been chosen since.                                        *)
(*                                                                               *)
(* Abstracted: ten addresses, listed at a time, are one row, so the row's index  *)
(* is the number of the request; a balance is whether it has been looked up.     *)
EXTENDS Naturals, FiniteSets

CONSTANTS
  Chains,       \* the chains of the dialog
  Evm,          \* those of them with EVM addresses
  NoChain,
  MaxIndex,     \* bound: rows listed
  MaxJobs,      \* bound: answers awaited at once
  MaxLooks      \* bound: chains and standards chosen; a row is selected last

ASSUME TableAssumption ==
  /\ Evm \subseteq Chains
  /\ NoChain \notin Chains
  /\ MaxIndex \in Nat /\ MaxJobs \in Nat /\ MaxLooks \in Nat

VARIABLES
  dialog,      \* isHWModeSelected
  field,       \* the form: derivationPathStandard, addressIndex, the chain
  path,        \* derivationPath: the paths shown
  link,        \* ledgerIsConnectedState, the app, and isLedgerConnected
  raw,         \* ledgerAddressList: the rows listed
  table,       \* state of the table, new whenever a chain is chosen after none
  jobs,        \* answers awaited
  misled,      \* history: a row in order was selected, and another path is used
  upset,       \* history: an answer for an earlier choice has come
  again,       \* history: the first rows have been listed anew
  unsaid,      \* history: the standard was reset with the paths left as they were
  looks

tableVars ==
  <<dialog, field, path, link, raw, table, jobs, misled, upset, again, unsaid, looks>>

Standards == {"bip44", "live"}

\* The Ledger app that has the addresses of a chain.
App(c) == IF c \in Evm THEN "ethereum" ELSE c

(* mutant: the case of the second standard is missing *)
PathWithoutStandard(std, index) == [std |-> "bip44", index |-> index]

\* LedgerSigner.getDerivationPath; the coin in it depends on the chain alone.
PathOf(std, index) == [std |-> std, index |-> index]

FreshField == [std |-> "bip44", index |-> 0, chain |-> NoChain]
FreshTable == [rows |-> {}, start |-> 1, loading |-> FALSE]

TableInit ==
  /\ dialog = FALSE
  /\ field = FreshField
  /\ path = PathOf("bip44", 0)
  /\ link = [app |-> "none", connected |-> FALSE, offer |-> NoChain]
  /\ raw = {}
  /\ table = FreshTable
  /\ jobs = {}
  /\ misled = FALSE
  /\ upset = FALSE /\ again = FALSE /\ unsaid = FALSE
  /\ looks = 0

choice == <<dialog, field, path>>
flags == <<misled, upset, again, unsaid, looks>>

-----------------------------------------------------------------------------
(* What is awaited. *)

Mounted == field.chain # NoChain

Job(what, chain, rows, index) ==
  [what |-> what, chain |-> chain, std |-> field.std, rows |-> rows, index |-> index,
   here |-> TRUE, old |-> FALSE]

\* processLedgerAccountsList, whenever there is another list: the rows are shown
\* once their balances are there.  No rows need no balance, but a Tendermint
\* chain's node is connected to all the same.
Process(rows, chain, awaited, t) ==
  IF rows = {} /\ chain \in Evm
  THEN /\ table' = [t EXCEPT !.rows = {}, !.loading = FALSE]
       /\ jobs' = awaited
  ELSE /\ table' = [t EXCEPT !.loading = TRUE]
       /\ jobs' = awaited \union {Job("balances", chain, rows, 0)}

\* useLedgerStatus: looked at when the app changes, and only then; the list of the
\* chain is asked for once the app is the right one.
SetsApp(app, offer, awaited) ==
  LET right == IF app = link.app THEN link.connected
               ELSE Mounted /\ app = App(field.chain)
  IN /\ link' = [app |-> app, connected |-> right, offer |-> offer]
     /\ jobs' = IF right /\ ~link.connected
                THEN awaited \union {Job("list", field.chain, {}, 0)} ELSE awaited

\* getAddressList, getEthAddressList
Listed(j) == {[chain |-> j.chain, std |-> j.std, index |-> j.index]}

\* What is awaited for an earlier choice of the chain or the standard.
Outdated == {[j EXCEPT !.old = TRUE]: j \in jobs}

\* The table is no longer there: what was awaited for it sets the list of the page.
Dropped == {[j EXCEPT !.here = FALSE]: j \in {k \in Outdated: k.what # "balances"}}

-----------------------------------------------------------------------------
(* The dialog. *)

OpenTable ==
  /\ ~dialog /\ looks < MaxLooks
  /\ dialog' = TRUE
  /\ UNCHANGED <<field, path, link, raw, table, jobs, flags>>

CloseTable ==
  /\ dialog
  /\ dialog' = FALSE
  /\ UNCHANGED <<field, path, link, raw, table, jobs, flags>>

(* mutant: the table goes on listing where it was *)
StartKept(c) == table.start

\* ... the table starts again when the chain has changed.
StartFor(c) == IF c = field.chain THEN table.start ELSE 1

\* onSelect of the address type: the rows are taken away, the Ledger is asked again.
ChooseChain(c) ==
  /\ dialog /\ looks < MaxLooks
  /\ looks' = looks + 1
  /\ field' = [field EXCEPT !.chain = c]
  /\ link' = [app |-> "none", connected |-> FALSE, offer |-> c]
  /\ raw' = {}
  /\ Process({}, c, Outdated, [table EXCEPT !.start = StartFor(c)])
  /\ upset' = FALSE
  /\ again' = (c = field.chain)
  /\ UNCHANGED <<dialog, path, misled, unsaid>>

\* The Connect button of ledgerNotificationWithoutCheck.
ClickConnect ==
  /\ link.offer # NoChain
  /\ jobs' = jobs \union {Job("check", link.offer, {}, 0)}
  /\ UNCHANGED <<choice, link, raw, table, flags>>

\* clickCheckLedger
LedgerChecked(j) ==
  /\ j.what = "check"
  /\ \/ SetsApp(App(j.chain), NoChain, jobs \ {j})
     \/ SetsApp("none", link.offer, jobs \ {j})
  /\ UNCHANGED <<choice, raw, table, flags>>

\* fetchAddressList: the first rows, or an error nothing is done about.
ListAnswers(j) ==
  /\ j.what = "list"
  /\ \/ /\ raw' = Listed(j)
        /\ IF Mounted THEN Process(Listed(j), field.chain, jobs \ {j}, table)
           ELSE jobs' = jobs \ {j} /\ table' = table
        /\ upset' = (upset \/ j.old)
        /\ again' = (again \/ raw # {})
     \/ jobs' = jobs \ {j} /\ UNCHANGED <<raw, table, upset, again>>
  /\ UNCHANGED <<choice, link, misled, unsaid, looks>>

\* Rows of an earlier list may come after those of a later one.
BalancesAnswer(j) ==
  /\ j.what = "balances"
  /\ \/ /\ table' = [table EXCEPT !.rows = j.rows, !.loading = FALSE]
        /\ upset' = (upset \/ j.rows # raw)
     \/ table' = table /\ upset' = TRUE          \* an error: the spinner stays
  /\ jobs' = jobs \ {j}
  /\ UNCHANGED <<choice, link, raw, misled, again, unsaid, looks>>

\* The spinner covers the rows and the button below them.
Usable == dialog /\ Mounted /\ raw # {} /\ ~table.loading

\* Load more: the handler keeps the list and the start it was clicked with ...
ClickMore ==
  /\ Usable
  /\ table.start <= MaxIndex
  /\ table' = [table EXCEPT !.loading = TRUE]
  /\ jobs' = jobs \union {Job("click", field.chain, raw, table.start)}
  /\ UNCHANGED <<choice, link, raw, flags>>

\* ... and 500 ms later the spinner stops when the Ledger is asked, for addresses
\* of the standard the form has by then.
AskMore(j) ==
  /\ j.what = "click"
  /\ table' = IF j.here THEN [table EXCEPT !.loading = FALSE] ELSE table
  /\ jobs' = (jobs \ {j}) \union
               {[Job("more", j.chain, j.rows, j.index) EXCEPT !.here = j.here, !.old = j.old]}
  /\ upset' = (upset \/ j.old)
  /\ UNCHANGED <<choice, link, raw, misled, again, unsaid, looks>>

\* onLoadMoreAddressList: the rows are added to those of the click.
MoreAnswers(j) ==
  /\ j.what = "more"
  /\ \/ LET rows == j.rows \union Listed(j)
            next == IF j.here THEN [table EXCEPT !.start = j.index + 1] ELSE table IN
        /\ raw' = rows
        /\ IF Mounted THEN Process(rows, field.chain, jobs \ {j}, next)
           ELSE jobs' = jobs \ {j} /\ table' = next
        /\ upset' = (upset \/ j.old)
        /\ link' = link
     \/ /\ jobs' = jobs \ {j}
        /\ link' = [link EXCEPT !.offer = j.chain]
        /\ UNCHANGED <<raw, table, upset>>
  /\ UNCHANGED <<choice, misled, again, unsaid, looks>>

\* Select: the index of the row, with the standard of the form.
SelectRow ==
  /\ Usable
  /\ \E r \in table.rows:
       /\ field' = [field EXCEPT !.index = r.index]
       /\ path' = PathOf(field.std, r.index)
       /\ misled' = (misled \/ (~upset /\ path' # [std |-> r.std, index |-> r.index]))
  /\ dialog' = FALSE
  /\ unsaid' = FALSE
  /\ looks' = MaxLooks
  /\ UNCHANGED <<link, raw, table, jobs, upset, again>>

-----------------------------------------------------------------------------
(* The fields behind the dialog. *)

\* onChange of the standard: no chain is chosen any more.
ChooseStandard ==
  /\ ~dialog /\ looks < MaxLooks
  /\ looks' = looks + 1
  /\ \E s \in Standards \ {field.std}:
       /\ field' = [field EXCEPT !.std = s, !.chain = NoChain]
       /\ path' = PathOf(s, field.index)
  /\ raw' = {}
  /\ table' = FreshTable
  /\ jobs' = Dropped
  /\ upset' = FALSE /\ again' = FALSE /\ unsaid' = FALSE
  /\ UNCHANGED <<dialog, link, misled>>

\* onChange of the index
TypeIndex ==
  /\ ~dialog
  /\ \E i \in 0 .. MaxIndex \ {field.index}:
       /\ field' = [field EXCEPT !.index = i]
       /\ path' = PathOf(field.std, i)
  /\ unsaid' = FALSE
  /\ UNCHANGED <<dialog, link, raw, table, jobs, misled, upset, again, looks>>

\* onCheckboxChange: the standard is BIP-44 again, the paths stay.
ResetStandard ==
  /\ field' = [field EXCEPT !.std = "bip44"]
  /\ upset' = (upset \/ field.std # "bip44")
  /\ unsaid' = (unsaid \/ field.std # "bip44")
  /\ UNCHANGED <<dialog, path, link, raw, table, jobs, misled, again, looks>>

\* The form is replaced: what the page itself keeps, the values of the fields,
\* stays if the page does; the app the Ledger runs is still known.
RemountForm(samePage) ==
  /\ dialog' = FALSE
  /\ field' = IF samePage THEN [field EXCEPT !.chain = NoChain] ELSE FreshField
  /\ path' = PathOf("bip44", 0)
  /\ unsaid' = (path' # PathOf(field'.std, field'.index))
  /\ link' = [link EXCEPT !.connected = FALSE]
  /\ raw' = {}
  /\ table' = FreshTable
  /\ jobs' = {j \in jobs: j.what = "check"}
  /\ upset' = FALSE /\ again' = FALSE
  /\ UNCHANGED <<misled, looks>>

-----------------------------------------------------------------------------
TableAnswers ==
  \E j \in jobs: \/ LedgerChecked(j) \/ ListAnswers(j) \/ BalancesAnswer(j)
                 \/ AskMore(j) \/ MoreAnswers(j)

TableClicks ==
  \/ OpenTable \/ CloseTable \/ ClickConnect \/ ClickMore \/ SelectRow
  \/ \E c \in Chains: ChooseChain(c)
  \/ ChooseStandard \/ TypeIndex

-----------------------------------------------------------------------------
(* Properties. *)

\* When nothing is awaited, the table offers what was chosen: addresses of the
\* chain and the standard of the form, as many as have been loaded, none left out.
\* Excepted are rows that came for an earlier choice, or before newer ones, and
\* first rows listed anew - the chain has been chosen again, the Ledger has been
\* connected again - after which Load more goes on where it was.
OffersTheChosen ==
  jobs = {} /\ raw # {} /\ Mounted /\ ~upset /\ ~again =>
    /\ table.rows = raw
    /\ raw = {[chain |-> field.chain, std |-> field.std, index |-> i]:
                i \in 0 .. table.start - 1}

\* The paths shown are those of the standard and the index the wallet will be
\* created with, and those of the row that was selected.  Excepted are a standard
\* reset by ticking the box again, and the form of a page that comes back.
PathIsUsed ==
  /\ ~unsaid => path = [std |-> field.std, index |-> field.index]
  /\ ~misled

=============================================================================
