---------------------------- MODULE DappRequests ----------------------------
(***************************************************************************)
(* The requests of a DApp and the dialogs that answer them: DappBrowser,    *)
(* useIPCProvider, useChainConfigs and the two hooks of the chain dialogs.  *)
(*                                                                         *)
(* A page sends requests at any time, and as many as it likes.  For all     *)
(* transactions and signatures there is one slot: the request shown         *)
(* (txEvent), its callbacks (confirmPasswordCallback), a password dialog    *)
(* and a confirmation.  Chains have a dialog for adding and one for         *)
(* switching, each for one request.  An action is the code between two      *)
(* awaits, or a click.                                                      *)
(***************************************************************************)
EXTENDS Naturals, FiniteSets

CONSTANTS
  Requests,      \* requests of the pages
  Chains,        \* chains a page may ask for
  Defaults,      \* chains listed from the start, which cannot be removed
  None,          \* no request
  MaxContinues   \* bound: decryptions of the phrase that overlap

ASSUME ConstantsAssumption ==
  /\ Defaults \subseteq Chains /\ Defaults # {}
  /\ None \notin Requests
  /\ MaxContinues \in Nat \ {0}

VARIABLES
  browsing,      \* is the browser mounted
  ledger,        \* the wallet is one of a Ledger, which needs no phrase
  at,            \* at[r]: where request r is
  kind,          \* kind[r]: what it asks for
  chain,         \* chain[r]: the chain it is for, or asks for
  txEvent,       \* the request the confirmation shows
  callback,      \* the request the dialogs answer (confirmPasswordCallback)
  password,      \* inputPasswordVisible
  confirm,       \* requestConfirmationVisible
  phrase,        \* is the phrase decrypted
  decrypting,    \* decryptions in flight
  addModal,      \* the request the dialog for adding a chain shows
  switchModal,   \* the request the dialog for switching the chain shows
  chainConfigs,  \* the chains listed
  selectedChain,
  renumbered,    \* history: chains whose number the user has changed while selected
  executions,    \* history: times r was handed over for signing
  answers,       \* history: answers sent to r
  cancelled,     \* history: requests the user has cancelled
  alone,         \* history: no other request was open together with r
  overtaken,     \* history: filled in while the user has selected another chain
  twice          \* history: two decryptions have overlapped

dialogs  == <<txEvent, callback, password, confirm, phrase, decrypting>>
modals   == <<addModal, switchModal>>
settings == <<chainConfigs, selectedChain, renumbered>>
setting  == <<browsing, ledger, overtaken>>
about    == <<kind, chain, alone>>
vars == <<setting, at, about, dialogs, modals, settings, executions, answers, cancelled, twice>>

Over == {"unasked", "answered", "replaced", "ignored", "refused", "thrown", "gone"}
Open(r) == at[r] \notin Over

Init ==
  /\ browsing = FALSE /\ ledger \in BOOLEAN
  /\ at = [r \in Requests |-> "unasked"]
  /\ kind = [r \in Requests |-> "none"]
  /\ chainConfigs = Defaults /\ selectedChain \in Defaults /\ renumbered = {}
  /\ chain = [r \in Requests |-> selectedChain]
  /\ txEvent = None /\ callback = None
  /\ password = FALSE /\ confirm = FALSE /\ phrase = FALSE /\ decrypting = 0
  /\ addModal = None /\ switchModal = None
  /\ executions = [r \in Requests |-> 0]
  /\ answers = [r \in Requests |-> 0]
  /\ cancelled = {} /\ twice = FALSE
  /\ alone = [r \in Requests |-> TRUE] /\ overtaken = {}

Answer(S) == answers' = [r \in Requests |-> IF r \in S THEN answers[r] + 1 ELSE answers[r]]

(* Every message of the page is handled, from the chains of the last rendering on. *)
Ask(r, k, c) ==
  /\ browsing /\ at[r] = "unasked"
  /\ kind' = [kind EXCEPT ![r] = k]
  /\ chain' = [chain EXCEPT ![r] = c]
  /\ alone' = [q \in Requests |->
                 IF q = r THEN \A o \in Requests: ~Open(o) ELSE alone[q] /\ ~Open(q)]

-----------------------------------------------------------------------------
(* The slot: onRequestTokenApproval, onRequestSendTransaction, onRequestSign... *)

(* The request takes the slot, and with it the dialog that may be open; the one it
   replaces is not told. *)
HandOver(r) ==
  /\ txEvent' = r
  /\ callback' = r
  /\ at' = [q \in Requests |->
              IF q = r THEN "waiting"
              ELSE IF q = callback /\ at[q] = "waiting" THEN "replaced" ELSE at[q]]
  /\ IF ~phrase /\ ~ledger THEN password' = TRUE /\ UNCHANGED confirm
                           ELSE confirm' = TRUE /\ UNCHANGED password
  /\ UNCHANGED <<phrase, decrypting>>

(* mutant: the handler is not renewed when the chain is switched *)
AskTransactionOfMount(r, k) ==
  /\ k \in {"send", "approve"}
  /\ Ask(r, k, CHOOSE c \in Defaults: TRUE)
  /\ at' = [at EXCEPT ![r] = "filling"]
  /\ UNCHANGED <<setting, dialogs, modals, settings, executions, answers, cancelled, twice>>

(* eth_sendTransaction: the price of gas is asked for, of the chain selected now. *)
AskTransaction(r, k) ==
  /\ k \in {"send", "approve"}
  /\ Ask(r, k, selectedChain)
  /\ at' = [at EXCEPT ![r] = "filling"]
  /\ UNCHANGED <<setting, dialogs, modals, settings, executions, answers, cancelled, twice>>

Unanswered == UNCHANGED <<setting, about, modals, settings, executions, answers, cancelled, twice>>

(* It fails silently; what it is filled in with does not: without data it throws. *)
Throw(r) ==
  /\ at[r] \in {"filling", "parsing"}
  /\ at' = [at EXCEPT ![r] = "thrown"]
  /\ UNCHANGED dialogs /\ Unanswered

(* An approval of a token is completed with what the token's contract answers. *)
ParseApproval(r) ==
  /\ at[r] = "filling" /\ kind[r] = "approve"
  /\ at' = [at EXCEPT ![r] = "parsing"]
  /\ UNCHANGED dialogs /\ Unanswered

ShowTransaction(r) ==
  /\ at[r] = IF kind[r] = "approve" THEN "parsing" ELSE "filling"
  /\ HandOver(r) /\ Unanswered

(* Messages are shown at once; "message" is eth_sign, which is not implemented. *)
AskSignature(r, k) ==
  /\ k \in {"sign", "message"}
  /\ Ask(r, k, selectedChain)
  /\ HandOver(r)
  /\ UNCHANGED <<setting, modals, settings, executions, answers, cancelled, twice>>

-----------------------------------------------------------------------------
(* The dialogs of the slot. *)

(* "Continue" on a right password starts the decryption; the button stays. *)
Continue ==
  /\ password /\ decrypting < MaxContinues
  /\ decrypting' = decrypting + 1
  /\ twice' = (twice \/ decrypting > 0)
  /\ UNCHANGED <<setting, at, about, txEvent, callback, password, confirm, phrase, modals,
                 settings, executions, answers, cancelled>>

Decrypted ==
  /\ decrypting > 0
  /\ decrypting' = decrypting - 1
  /\ phrase' = TRUE /\ password' = FALSE /\ confirm' = TRUE
  /\ UNCHANGED <<setting, at, about, txEvent, callback, modals, settings, executions,
                 answers, cancelled, twice>>

Rejected(r) ==
  IF r = None
  THEN UNCHANGED <<at, answers, cancelled>>
  ELSE /\ at' = [at EXCEPT ![r] = "answered"]
       /\ Answer({r})
       /\ cancelled' = cancelled \union {r}

(* mutant: the callbacks are kept *)
CancelPasswordOnly ==
  /\ password /\ password' = FALSE
  /\ Rejected(callback)
  /\ UNCHANGED <<setting, about, txEvent, callback, confirm, phrase, decrypting, modals,
                 settings, executions, twice>>

(* The callbacks are given up; a decryption in flight goes on. *)
CancelPassword ==
  /\ password /\ password' = FALSE
  /\ Rejected(callback)
  /\ callback' = None
  /\ UNCHANGED <<setting, about, txEvent, confirm, phrase, decrypting, modals, settings,
                 executions, twice>>

Shown == confirm /\ txEvent # None

(* mutant: the confirmation stays until the transaction is done *)
ConfirmStays ==
  /\ Shown
  /\ callback # None /\ kind[callback] # "message"
  /\ at' = [at EXCEPT ![callback] = "running"]
  /\ executions' = [executions EXCEPT ![callback] = @ + 1]
  /\ UNCHANGED <<setting, about, dialogs, modals, settings, answers, cancelled, twice>>

(* The callbacks are kept, and called once more if the confirmation shows again. *)
Confirm ==
  /\ Shown /\ confirm' = FALSE
  /\ \/ callback = None /\ UNCHANGED <<at, executions, answers>>
     \/ /\ callback # None /\ kind[callback] = "message"
        /\ at' = [at EXCEPT ![callback] = "answered"]
        /\ Answer({callback})
        /\ UNCHANGED executions
     \/ /\ callback # None /\ kind[callback] # "message"
        /\ at' = [at EXCEPT ![callback] = "running"]
        /\ executions' = [executions EXCEPT ![callback] = @ + 1]
        /\ UNCHANGED answers
  /\ UNCHANGED <<setting, about, txEvent, callback, password, phrase, decrypting, modals,
                 settings, cancelled, twice>>

Cancel ==
  /\ Shown /\ confirm' = FALSE
  /\ txEvent' = None
  /\ Rejected(callback)
  /\ UNCHANGED <<setting, about, callback, password, phrase, decrypting, modals, settings,
                 executions, twice>>

(* handleSendTransaction, handleTokenApproval, handleSign...: result or error; the
   nonce of a transaction is read outside the try. *)
Finish(r) ==
  /\ at[r] = "running"
  /\ \/ at' = [at EXCEPT ![r] = "answered"] /\ Answer({r})
     \/ /\ kind[r] \in {"send", "approve"}
        /\ at' = [at EXCEPT ![r] = "thrown"] /\ UNCHANGED answers
  /\ UNCHANGED <<setting, about, dialogs, modals, settings, executions, cancelled, twice>>

-----------------------------------------------------------------------------
(* Requests without a dialog. *)

AskAccounts(r) ==
  /\ Ask(r, "accounts", selectedChain)
  /\ at' = [at EXCEPT ![r] = "answered"]
  /\ Answer({r})
  /\ UNCHANGED <<setting, dialogs, modals, settings, executions, cancelled, twice>>

AskWatchAsset(r) ==
  /\ Ask(r, "watch", selectedChain)
  /\ at' = [at EXCEPT ![r] = "ignored"]
  /\ UNCHANGED <<setting, dialogs, modals, settings, executions, answers, cancelled, twice>>

AskRecover(r) ==
  /\ Ask(r, "recover", selectedChain)
  /\ at' = [at EXCEPT ![r] = "recovering"]
  /\ UNCHANGED <<setting, dialogs, modals, settings, executions, answers, cancelled, twice>>

(* Its callbacks are swapped: the address is sent as an error, and so is a failure,
   after a second attempt. *)
Recovered(r) ==
  /\ at[r] = "recovering"
  /\ at' = [at EXCEPT ![r] = "answered"]
  /\ Answer({r})
  /\ UNCHANGED <<setting, about, dialogs, modals, settings, executions, cancelled, twice>>

-----------------------------------------------------------------------------
(* Chains. *)

(* showWithConfig does nothing while its dialog is showing. *)
OpenSwitch(r) ==
  /\ switchModal' = IF switchModal = None THEN r ELSE switchModal
  /\ at' = [at EXCEPT ![r] = IF switchModal = None THEN "switching" ELSE "ignored"]

AskAddChain(r, c) ==
  /\ Ask(r, "add", c)
  /\ \/ /\ c \in chainConfigs /\ c = selectedChain
        /\ at' = [at EXCEPT ![r] = "answered"] /\ Answer({r})
        /\ UNCHANGED modals
     \/ /\ c \in chainConfigs /\ c # selectedChain
        /\ OpenSwitch(r) /\ UNCHANGED <<addModal, answers>>
     \/ /\ c \notin chainConfigs
        /\ addModal' = IF addModal = None THEN r ELSE addModal
        /\ at' = [at EXCEPT ![r] = IF addModal = None THEN "adding" ELSE "ignored"]
        /\ UNCHANGED <<switchModal, answers>>
  /\ UNCHANGED <<setting, dialogs, settings, executions, cancelled, twice>>

AskSwitchChain(r, c) ==
  /\ Ask(r, "switch", c)
  /\ \/ /\ c \notin chainConfigs \/ c = selectedChain  \* an error, or done
        /\ at' = [at EXCEPT ![r] = "answered"] /\ Answer({r})
        /\ UNCHANGED modals
     \/ /\ c \in chainConfigs /\ c # selectedChain
        /\ OpenSwitch(r) /\ UNCHANGED <<addModal, answers>>
  /\ UNCHANGED <<setting, dialogs, settings, executions, cancelled, twice>>

Modal == <<setting, about, dialogs, executions, twice>>

(* The page is answered when the chain is added, and again when it is selected. *)
ApproveAdd ==
  /\ addModal # None /\ addModal' = None
  /\ chainConfigs' = chainConfigs \union {chain[addModal]}
  /\ OpenSwitch(addModal)
  /\ Answer({addModal})
  /\ UNCHANGED <<selectedChain, renumbered, cancelled, Modal>>

CancelAdd ==
  /\ addModal # None /\ addModal' = None
  /\ Rejected(addModal)
  /\ UNCHANGED <<settings, switchModal, Modal>>

ApproveSwitch ==
  /\ switchModal # None /\ switchModal' = None
  /\ selectedChain' = chain[switchModal]
  /\ at' = [at EXCEPT ![switchModal] = "answered"]
  /\ Answer({switchModal})
  /\ UNCHANGED <<chainConfigs, renumbered, addModal, cancelled, Modal>>

(* The page is not told. *)
CancelSwitch ==
  /\ switchModal # None /\ switchModal' = None
  /\ at' = [at EXCEPT ![switchModal] = "refused"]
  /\ UNCHANGED <<settings, addModal, answers, cancelled, Modal>>

-----------------------------------------------------------------------------
(* The pages around the browser. *)

NoDialog == ~password /\ ~Shown /\ addModal = None /\ switchModal = None

OpenBrowser ==
  /\ ~browsing /\ browsing' = TRUE
  /\ UNCHANGED <<ledger, overtaken, at, about, dialogs, modals, settings, executions, answers,
                 cancelled, twice>>

(* The dialogs cover the buttons.  The state of the component and the page are lost. *)
ExitBrowser ==
  /\ browsing /\ NoDialog
  /\ browsing' = FALSE
  /\ at' = [r \in Requests |-> IF Open(r) THEN "gone" ELSE at[r]]
  /\ txEvent' = None /\ callback' = None
  /\ password' = FALSE /\ confirm' = FALSE /\ phrase' = FALSE /\ decrypting' = 0
  /\ UNCHANGED <<ledger, overtaken, about, modals, settings, executions, answers, cancelled, twice>>

(* ChainSelect, in the address bar, which a dialog covers *)
SelectChain(c) ==
  /\ NoDialog /\ c \in chainConfigs /\ c # selectedChain
  /\ selectedChain' = c
  /\ overtaken' = overtaken \union {r \in Requests: at[r] \in {"filling", "parsing"}}
  /\ UNCHANGED <<browsing, ledger, at, about, dialogs, modals, chainConfigs, renumbered,
                 executions, answers, cancelled, twice>>

(* ChainConfigTab *)
RemoveChain(c) ==
  /\ ~browsing /\ c \in chainConfigs \ Defaults /\ c # selectedChain
  /\ chainConfigs' = chainConfigs \ {c}
  /\ UNCHANGED <<setting, at, about, dialogs, modals, selectedChain, renumbered, executions,
                 answers, cancelled, twice>>

\* Bound: the number a user gives a chain is one no page asks for.
(* The form beside the list: also the chain selected may be given another number. *)
RenumberChain(c) ==
  /\ ~browsing /\ c \in chainConfigs \ Defaults
  /\ chainConfigs' = chainConfigs \ {c}
  /\ renumbered' = renumbered \union ({c} \intersect {selectedChain})
  /\ UNCHANGED <<setting, at, about, dialogs, modals, selectedChain, executions, answers,
                 cancelled, twice>>

PageAsks(r) ==
  \/ AskAccounts(r) \/ AskWatchAsset(r) \/ AskRecover(r)
  \/ \E k \in {"send", "approve"}: AskTransaction(r, k)
  \/ \E k \in {"sign", "message"}: AskSignature(r, k)
  \/ \E c \in Chains: AskAddChain(r, c) \/ AskSwitchChain(r, c)

HandlerStep(r) ==
  Throw(r) \/ ParseApproval(r) \/ ShowTransaction(r) \/ Finish(r) \/ Recovered(r)

UserStep ==
  \/ Continue \/ CancelPassword \/ Confirm \/ Cancel
  \/ ApproveAdd \/ CancelAdd \/ ApproveSwitch \/ CancelSwitch
  \/ OpenBrowser \/ ExitBrowser
  \/ \E c \in Chains: SelectChain(c) \/ RemoveChain(c) \/ RenumberChain(c)

Next == (\E r \in Requests: PageAsks(r) \/ HandlerStep(r)) \/ UserStep \/ Decrypted

Spec == Init /\ [][Next]_vars

-----------------------------------------------------------------------------
(* Properties. *)

Kinds == {"none", "send", "approve", "sign", "message", "accounts", "watch", "recover",
          "add", "switch"}

(* Every variable holds a value of its kind. *)
TypeOK ==
  /\ browsing \in BOOLEAN /\ ledger \in BOOLEAN
  /\ at \in [Requests -> Over \union
               {"filling", "parsing", "waiting", "running", "recovering", "adding", "switching"}]
  /\ kind \in [Requests -> Kinds] /\ chain \in [Requests -> Chains]
  /\ {txEvent, callback, addModal, switchModal} \subseteq Requests \union {None}
  /\ password \in BOOLEAN /\ confirm \in BOOLEAN /\ phrase \in BOOLEAN
  /\ decrypting \in 0 .. MaxContinues
  /\ chainConfigs \in SUBSET Chains /\ selectedChain \in Chains
  /\ renumbered \in SUBSET Chains
  /\ executions \in [Requests -> 0 .. 2] /\ answers \in [Requests -> 0 .. 2]
  /\ cancelled \in SUBSET Requests
  /\ overtaken \in SUBSET Requests
  /\ alone \in [Requests -> BOOLEAN] /\ twice \in BOOLEAN

(* However requests overtake each other, what a click on "Confirm" carries out is the
   request the confirmation shows, or nothing. *)
ShownIsConfirmed == Shown => callback \in {txEvent, None}

(* A request is carried out once at most, although its callbacks stay where they are
   after the click, and answered once at most, a new chain twice: when it is added and
   when it is selected.  Unless "Continue" is clicked twice while the phrase is
   decrypted, when the confirmation may show once more. *)
CarriedOutOnce ==
  ~twice => \A r \in Requests:
    /\ executions[r] <= 1
    /\ kind[r] # "add" => answers[r] <= 1

(* A request the user has cancelled is not carried out afterwards, also when the
   decryption that was in flight opens its confirmation again. *)
CancelledForGood ==
  [][\A r \in cancelled: executions'[r] = executions[r]]_vars

(* A request that waits for the user, and that no other has overlapped, is the one the
   open dialog is about: it is never left without a dialog.  And the chain the dialog
   shows is the one it will be carried out on, unless the user has selected another one
   while the transaction was still being filled in. *)
WaitingIsShown ==
  \A r \in Requests: at[r] = "waiting" /\ alone[r] =>
    /\ callback = r /\ txEvent = r /\ (password \/ confirm)
    /\ Shown /\ r \notin overtaken => chain[r] = selectedChain

(* The chain selected is one of those listed, whatever the pages add and the user
   removes, unless the user has changed the number of that chain while it was selected. *)
SelectedIsListed == selectedChain \in chainConfigs \union renumbered

=============================================================================
