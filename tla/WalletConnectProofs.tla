------------------------ MODULE WalletConnectProofs ------------------------
(***************************************************************************)
(* What the dialogs of the browser and WalletConnect guarantee, for all     *)
(* requests, chains, connections and restarts: what is confirmed is what is *)
(* shown, a cancelled request is not carried out, the selected chain is     *)
(* listed, beside WalletConnect as without it; the session shown is the one *)
(* that is alive; and each request of a dapp has its one reply.             *)
(***************************************************************************)
EXTENDS WalletConnect, FiniteSetTheorems, TLAPS

-----------------------------------------------------------------------------
(* The dialogs of the browser *)

Places == Over \union
  {"filling", "parsing", "waiting", "running", "recovering", "adding", "switching"}

(* The types the arguments below need; the counters are only natural numbers. *)
Typed ==
  /\ at \in [Requests -> Places]
  /\ kind \in [Requests -> Kinds]
  /\ chain \in [Requests -> Chains]
  /\ txEvent \in Requests \union {None}
  /\ callback \in Requests \union {None}
  /\ addModal \in Requests \union {None}
  /\ switchModal \in Requests \union {None}
  /\ executions \in [Requests -> Nat]
  /\ cancelled \in SUBSET Requests
  /\ chainConfigs \in SUBSET Chains
  /\ selectedChain \in Chains

(* The callbacks kept are those of the request shown. *)
OneSlot == txEvent # None => callback \in {txEvent, None}

(* The slot is for transactions and signatures only, the dialogs of the chains are not. *)
SlotKinds ==
  /\ callback # None =>
       /\ at[callback] # "unasked"
       /\ kind[callback] \in {"send", "approve", "sign", "message"}
  /\ \A r \in Requests: at[r] \in {"filling", "parsing"} => kind[r] \in {"send", "approve"}

(* A dialog of the chains is about a request that waits for it, in the browser. *)
ModalsWaitedFor ==
  /\ addModal # None => browsing /\ at[addModal] = "adding" /\ kind[addModal] = "add"
  /\ switchModal # None =>
       /\ browsing /\ at[switchModal] = "switching"
       /\ kind[switchModal] \in {"add", "switch"}
       /\ chain[switchModal] \in chainConfigs

(* A cancelled request has had its answer and cannot be the one confirmed. *)
CancelledIsOver ==
  \A r \in cancelled: at[r] = "answered" /\ ~(callback = r /\ txEvent = r)

Inv ==
  /\ Typed /\ OneSlot /\ SlotKinds /\ ModalsWaitedFor /\ SelectedIsListed /\ CancelledIsOver

(* The browser starts without a request. *)
LEMMA InitInv == Init => Inv
BY ConstantsAssumption
   DEF Init, Inv, Typed, Places, Over, Kinds, OneSlot, SlotKinds, ModalsWaitedFor,
       SelectedIsListed, CancelledIsOver

(* Inv is inductive: one case per handler, click and answer. *)
LEMMA NextInv == Inv /\ [Next]_vars => Inv'
<1> SUFFICES ASSUME Inv, [Next]_vars PROVE Inv'
  OBVIOUS
<1> USE ConstantsAssumption
    DEF Inv, Typed, Places, Over, Kinds, OneSlot, SlotKinds, ModalsWaitedFor,
        SelectedIsListed, CancelledIsOver, setting, about, dialogs, modals, settings,
        Answer, Ask, Open
<1>1. ASSUME NEW r \in Requests, AskAccounts(r) PROVE Inv'
  BY <1>1 DEF AskAccounts
<1>2. ASSUME NEW r \in Requests, AskWatchAsset(r) PROVE Inv'
  BY <1>2 DEF AskWatchAsset
<1>3. ASSUME NEW r \in Requests, AskRecover(r) PROVE Inv'
  BY <1>3 DEF AskRecover
<1>4. ASSUME NEW r \in Requests, NEW k \in {"send", "approve"}, AskTransaction(r, k) PROVE Inv'
  BY <1>4 DEF AskTransaction
<1>5. ASSUME NEW r \in Requests, NEW k \in {"sign", "message"}, AskSignature(r, k) PROVE Inv'
  BY <1>5 DEF AskSignature, HandOver
<1>6. ASSUME NEW r \in Requests, NEW c \in Chains, AskAddChain(r, c) PROVE Inv'
  BY <1>6 DEF AskAddChain, OpenSwitch
<1>7. ASSUME NEW r \in Requests, NEW c \in Chains, AskSwitchChain(r, c) PROVE Inv'
  BY <1>7 DEF AskSwitchChain, OpenSwitch
<1>8. ASSUME NEW r \in Requests, Throw(r) PROVE Inv'
  BY <1>8 DEF Throw, Unanswered
<1>9. ASSUME NEW r \in Requests, ParseApproval(r) PROVE Inv'
  BY <1>9 DEF ParseApproval, Unanswered
<1>10. ASSUME NEW r \in Requests, ShowTransaction(r) PROVE Inv'
  BY <1>10 DEF ShowTransaction, HandOver, Unanswered
<1>11. ASSUME NEW r \in Requests, Finish(r) PROVE Inv'
  BY <1>11 DEF Finish
<1>12. ASSUME NEW r \in Requests, Recovered(r) PROVE Inv'
  BY <1>12 DEF Recovered
<1>13. ASSUME Continue PROVE Inv'
  BY <1>13 DEF Continue
<1>14. ASSUME Decrypted PROVE Inv'
  BY <1>14 DEF Decrypted
<1>15. ASSUME CancelPassword PROVE Inv'
  BY <1>15 DEF CancelPassword, Rejected
<1>16. ASSUME Confirm PROVE Inv'
  BY <1>16 DEF Confirm, Shown
<1>17. ASSUME Cancel PROVE Inv'
  BY <1>17 DEF Cancel, Rejected, Shown
<1>18. ASSUME ApproveAdd PROVE Inv'
  BY <1>18 DEF ApproveAdd, OpenSwitch, Modal
<1>19. ASSUME CancelAdd PROVE Inv'
  BY <1>19 DEF CancelAdd, Rejected, Modal
<1>20. ASSUME ApproveSwitch PROVE Inv'
  BY <1>20 DEF ApproveSwitch, Modal
<1>21. ASSUME CancelSwitch PROVE Inv'
  BY <1>21 DEF CancelSwitch, Modal
<1>22. ASSUME OpenBrowser PROVE Inv'
  BY <1>22 DEF OpenBrowser
<1>23. ASSUME ExitBrowser PROVE Inv'
  BY <1>23 DEF ExitBrowser, NoDialog, Shown
<1>24. ASSUME NEW c \in Chains, SelectChain(c) PROVE Inv'
  BY <1>24 DEF SelectChain, NoDialog
<1>25. ASSUME NEW c \in Chains, RemoveChain(c) PROVE Inv'
  BY <1>25 DEF RemoveChain
<1>26. ASSUME NEW c \in Chains, RenumberChain(c) PROVE Inv'
  BY <1>26 DEF RenumberChain
<1>27. ASSUME UNCHANGED vars PROVE Inv'
  BY <1>27 DEF vars
<1> QED
  BY <1>1, <1>2, <1>3, <1>4, <1>5, <1>6, <1>7, <1>8, <1>9, <1>10, <1>11, <1>12, <1>13, <1>14, <1>15, <1>16, <1>17, <1>18, <1>19, <1>20, <1>21, <1>22, <1>23, <1>24, <1>25, <1>26, <1>27
  DEF Next, PageAsks, HandlerStep, UserStep

(* Inv holds in every state of every behaviour. *)
LEMMA Invariance == Spec => []Inv
<1> QED
  BY InitInv, NextInv, PTL DEF Spec

(* What a click on "Confirm" calls is what the confirmation shows: the callbacks and
   the request shown are only ever set together (DappBrowser.tsx, onRequest...). *)
THEOREM ConfirmsWhatItShows == Spec => []ShownIsConfirmed
<1>1. Inv => ShownIsConfirmed
  BY DEF Inv, OneSlot, ShownIsConfirmed, Shown
<1> QED
  BY <1>1, Invariance, PTL

(* The selected chain is in the list, although a dialog for switching holds a chain
   for as long as the user likes: chains are removed outside the browser only, and
   only the form that edits them can renumber the one selected. *)
THEOREM SelectedStaysListed == Spec => []SelectedIsListed
<1>1. Inv => SelectedIsListed
  BY DEF Inv
<1> QED
  BY <1>1, Invariance, PTL

(* Only "Confirm" hands a request over, the one shown, and that one is not cancelled. *)
LEMMA CancelledNotExecuted ==
  Inv /\ [Next]_vars => [\A r \in cancelled: executions'[r] = executions[r]]_vars
<1> SUFFICES ASSUME Inv, Next
             PROVE  \A r \in cancelled: executions'[r] = executions[r]
  OBVIOUS
<1>1. CASE Confirm
  <2>1. callback # None => callback = txEvent /\ callback \notin cancelled
    BY <1>1 DEF Confirm, Shown, Inv, OneSlot, CancelledIsOver
  <2> QED
    BY <1>1, <2>1 DEF Confirm, Inv, Typed
<1>2. CASE ~Confirm
  <2>1. UNCHANGED executions
    BY <1>2 DEF Next, PageAsks, HandlerStep, UserStep, AskAccounts, AskWatchAsset,
       AskRecover, AskTransaction, AskSignature, AskAddChain, AskSwitchChain, Throw,
       ParseApproval, ShowTransaction, Finish, Recovered, Unanswered, Continue, Decrypted,
       CancelPassword, Cancel, ApproveAdd, CancelAdd, ApproveSwitch, CancelSwitch, Modal,
       OpenBrowser, ExitBrowser, SelectChain, RemoveChain,
       RenumberChain
  <2> QED
    BY <2>1
<1> QED
  BY <1>1, <1>2

(* A cancelled request is never carried out, also when a decryption that was under way
   opens its confirmation again. *)
THEOREM CancelledStaysCancelled == Spec => CancelledForGood
<1> QED
  BY Invariance, CancelledNotExecuted, PTL DEF Spec, CancelledForGood

-----------------------------------------------------------------------------
(* Once *)

(* The dialogs of the slot: one at a time, the password's only while the phrase is not
   known; and one decryption, which the password dialog or nothing waits for. *)
OneDialog ==
  /\ ledger => ~password /\ decrypting = 0
  /\ password => ~phrase
  /\ confirm => ledger \/ phrase
  /\ ~twice /\ decrypting # 0 => decrypting = 1 /\ ~phrase /\ (password \/ callback = None)
  /\ ~twice /\ callback # None /\ (password \/ confirm) => at[callback] = "waiting"

(* A request that waits has not been carried out, one that is open not been answered. *)
NotYet ==
  /\ decrypting \in Nat
  /\ answers \in [Requests -> Nat]
  /\ \A r \in Requests:
       /\ at[r] \in {"unasked", "filling", "parsing", "waiting"} => executions[r] = 0
       /\ at[r] = "unasked" => answers[r] = 0
       /\ ~twice => executions[r] <= 1
       /\ ~twice /\ kind[r] # "add" =>
            /\ answers[r] <= 1
            /\ Open(r) => answers[r] = 0

(* At the start nothing is carried out and no dialog is open. *)
LEMMA InitOnce == Init => OneDialog /\ NotYet
BY DEF Init, OneDialog, NotYet, Open, Over

(* No step opens a second dialog, or one for a call that is not waiting. *)
LEMMA NextOneDialog == Inv /\ OneDialog /\ NotYet /\ [Next]_vars => OneDialog'
<1> SUFFICES ASSUME Inv, OneDialog, NotYet, [Next]_vars PROVE OneDialog'
  OBVIOUS
<1> USE ConstantsAssumption
    DEF Inv, Typed, Over, Open, SlotKinds, ModalsWaitedFor, OneDialog, NotYet, setting,
        about, dialogs, modals, settings, Ask
<1>1. ASSUME NEW r \in Requests, AskAccounts(r) PROVE OneDialog'
  BY <1>1 DEF AskAccounts
<1>2. ASSUME NEW r \in Requests, AskWatchAsset(r) PROVE OneDialog'
  BY <1>2 DEF AskWatchAsset
<1>3. ASSUME NEW r \in Requests, AskRecover(r) PROVE OneDialog'
  BY <1>3 DEF AskRecover
<1>4. ASSUME NEW r \in Requests, NEW k \in {"send", "approve"}, AskTransaction(r, k) PROVE OneDialog'
  BY <1>4 DEF AskTransaction
<1>5. ASSUME NEW r \in Requests, NEW k \in {"sign", "message"}, AskSignature(r, k) PROVE OneDialog'
  BY <1>5 DEF AskSignature, HandOver
<1>6. ASSUME NEW r \in Requests, NEW c \in Chains, AskAddChain(r, c) PROVE OneDialog'
  BY <1>6 DEF AskAddChain, OpenSwitch
<1>7. ASSUME NEW r \in Requests, NEW c \in Chains, AskSwitchChain(r, c) PROVE OneDialog'
  BY <1>7 DEF AskSwitchChain, OpenSwitch
<1>8. ASSUME NEW r \in Requests, Throw(r) \/ ParseApproval(r) PROVE OneDialog'
  BY <1>8 DEF Throw, ParseApproval, Unanswered
<1>9. ASSUME NEW r \in Requests, ShowTransaction(r) PROVE OneDialog'
  BY <1>9 DEF ShowTransaction, HandOver, Unanswered
<1>10. ASSUME NEW r \in Requests, Finish(r) PROVE OneDialog'
  BY <1>10 DEF Finish
<1>11. ASSUME NEW r \in Requests, Recovered(r) PROVE OneDialog'
  BY <1>11 DEF Recovered
<1>12. ASSUME Continue PROVE OneDialog'
  <2>1. ~twice' => ~twice /\ decrypting = 0 /\ decrypting' = 1
    <3>1. ~twice' => ~twice /\ ~(decrypting > 0)
      BY <1>12 DEF Continue
    <3>2. decrypting \in Nat /\ decrypting' = decrypting + 1
      BY <1>12 DEF Continue
    <3> QED
      BY <3>1, <3>2
  <2> QED
    BY <1>12, <2>1 DEF Continue
<1>13. ASSUME Decrypted PROVE OneDialog'
  BY <1>13 DEF Decrypted
<1>14. ASSUME CancelPassword PROVE OneDialog'
  BY <1>14 DEF CancelPassword, Rejected
<1>15. ASSUME Confirm PROVE OneDialog'
  BY <1>15 DEF Confirm, Shown
<1>16. ASSUME Cancel PROVE OneDialog'
  BY <1>16 DEF Cancel, Rejected, Shown
<1>17. ASSUME ApproveAdd PROVE OneDialog'
  BY <1>17 DEF ApproveAdd, OpenSwitch, Modal
<1>18. ASSUME CancelAdd PROVE OneDialog'
  BY <1>18 DEF CancelAdd, Rejected, Modal
<1>19. ASSUME ApproveSwitch PROVE OneDialog'
  BY <1>19 DEF ApproveSwitch, Modal
<1>20. ASSUME CancelSwitch PROVE OneDialog'
  BY <1>20 DEF CancelSwitch, Modal
<1>21. ASSUME OpenBrowser PROVE OneDialog'
  BY <1>21 DEF OpenBrowser
<1>22. ASSUME ExitBrowser PROVE OneDialog'
  BY <1>22 DEF ExitBrowser, NoDialog, Shown
<1>23. ASSUME NEW c \in Chains, SelectChain(c) PROVE OneDialog'
  BY <1>23 DEF SelectChain, NoDialog, Shown
<1>24. ASSUME NEW c \in Chains, RemoveChain(c) \/ RenumberChain(c) PROVE OneDialog'
  BY <1>24 DEF RemoveChain, RenumberChain
<1>25. ASSUME UNCHANGED vars PROVE OneDialog'
  BY <1>25 DEF vars
<1> QED
  BY <1>1, <1>2, <1>3, <1>4, <1>5, <1>6, <1>7, <1>8, <1>9, <1>10, <1>11, <1>12, <1>13,
     <1>14, <1>15, <1>16, <1>17, <1>18, <1>19, <1>20, <1>21, <1>22, <1>23, <1>24, <1>25
     DEF Next, PageAsks, HandlerStep, UserStep

(* A call whose dialog is open, or still to come, has not been carried out. *)
LEMMA NextNotYet == Inv /\ OneDialog /\ NotYet /\ [Next]_vars => NotYet'
<1> SUFFICES ASSUME Inv, OneDialog, NotYet, [Next]_vars PROVE NotYet'
  OBVIOUS
<1> USE ConstantsAssumption
    DEF Inv, Typed, Over, Open, SlotKinds, ModalsWaitedFor, OneDialog, NotYet, setting,
        about, dialogs, modals, settings, Ask, Answer
<1>1. ASSUME NEW r \in Requests, AskAccounts(r) PROVE NotYet'
  BY <1>1 DEF AskAccounts
<1>2. ASSUME NEW r \in Requests, AskWatchAsset(r) PROVE NotYet'
  BY <1>2 DEF AskWatchAsset
<1>3. ASSUME NEW r \in Requests, AskRecover(r) PROVE NotYet'
  BY <1>3 DEF AskRecover
<1>4. ASSUME NEW r \in Requests, NEW k \in {"send", "approve"}, AskTransaction(r, k) PROVE NotYet'
  BY <1>4 DEF AskTransaction
<1>5. ASSUME NEW r \in Requests, NEW k \in {"sign", "message"}, AskSignature(r, k) PROVE NotYet'
  BY <1>5 DEF AskSignature, HandOver
<1>6. ASSUME NEW r \in Requests, NEW c \in Chains, AskAddChain(r, c) PROVE NotYet'
  BY <1>6 DEF AskAddChain, OpenSwitch
<1>7. ASSUME NEW r \in Requests, NEW c \in Chains, AskSwitchChain(r, c) PROVE NotYet'
  BY <1>7 DEF AskSwitchChain, OpenSwitch
<1>8. ASSUME NEW r \in Requests, Throw(r) \/ ParseApproval(r) PROVE NotYet'
  BY <1>8 DEF Throw, ParseApproval, Unanswered
<1>9. ASSUME NEW r \in Requests, ShowTransaction(r) PROVE NotYet'
  BY <1>9 DEF ShowTransaction, HandOver, Unanswered
<1>10. ASSUME NEW r \in Requests, Finish(r) PROVE NotYet'
  BY <1>10 DEF Finish
<1>11. ASSUME NEW r \in Requests, Recovered(r) PROVE NotYet'
  BY <1>11 DEF Recovered
<1>12. ASSUME Continue PROVE NotYet'
  <2>1. ~twice' => ~twice
    BY <1>12 DEF Continue
  <2> QED
    BY <1>12, <2>1 DEF Continue
<1>13. ASSUME Decrypted PROVE NotYet'
  BY <1>13 DEF Decrypted
<1>14. ASSUME CancelPassword PROVE NotYet'
  BY <1>14 DEF CancelPassword, Rejected
<1>15. ASSUME Confirm PROVE NotYet'
  BY <1>15 DEF Confirm, Shown
<1>16. ASSUME Cancel PROVE NotYet'
  BY <1>16 DEF Cancel, Rejected, Shown
<1>17. ASSUME ApproveAdd PROVE NotYet'
  BY <1>17 DEF ApproveAdd, OpenSwitch, Modal
<1>18. ASSUME CancelAdd PROVE NotYet'
  <2>1. /\ addModal \in Requests /\ kind[addModal] = "add"
        /\ at' = [at EXCEPT ![addModal] = "answered"] /\ Answer({addModal})
        /\ UNCHANGED <<kind, executions, decrypting, twice>>
    BY <1>18 DEF CancelAdd, Rejected, Modal
  <2> QED
    BY <2>1
<1>19. ASSUME ApproveSwitch PROVE NotYet'
  BY <1>19 DEF ApproveSwitch, Modal
<1>20. ASSUME CancelSwitch PROVE NotYet'
  BY <1>20 DEF CancelSwitch, Modal
<1>21. ASSUME OpenBrowser PROVE NotYet'
  BY <1>21 DEF OpenBrowser
<1>22. ASSUME ExitBrowser PROVE NotYet'
  BY <1>22 DEF ExitBrowser, NoDialog, Shown
<1>23. ASSUME NEW c \in Chains, SelectChain(c) PROVE NotYet'
  BY <1>23 DEF SelectChain, NoDialog, Shown
<1>24. ASSUME NEW c \in Chains, RemoveChain(c) \/ RenumberChain(c) PROVE NotYet'
  BY <1>24 DEF RemoveChain, RenumberChain
<1>25. ASSUME UNCHANGED vars PROVE NotYet'
  BY <1>25 DEF vars
<1> QED
  BY <1>1, <1>2, <1>3, <1>4, <1>5, <1>6, <1>7, <1>8, <1>9, <1>10, <1>11, <1>12, <1>13,
     <1>14, <1>15, <1>16, <1>17, <1>18, <1>19, <1>20, <1>21, <1>22, <1>23, <1>24, <1>25
     DEF Next, PageAsks, HandlerStep, UserStep

(* Whatever requests overtake each other, one that is shown is carried out once at most,
   and answered once at most, unless "Continue" has been clicked twice meanwhile: the
   callbacks that are kept after the click are replaced before a dialog opens again. *)
THEOREM CarriesOutOnce == Spec => []CarriedOutOnce
<1>1. OneDialog /\ NotYet => CarriedOutOnce
  BY DEF NotYet, CarriedOutOnce
<1> QED
  BY <1>1, InitInv, NextInv, InitOnce, NextOneDialog, NextNotYet, PTL DEF Spec

-----------------------------------------------------------------------------
(* Shown *)

(* Open, and not handed over yet: one that has been can be handed over once more. *)
Pending(r) == Open(r) /\ at[r] # "running"

(* What a request that no other overlaps can count on. *)
Undisturbed ==
  /\ alone \in [Requests -> BOOLEAN]
  /\ \A r \in Requests: alone[r] /\ Pending(r) =>
       \A q \in Requests \ {r}: ~Pending(q)
  /\ \A r \in Requests: at[r] = "waiting" /\ alone[r] =>
       callback = r /\ txEvent = r /\ (password \/ confirm)
  /\ \A r \in Requests:
       at[r] \in {"filling", "parsing", "waiting"} /\ alone[r] /\ r \notin overtaken =>
         chain[r] = selectedChain

(* At the start no call waits. *)
LEMMA InitUndisturbed == Init => Undisturbed
BY DEF Init, Undisturbed, Pending, Open, Over

(* A request that comes is alone if no other is open, and the others are not any more. *)
AskedApart(r) ==
  alone' = [q \in Requests |->
              IF q = r THEN \A o \in Requests: ~Open(o) ELSE alone[q] /\ ~Open(q)]

(* One that goes to the dialogs of the chains, or to none, leaves those in the slot alone. *)
LEMMA AskedAside ==
  ASSUME Inv, Undisturbed, NEW r \in Requests, AskedApart(r),
         \E place \in {"answered", "switching", "adding", "ignored"}: at' = [at EXCEPT ![r] = place]
  PROVE  Undisturbed'
<1>1. at'[r] \in {"answered", "switching", "adding", "ignored"} BY DEF Inv, Typed
<1>2. \A q \in Requests \ {r}: at'[q] = at[q] BY DEF Inv, Typed
<1>3. alone' \in [Requests -> BOOLEAN] BY DEF AskedApart, Undisturbed, Open
<1>4. \A q \in Requests \ {r}: alone'[q] => ~Open(q) BY DEF AskedApart
<1>5. alone'[r] => \A q \in Requests \ {r}: ~Open(q) BY DEF AskedApart
<1> QED BY <1>1, <1>2, <1>3, <1>4, <1>5 DEF Undisturbed, Pending, Open, Over

(* Every step leaves a call that no other overlaps alone in the page's slot. *)
LEMMA NextUndisturbed == Inv /\ Undisturbed /\ [Next]_vars => Undisturbed'
<1> SUFFICES ASSUME Inv, Undisturbed, [Next]_vars PROVE Undisturbed'
  OBVIOUS
<1> USE ConstantsAssumption
    DEF Inv, Typed, Over, Open, SlotKinds, ModalsWaitedFor, Undisturbed, Pending, setting,
        about, dialogs, modals, settings, Ask
<1>1. ASSUME NEW r \in Requests, AskAccounts(r) PROVE Undisturbed'
  BY <1>1 DEF AskAccounts
<1>2. ASSUME NEW r \in Requests, AskWatchAsset(r) PROVE Undisturbed'
  BY <1>2 DEF AskWatchAsset
<1>3. ASSUME NEW r \in Requests, AskRecover(r) PROVE Undisturbed'
  BY <1>3 DEF AskRecover
<1>4. ASSUME NEW r \in Requests, NEW k \in {"send", "approve"}, AskTransaction(r, k) PROVE Undisturbed'
  BY <1>4 DEF AskTransaction
<1>5. ASSUME NEW r \in Requests, NEW k \in {"sign", "message"}, AskSignature(r, k) PROVE Undisturbed'
  BY <1>5 DEF AskSignature, HandOver
<1>6. ASSUME NEW r \in Requests, NEW c \in Chains, AskAddChain(r, c) PROVE Undisturbed'
  <2>1. \E place \in {"answered", "switching", "adding", "ignored"}: at' = [at EXCEPT ![r] = place]
    BY <1>6 DEF AskAddChain, OpenSwitch
  <2>2. AskedApart(r) BY <1>6 DEF AskAddChain, AskedApart
  <2> QED BY <2>1, <2>2, AskedAside
<1>7. ASSUME NEW r \in Requests, NEW c \in Chains, AskSwitchChain(r, c) PROVE Undisturbed'
  <2>1. \E place \in {"answered", "switching", "adding", "ignored"}: at' = [at EXCEPT ![r] = place]
    BY <1>7 DEF AskSwitchChain, OpenSwitch
  <2>2. AskedApart(r) BY <1>7 DEF AskSwitchChain, AskedApart
  <2> QED BY <2>1, <2>2, AskedAside
<1>8. ASSUME NEW r \in Requests, Throw(r) \/ ParseApproval(r) PROVE Undisturbed'
  BY <1>8 DEF Throw, ParseApproval, Unanswered
<1>9. ASSUME NEW r \in Requests, ShowTransaction(r) PROVE Undisturbed'
  BY <1>9 DEF ShowTransaction, HandOver, Unanswered
<1>10. ASSUME NEW r \in Requests, Finish(r) PROVE Undisturbed'
  BY <1>10 DEF Finish
<1>11. ASSUME NEW r \in Requests, Recovered(r) PROVE Undisturbed'
  BY <1>11 DEF Recovered
<1>12. ASSUME Continue PROVE Undisturbed'
  BY <1>12 DEF Continue
<1>13. ASSUME Decrypted PROVE Undisturbed'
  BY <1>13 DEF Decrypted
<1>14. ASSUME CancelPassword PROVE Undisturbed'
  BY <1>14 DEF CancelPassword, Rejected
<1>15. ASSUME Confirm PROVE Undisturbed'
  BY <1>15 DEF Confirm, Shown
<1>16. ASSUME Cancel PROVE Undisturbed'
  BY <1>16 DEF Cancel, Rejected, Shown
<1>17. ASSUME ApproveAdd PROVE Undisturbed'
  BY <1>17 DEF ApproveAdd, OpenSwitch, Modal
<1>18. ASSUME CancelAdd PROVE Undisturbed'
  BY <1>18 DEF CancelAdd, Rejected, Modal
<1>19. ASSUME ApproveSwitch PROVE Undisturbed'
  BY <1>19 DEF ApproveSwitch, Modal
<1>20. ASSUME CancelSwitch PROVE Undisturbed'
  BY <1>20 DEF CancelSwitch, Modal
<1>21. ASSUME OpenBrowser PROVE Undisturbed'
  BY <1>21 DEF OpenBrowser
<1>22. ASSUME ExitBrowser PROVE Undisturbed'
  BY <1>22 DEF ExitBrowser, NoDialog, Shown
<1>23. ASSUME NEW c \in Chains, SelectChain(c) PROVE Undisturbed'
  BY <1>23 DEF SelectChain, NoDialog, Shown
<1>24. ASSUME NEW c \in Chains, RemoveChain(c) \/ RenumberChain(c) PROVE Undisturbed'
  BY <1>24 DEF RemoveChain, RenumberChain
<1>25. ASSUME UNCHANGED vars PROVE Undisturbed'
  BY <1>25 DEF vars
<1> QED
  BY <1>1, <1>2, <1>3, <1>4, <1>5, <1>6, <1>7, <1>8, <1>9, <1>10, <1>11, <1>12, <1>13,
     <1>14, <1>15, <1>16, <1>17, <1>18, <1>19, <1>20, <1>21, <1>22, <1>23, <1>24, <1>25
     DEF Next, PageAsks, HandlerStep, UserStep

(* A request that waits for the user is never left without a dialog, unless another one
   has overlapped it, and the chain that is shown is the one it is carried out on. *)
THEOREM ShowsWhatWaits == Spec => []WaitingIsShown
<1>1. Undisturbed => WaitingIsShown
  BY DEF Undisturbed, WaitingIsShown
<1> QED
  BY <1>1, InitInv, NextInv, InitUndisturbed, NextUndisturbed, PTL DEF Spec

-----------------------------------------------------------------------------
(* WalletConnect beside the browser *)

(* Beside WalletConnect the browser does what it does alone: a dapp's session uses the
   chains, and only selects and removes them as the user of the browser may. *)
THEOREM BrowserAsBefore == DappsSpec => Spec
<1>1. DappsInit => Init
  BY DEF DappsInit
<1>2. ASSUME ChainStep PROVE Next
  BY <1>2 DEF ChainStep, UserStep, Next
<1>3. ASSUME ConnectNext PROVE Next \/ UNCHANGED vars
  BY <1>2, <1>3 DEF ConnectNext
<1>4. [DappsNext]_<<vars, connectVars>> => [Next]_vars
  BY <1>3 DEF DappsNext
<1> QED
  BY <1>1, <1>4, PTL DEF DappsSpec, Spec

(* No request of a page that the user has cancelled is handed over for signing, whatever
   happens to the sessions of WalletConnect meanwhile. *)
THEOREM CancelledBesideConnect == DappsSpec => CancelledForGood
  BY BrowserAsBefore, CancelledStaysCancelled, PTL

(* What a click on "Confirm" carries out is what is shown, also when a dapp's session
   selects or removes chains. *)
THEOREM ConfirmsBesideConnect == DappsSpec => []ShownIsConfirmed
  BY BrowserAsBefore, ConfirmsWhatItShows, PTL

(* The other promises of the dialogs, likewise. *)
THEOREM CarriedOutOnceBesideConnect == DappsSpec => []CarriedOutOnce
  BY BrowserAsBefore, CarriesOutOnce, PTL

(* A request that waits is shown, whatever the sessions do. *)
THEOREM WaitingShownBesideConnect == DappsSpec => []WaitingIsShown
  BY BrowserAsBefore, ShowsWhatWaits, PTL

-----------------------------------------------------------------------------
(* The session *)

Links == {"unused", "asked", "proposed", "live", "over"}

AppStates == [connected: BOOLEAN, loading: BOOLEAN, peerMeta: BOOLEAN,
              connector: Connections \union {None}, chainConfig: Chains \union {None}]

(* A connection that has not ended is the one the program holds, and one that is alive
   is not waited for any more. *)
HeldConnection ==
  /\ link \in [Connections -> Links] /\ app \in AppStates
  /\ \A c \in Connections:
       /\ link[c] \in {"asked", "proposed", "live"} => app.connector = c
       /\ link[c] = "live" => ~app.loading

SessionInv == HeldConnection /\ SessionIsAsShown

(* Chains only change in the browser's part; what it selects is a chain. *)
ChainsTyped == chainConfigs \in SUBSET Chains /\ selectedChain \in Chains

(* Every step leaves the page with the session and the peer that it shows. *)
LEMMA NextSession ==
  SessionInv /\ ChainsTyped /\ [DappsNext]_<<vars, connectVars>> => SessionInv'
<1> SUFFICES ASSUME SessionInv, ChainsTyped, [DappsNext]_<<vars, connectVars>>
             PROVE  SessionInv'
  OBVIOUS
<1> USE CallsAssumption
    DEF SessionInv, HeldConnection, SessionIsAsShown, ChainsTyped, AppStates, Links, Reset,
        DefaultState, Ends
<1>1. ASSUME UNCHANGED connectionVars PROVE SessionInv'
  BY <1>1 DEF connectionVars
<1>2. ASSUME NEW c \in Connections, OpenUrl(c) PROVE SessionInv'
  BY <1>2 DEF OpenUrl
<1>3. ASSUME NEW c \in Connections, SessionRequest(c) PROVE SessionInv'
  BY <1>3 DEF SessionRequest
<1>4. ASSUME NEW c \in Connections, DappLeaves(c) PROVE SessionInv'
  BY <1>4 DEF DappLeaves
<1>5. ASSUME OpenBadUrl PROVE SessionInv'
  BY <1>5 DEF OpenBadUrl
<1>6. ASSUME RejectSession PROVE SessionInv'
  BY <1>6 DEF RejectSession
<1>7. ASSUME ApproveSession PROVE SessionInv'
  BY <1>7 DEF ApproveSession, ApproveVisible
<1>8. ASSUME KillSession PROVE SessionInv'
  BY <1>8 DEF KillSession
<1>9. ASSUME Restart PROVE SessionInv'
  BY <1>9 DEF Restart, Restored
<1>10. ASSUME CallStep PROVE SessionInv'
  BY <1>1, <1>10 DEF CallStep, CallRequest, FillIn, Approved, Failed, Thrown, ConfirmCall,
     PasswordGiven, PasswordRefused, CancelCall
<1> QED
  BY <1>1, <1>2, <1>3, <1>4, <1>5, <1>6, <1>7, <1>8, <1>9, <1>10
     DEF DappsNext, ConnectNext, ChainStep, Session, connectVars

(* The browser's invariant holds beside WalletConnect, too. *)
LEMMA BrowserInvariance == DappsSpec => []Inv
  BY BrowserAsBefore, Invariance, PTL

(* There is no session at the start. *)
LEMMA InitSession == DappsInit => SessionInv
BY CallsAssumption
   DEF DappsInit, ConnectInit, SessionInv, HeldConnection, SessionIsAsShown, AppStates, Links,
       DefaultState

(* What is shown as connected is alive, and what is alive is shown: links, approvals, a
   dapp that leaves and a restart each write back what they have seen, but the one
   connection that has not ended is always the one held. *)
THEOREM ShowsTheSession == DappsSpec => []SessionIsAsShown
<1>1. Inv => ChainsTyped
  BY DEF Inv, Typed, ChainsTyped
<1>2. SessionInv => SessionIsAsShown
  BY DEF SessionInv
<1> QED
  BY <1>1, <1>2, InitSession, NextSession, BrowserInvariance, PTL DEF DappsSpec

-----------------------------------------------------------------------------
(* The requests of the dapps *)

In(list, q) == \E i \in DOMAIN list: list[i] = q

Distinct(list) == \A i, j \in DOMAIN list: list[i] = list[j] => i = j

(* Adding a request that is not listed keeps the list free of repetitions. *)
LEMMA AddedToList ==
  ASSUME NEW list \in Seq(Calls), NEW q \in Calls
  PROVE  /\ Added(list, q) \in Seq(Calls)
         /\ \A p: In(Added(list, q), p) <=> In(list, p) \/ p = q
         /\ Distinct(list) /\ ~In(list, q) => Distinct(Added(list, q))
<1>1. /\ Added(list, q) \in Seq(Calls) /\ Len(Added(list, q)) = Len(list) + 1
      /\ \A i \in 1 .. Len(list): Added(list, q)[i] = list[i]
      /\ Added(list, q)[Len(list) + 1] = q
  BY DEF Added
<1>2. /\ DOMAIN list = 1 .. Len(list) /\ DOMAIN Added(list, q) = 1 .. Len(list) + 1
      /\ Len(list) \in Nat
  BY <1>1
<1>3. \A p: In(Added(list, q), p) <=> In(list, p) \/ p = q
  BY <1>1, <1>2 DEF In
<1>4. Distinct(list) /\ ~In(list, q) => Distinct(Added(list, q))
  BY <1>1, <1>2 DEF In, Distinct
<1> QED
  BY <1>1, <1>3, <1>4

(* Removing a request removes nothing else. *)
LEMMA RemovedFromList ==
  ASSUME NEW list \in Seq(Calls), NEW q \in Calls, Distinct(list)
  PROVE  /\ Removed(list, q) \in Seq(Calls)
         /\ \A p: In(Removed(list, q), p) <=> In(list, p) /\ p # q
         /\ Distinct(Removed(list, q))
<1>1. CASE ~In(list, q)
  BY <1>1 DEF Removed, In
<1>2. CASE In(list, q)
  <2> DEFINE place == CHOOSE i \in DOMAIN list: list[i] = q
             rest == Removed(list, q)
  <2>1. /\ place \in 1 .. Len(list) /\ list[place] = q /\ DOMAIN list = 1 .. Len(list)
        /\ Len(list) \in Nat
    BY <1>2 DEF In
  <2>2. rest = [i \in 1 .. Len(list) - 1 |-> list[IF i < place THEN i ELSE i + 1]]
    BY <1>2 DEF In, Removed
  <2> HIDE DEF place, rest
  <2>3. Len(list) - 1 \in Nat
    BY <2>1
  <2>4. \A i \in 1 .. Len(list) - 1: (IF i < place THEN i ELSE i + 1) \in 1 .. Len(list)
    BY <2>1
  <2>5. /\ rest \in Seq(Calls) /\ Len(rest) = Len(list) - 1
        /\ \A i \in 1 .. Len(list) - 1: rest[i] = list[IF i < place THEN i ELSE i + 1]
    <3>1. rest \in [1 .. Len(list) - 1 -> Calls]
      BY <2>1, <2>2, <2>4
    <3> QED
      BY <2>2, <2>3, <3>1
  <2>6. DOMAIN rest = 1 .. Len(list) - 1
    BY <2>5
  <2>7. \A i \in 1 .. Len(list): i # place => list[i] # q
    BY <2>1 DEF Distinct
  <2>8. \A p: In(list, p) /\ p # q => In(rest, p)
    <3> SUFFICES ASSUME NEW p, p # q, NEW i \in 1 .. Len(list), list[i] = p
                 PROVE  \E j \in 1 .. Len(list) - 1: rest[j] = p
      BY <2>1, <2>6 DEF In
    <3>1. CASE i < place
      BY <2>1, <2>5, <3>1
    <3>2. CASE i > place
      <4>1. i - 1 \in 1 .. Len(list) - 1 /\ rest[i - 1] = list[i]
        BY <2>1, <2>5, <3>2
      <4> QED
        BY <4>1
    <3>3. i # place
      BY <2>1
    <3> QED
      BY <2>1, <3>1, <3>2, <3>3
  <2>9. \A p: In(rest, p) => In(list, p) /\ p # q
    BY <2>1, <2>5, <2>6, <2>7 DEF In
  <2>10. Distinct(rest)
    <3> DEFINE old(i) == IF i < place THEN i ELSE i + 1
    <3>1. \A i, j \in 1 .. Len(list): i # j => list[i] # list[j]
      BY <2>1 DEF Distinct
    <3>2. \A i, j \in 1 .. Len(list) - 1: i # j => old(i) # old(j)
      BY <2>1
    <3>3. \A i \in 1 .. Len(list) - 1: old(i) \in 1 .. Len(list) /\ rest[i] = list[old(i)]
      BY <2>4, <2>5
    <3> HIDE DEF old
    <3>4. \A i, j \in 1 .. Len(list) - 1: i # j => rest[i] # rest[j]
      BY <3>1, <3>2, <3>3
    <3> QED
      BY <2>6, <3>4 DEF Distinct
  <2> QED
    BY <2>5, <2>8, <2>9, <2>10 DEF rest
<1> QED
  BY <1>1, <1>2

Handlers == [for: {"list", "sign"}, call: Calls, seen: Seq(Calls),
             by: Connections \union {None}]

CallsTyped ==
  /\ requests \in Seq(Calls) /\ from \in [Calls -> Connections \union {None}]
  /\ waits \in SUBSET Handlers
  /\ asking # None => asking \in Handlers /\ asking.for = "sign"
  /\ excused \in SUBSET Calls /\ stale \in BOOLEAN
  /\ replies \in [Calls -> Nat]

(* The handlers, and the one the password is asked for. *)
Running == waits \union {w \in {asking}: w # None}

(* No list, neither the one shown nor one a handler has seen, holds a request twice, one
   that is still being filled in, or one that has not come. *)
ListOnce(list) ==
  /\ Distinct(list)
  /\ \A q \in Calls: In(list, q) => from[q] # None
  /\ \A w \in waits: w.for = "list" => ~In(list, w.call)

ListsOnce ==
  /\ ListOnce(requests)
  /\ \A w \in Running: ListOnce(w.seen)
  /\ \A w \in waits: w.for = "list" =>
       /\ from[w.call] # None
       /\ \A v \in waits: v.for = "list" /\ v.call = w.call => v = w

(* A handler that signs is about the first request it has seen, and replies over the
   connection the request has come by; a request is excused when that one has ended. *)
RepliesArrive ==
  /\ \A w \in Running: w.for = "sign" =>
       /\ In(w.seen, w.call)
       /\ w.call \notin excused => w.by = from[w.call]
  /\ \A q \in Calls: from[q] # None /\ q \notin excused => link[from[q]] = "live"
  /\ \A q \in excused: from[q] # None

Coming(q) == \E w \in waits: w.for = "list" /\ w.call = q

(* As long as no list that has changed has been written back, what has had its reply is
   not listed, and what has not is listed or comes. *)
OneReply ==
  /\ \A q \in Calls: from[q] = None => replies[q] = 0
  /\ ~stale => \A q \in Calls:
       /\ replies[q] \in {0, 1}
       /\ replies[q] = 1 => ~In(requests, q) /\ ~Coming(q)
       /\ from[q] # None /\ q \notin excused /\ replies[q] = 0 =>
            In(requests, q) \/ Coming(q)

CallsInv == CallsTyped /\ ListsOnce /\ RepliesArrive /\ OneReply

(* An empty list has no request in it. *)
LEMMA EmptyList == <<>> \in Seq(Calls) /\ Distinct(<<>>) /\ \A q: ~In(<<>>, q)
BY DEF In, Distinct

(* There is no call at the start. *)
LEMMA InitCalls == DappsInit => CallsInv
<1> SUFFICES ASSUME DappsInit PROVE CallsInv
  OBVIOUS
<1> USE CallsAssumption, EmptyList DEF DappsInit, ConnectInit
<1>1. CallsTyped
  BY DEF CallsTyped
<1>2. ListsOnce
  BY DEF ListsOnce, ListOnce, Running
<1>3. RepliesArrive
  BY DEF RepliesArrive, Running
<1>4. OneReply
  BY DEF OneReply
<1> QED
  BY <1>1, <1>2, <1>3, <1>4 DEF CallsInv

(* The first request of a list is one of it. *)
LEMMA HeadIsIn ==
  ASSUME NEW list \in Seq(Calls), list # <<>>
  PROVE  Head(list) \in Calls /\ In(list, Head(list))
BY DEF In

(* The session's steps leave the lists alone; they excuse the requests of the connection
   they end. *)
LEMMA SessionKeepsCalls ==
  ASSUME SessionInv, CallsInv, Session, ~Restart
  PROVE  CallsInv'
<1>1. /\ UNCHANGED <<requests, from, waits, asking, replies, stale>>
      /\ excused \subseteq excused' /\ excused' \in SUBSET Calls
      /\ \A q \in excused': q \notin excused => from[q] # None
      /\ \A q \in Calls: from[q] # None /\ q \notin excused' => link'[from[q]] = "live"
  <2> USE CallsAssumption
      DEF SessionInv, HeldConnection, SessionIsAsShown, AppStates, CallsInv, CallsTyped,
          RepliesArrive, Ended, Ends, callVars
  <2>1. CASE \E c \in Connections: OpenUrl(c)
    BY <2>1 DEF OpenUrl
  <2>2. CASE \E c \in Connections: SessionRequest(c)
    BY <2>2 DEF SessionRequest
  <2>3. CASE \E c \in Connections: DappLeaves(c)
    BY <2>3 DEF DappLeaves
  <2>4. CASE OpenBadUrl
    BY <2>4 DEF OpenBadUrl
  <2>5. CASE RejectSession
    BY <2>5 DEF RejectSession, ApproveVisible
  <2>6. CASE ApproveSession
    BY <2>6 DEF ApproveSession
  <2>7. CASE KillSession
    BY <2>7 DEF KillSession
  <2> QED
    BY <2>1, <2>2, <2>3, <2>4, <2>5, <2>6, <2>7 DEF Session
<1>2. CallsTyped' /\ ListsOnce'
  BY <1>1 DEF CallsInv, CallsTyped, ListsOnce, ListOnce, Running
<1>3. RepliesArrive'
  BY <1>1 DEF CallsInv, CallsTyped, RepliesArrive, Running
<1>4. OneReply'
  BY <1>1 DEF CallsInv, OneReply, Coming
<1> QED
  BY <1>2, <1>3, <1>4 DEF CallsInv

(* A restart leaves no call behind that is waited for. *)
LEMMA RestartKeepsCalls == CallsInv /\ Restart => CallsInv'
<1> SUFFICES ASSUME CallsInv, Restart PROVE CallsInv'
  OBVIOUS
<1>1. /\ requests' = <<>> /\ waits' = {} /\ asking' = None
      /\ excused' = {q \in Calls: from[q] # None}
      /\ UNCHANGED <<from, replies, stale>>
  BY DEF Restart
<1>2. CallsTyped'
  BY <1>1, EmptyList DEF CallsInv, CallsTyped
<1>3. ListsOnce' /\ RepliesArrive'
  BY <1>1, EmptyList DEF ListsOnce, ListOnce, RepliesArrive, Running
<1>4. OneReply'
  BY <1>1, EmptyList DEF CallsInv, OneReply, Coming
<1> QED
  BY <1>2, <1>3, <1>4 DEF CallsInv

(* A request that comes is listed, filled in or excused. *)
LEMMA CallRequestKeepsCalls ==
  ASSUME CallsInv, NEW q \in Calls, NEW c \in Connections, NEW k \in {"sign", "send", "unknown"},
         CallRequest(q, c, k)
  PROVE  CallsInv'
<1> USE CallsAssumption DEF CallsInv
<1>1. /\ link[c] = "live" /\ from[q] = None /\ from' = [from EXCEPT ![q] = c]
      /\ UNCHANGED <<link, asking, replies, stale>>
  BY DEF CallRequest, connectionVars
<1>2. \A list: ListOnce(list) => ~In(list, q)
  BY <1>1 DEF ListOnce
<1>3. c # None /\ from'[q] = c /\ \A p \in Calls \ {q}: from'[p] = from[p]
  BY <1>1 DEF CallsTyped
<1>4. CASE excused' = excused \union {q} /\ UNCHANGED <<requests, waits>>
  <2>1. CallsTyped'
    BY <1>1, <1>4 DEF CallsTyped
  <2>2. ListsOnce'
    BY <1>1, <1>3, <1>4 DEF CallsTyped, ListsOnce, ListOnce, Running, Handlers
  <2>3. RepliesArrive'
    BY <1>1, <1>2, <1>3, <1>4 DEF CallsTyped, RepliesArrive, ListsOnce, Running, Handlers
  <2>4. OneReply'
    BY <1>1, <1>2, <1>3, <1>4 DEF OneReply, Coming
  <2> QED
    BY <2>1, <2>2, <2>3, <2>4
<1>5. CASE requests' = Added(requests, q) /\ UNCHANGED <<waits, excused>>
  <2>1. /\ requests' \in Seq(Calls) /\ Distinct(requests')
        /\ \A p: In(requests', p) <=> In(requests, p) \/ p = q
    BY <1>2, <1>5, AddedToList DEF CallsTyped, ListsOnce, ListOnce
  <2>2. CallsTyped'
    BY <1>1, <1>5, <2>1 DEF CallsTyped
  <2>3. ListsOnce'
    BY <1>1, <1>3, <1>5, <2>1 DEF CallsTyped, ListsOnce, ListOnce, Running, Handlers
  <2>4. RepliesArrive'
    BY <1>1, <1>2, <1>3, <1>5 DEF CallsTyped, RepliesArrive, ListsOnce, Running, Handlers
  <2>5. OneReply'
    BY <1>1, <1>2, <1>3, <1>5, <2>1 DEF OneReply, Coming, ListsOnce
  <2> QED
    BY <2>2, <2>3, <2>4, <2>5
<1>6. CASE /\ waits' = waits \union {[for |-> "list", call |-> q, seen |-> requests, by |-> c]}
           /\ UNCHANGED <<requests, excused>>
  <2> DEFINE new == [for |-> "list", call |-> q, seen |-> requests, by |-> c]
  <2>1. new \in Handlers /\ new.for = "list" /\ new.call = q /\ new.seen = requests
    BY DEF Handlers, CallsTyped
  <2>2. waits' = waits \union {new}
    BY <1>6
  <2> HIDE DEF new
  <2>3. CallsTyped'
    BY <1>1, <1>6, <2>1, <2>2 DEF CallsTyped
  <2>4. ListsOnce'
    BY <1>1, <1>2, <1>3, <1>6, <2>1, <2>2 DEF CallsTyped, ListsOnce, ListOnce, Running, Handlers
  <2>5. RepliesArrive'
    BY <1>1, <1>2, <1>3, <1>6, <2>1, <2>2
       DEF CallsTyped, RepliesArrive, ListsOnce, Running, Handlers
  <2>6. OneReply'
    BY <1>1, <1>2, <1>3, <1>6, <2>1, <2>2 DEF OneReply, Coming, ListsOnce
  <2> QED
    BY <2>3, <2>4, <2>5, <2>6
<1> QED
  BY <1>4, <1>5, <1>6 DEF CallRequest

(* One that is filled in is listed, unless it cannot be. *)
LEMMA FillInKeepsCalls ==
  ASSUME CallsInv, NEW w \in waits, FillIn(w)
  PROVE  CallsInv'
<1> USE DEF CallsInv
<1>1. /\ w.for = "list" /\ waits' = waits \ {w}
      /\ UNCHANGED <<link, from, asking, replies>>
  BY DEF FillIn, connectionVars
<1>2. /\ w.call \in Calls /\ w.seen \in Seq(Calls) /\ from[w.call] # None
      /\ ListOnce(w.seen) /\ ListOnce(requests) /\ ~In(w.seen, w.call)
      /\ \A v \in waits \ {w}: v.for = "list" => v.call # w.call
  BY <1>1 DEF CallsTyped, ListsOnce, ListOnce, Running, Handlers
<1>3. CASE WriteBack(w.seen, Added(w.seen, w.call)) /\ UNCHANGED excused
  <2>1. /\ requests' \in Seq(Calls) /\ Distinct(requests')
        /\ \A p: In(requests', p) <=> In(w.seen, p) \/ p = w.call
        /\ stale' = (stale \/ requests # w.seen)
    BY <1>2, <1>3, AddedToList DEF WriteBack, ListOnce
  <2>2. CallsTyped'
    BY <1>1, <1>3, <2>1 DEF CallsTyped
  <2>3. ListsOnce'
    BY <1>1, <1>2, <2>1 DEF CallsTyped, ListsOnce, ListOnce, Running
  <2>4. RepliesArrive'
    BY <1>1, <1>3 DEF RepliesArrive, Running
  <2>5. OneReply'
    <3> SUFFICES ASSUME ~stale' PROVE OneReply'
      BY <1>1 DEF OneReply
    <3>1. requests = w.seen /\ ~stale
      BY <2>1
    <3> QED
      BY <1>1, <1>2, <1>3, <2>1, <3>1 DEF OneReply, Coming
  <2> QED
    BY <2>2, <2>3, <2>4, <2>5
<1>4. CASE excused' = excused \union {w.call} /\ UNCHANGED <<requests, stale>>
  <2>1. CallsTyped'
    BY <1>1, <1>2, <1>4 DEF CallsTyped
  <2>2. ListsOnce'
    BY <1>1, <1>4 DEF ListsOnce, ListOnce, Running
  <2>3. RepliesArrive'
    BY <1>1, <1>2, <1>4 DEF RepliesArrive, Running
  <2>4. OneReply'
    BY <1>1, <1>2, <1>4 DEF OneReply, Coming
  <2> QED
    BY <2>1, <2>2, <2>3, <2>4
<1> QED
  BY <1>3, <1>4 DEF FillIn

(* The handler of the confirmation is about the first request, over its connection. *)
LEMMA HandlerFits ==
  ASSUME SessionInv, CallsInv, ConfirmationShown
  PROVE  /\ Handler \in Handlers /\ Handler.for = "sign" /\ ListOnce(Handler.seen)
         /\ In(Handler.seen, Handler.call)
         /\ Handler.call \notin excused => Handler.by = from[Handler.call]
<1>1. /\ requests \in Seq(Calls) /\ requests # <<>>
      /\ app.connector \in Connections \union {None} /\ ListOnce(requests)
  BY DEF CallsInv, CallsTyped, ListsOnce, ConfirmationShown, SessionInv, HeldConnection,
         AppStates
<1>2. Head(requests) \in Calls /\ In(requests, Head(requests))
  BY <1>1, HeadIsIn
<1>3. Head(requests) \notin excused => app.connector = from[Head(requests)]
  <2>1. from[Head(requests)] \in Connections
    BY <1>1, <1>2 DEF ListOnce, CallsInv, CallsTyped
  <2>2. Head(requests) \notin excused => link[from[Head(requests)]] = "live"
    BY <1>2, <2>1, CallsAssumption DEF CallsInv, RepliesArrive
  <2> QED
    BY <2>1, <2>2 DEF SessionInv, HeldConnection
<1> QED
  BY <1>1, <1>2, <1>3 DEF Handler, Handlers

(* Starting a handler, or asking the password for it, changes no list. *)
LEMMA StartKeepsCalls ==
  ASSUME CallsInv, NEW w \in Handlers, w.for = "sign", ListOnce(w.seen), In(w.seen, w.call),
         w.call \notin excused => w.by = from[w.call],
         UNCHANGED <<link, requests, from, replies, excused, stale>>,
         \/ waits' = waits \union {w} /\ asking' \in {asking, None}
         \/ waits' = waits /\ asking' = w
         \/ waits' = waits /\ asking' = None
  PROVE  CallsInv'
<1> USE DEF CallsInv
<1>1. CallsTyped'
  BY DEF CallsTyped
<1>2. ListsOnce'
  BY DEF ListsOnce, ListOnce, Running
<1>3. RepliesArrive'
  BY DEF RepliesArrive, Running
<1>4. OneReply'
  BY DEF OneReply, Coming
<1> QED
  BY <1>1, <1>2, <1>3, <1>4

(* A reply arrives once, and the request leaves the list with it. *)
LEMMA ApprovedKeepsCalls ==
  ASSUME CallsInv, NEW w \in waits, Approved(w)
  PROVE  CallsInv'
<1> USE CallsAssumption DEF CallsInv
<1>1. /\ w.for = "sign" /\ waits' = waits \ {w}
      /\ stale' = (stale \/ requests # w.seen)
      /\ requests' = Removed(w.seen, w.call)
      /\ UNCHANGED <<link, from, asking, excused>>
  BY DEF Approved, Signing, WriteBack, connectionVars
<1>2. /\ w.call \in Calls /\ w.seen \in Seq(Calls) /\ ListOnce(w.seen)
      /\ In(w.seen, w.call) /\ from[w.call] # None
      /\ w.call \notin excused => w.by = from[w.call] /\ link[w.by] = "live"
  BY <1>1 DEF CallsTyped, ListsOnce, ListOnce, RepliesArrive, Running, Handlers
<1>3. /\ requests' \in Seq(Calls) /\ Distinct(requests')
      /\ \A p: In(requests', p) <=> In(w.seen, p) /\ p # w.call
  BY <1>1, <1>2, RemovedFromList DEF ListOnce
<1>4. /\ replies' \in [Calls -> Nat]
      /\ \A q \in Calls \ {w.call}: replies'[q] = replies[q]
      /\ replies'[w.call] \in {replies[w.call], replies[w.call] + 1}
      /\ w.call \notin excused => replies'[w.call] = replies[w.call] + 1
  BY <1>2 DEF Approved, Reply, CallsTyped
<1>5. CallsTyped'
  BY <1>1, <1>3, <1>4 DEF CallsTyped
<1>6. ListsOnce'
  BY <1>1, <1>2, <1>3 DEF ListsOnce, ListOnce, Running
<1>7. RepliesArrive'
  BY <1>1 DEF RepliesArrive, Running
<1>8. OneReply'
  <2>1. \A q \in Calls: from'[q] = None => replies'[q] = 0
    BY <1>1, <1>2, <1>4 DEF OneReply
  <2>2. ASSUME ~stale', NEW q \in Calls
        PROVE  /\ replies'[q] \in {0, 1}
               /\ replies'[q] = 1 => ~In(requests', q) /\ ~Coming(q)'
               /\ from'[q] # None /\ q \notin excused' /\ replies'[q] = 0 =>
                    In(requests', q) \/ Coming(q)'
    <3>1. requests = w.seen /\ ~stale
      BY <1>1, <2>2
    <3>2. Coming(q)' <=> Coming(q)
      BY <1>1 DEF Coming
    <3>3. CASE q = w.call
      <4>1. replies[q] = 0 /\ ~Coming(q)
        BY <1>2, <3>1, <3>3 DEF OneReply, Coming, ListOnce
      <4> QED
        BY <1>1, <1>3, <1>4, <3>2, <3>3, <4>1
    <3>4. CASE q # w.call
      BY <1>1, <1>3, <1>4, <3>1, <3>2, <3>4 DEF OneReply
    <3> QED
      BY <3>3, <3>4
  <2> QED
    BY <2>1, <2>2 DEF OneReply
<1> QED
  BY <1>5, <1>6, <1>7, <1>8

(* "Reject" replies over the connection shown, which is the one the request came by. *)
LEMMA CancelKeepsCalls ==
  ASSUME SessionInv, CallsInv, CancelCall
  PROVE  CallsInv'
<1> USE CallsAssumption DEF CallsInv
<1> DEFINE q0 == Head(requests)
<1>1. /\ requests' = Removed(requests, q0)
      /\ UNCHANGED <<link, from, waits, asking, excused, stale>>
  BY DEF CancelCall, connectionVars
<1>2. /\ q0 \in Calls /\ requests \in Seq(Calls) /\ ListOnce(requests)
      /\ In(requests, q0) /\ from[q0] # None
      /\ q0 \notin excused => app.connector = from[q0] /\ link[app.connector] = "live"
  <2>1. /\ requests \in Seq(Calls) /\ requests # <<>> /\ ListOnce(requests)
    BY DEF CallsTyped, ListsOnce, CancelCall, ConfirmationShown
  <2>2. q0 \in Calls /\ In(requests, q0)
    BY <2>1, HeadIsIn
  <2>3. from[q0] \in Connections
    BY <2>1, <2>2 DEF ListOnce, CallsTyped
  <2> QED
    BY <2>1, <2>2, <2>3 DEF RepliesArrive, SessionInv, HeldConnection
<1> HIDE DEF q0
<1>3. /\ requests' \in Seq(Calls) /\ Distinct(requests')
      /\ \A p: In(requests', p) <=> In(requests, p) /\ p # q0
  BY <1>1, <1>2, RemovedFromList DEF ListOnce
<1>4. /\ replies' \in [Calls -> Nat]
      /\ \A q \in Calls \ {q0}: replies'[q] = replies[q]
      /\ replies'[q0] \in {replies[q0], replies[q0] + 1}
      /\ q0 \notin excused => replies'[q0] = replies[q0] + 1
  BY <1>2 DEF CancelCall, Reply, CallsTyped, q0
<1>5. CallsTyped'
  BY <1>1, <1>3, <1>4 DEF CallsTyped
<1>6. ListsOnce'
  BY <1>1, <1>2, <1>3 DEF ListsOnce, ListOnce, Running
<1>7. RepliesArrive'
  BY <1>1 DEF RepliesArrive, Running
<1>8. OneReply'
  <2>1. \A q \in Calls: from'[q] = None => replies'[q] = 0
    BY <1>1, <1>2, <1>4 DEF OneReply
  <2>2. ASSUME ~stale', NEW q \in Calls
        PROVE  /\ replies'[q] \in {0, 1}
               /\ replies'[q] = 1 => ~In(requests', q) /\ ~Coming(q)'
               /\ from'[q] # None /\ q \notin excused' /\ replies'[q] = 0 =>
                    In(requests', q) \/ Coming(q)'
    <3>1. ~stale /\ (Coming(q)' <=> Coming(q))
      BY <1>1, <2>2 DEF Coming
    <3>2. CASE q = q0
      <4>1. replies[q] = 0 /\ ~Coming(q)
        BY <1>2, <3>1, <3>2 DEF OneReply, Coming, ListOnce
      <4> QED
        BY <1>1, <1>3, <1>4, <3>1, <3>2, <4>1
    <3>3. CASE q # q0
      BY <1>1, <1>3, <1>4, <3>1, <3>3 DEF OneReply
    <3> QED
      BY <3>2, <3>3
  <2> QED
    BY <2>1, <2>2 DEF OneReply
<1> QED
  BY <1>5, <1>6, <1>7, <1>8

(* CallsInv is inductive, given the session's invariant. *)
LEMMA NextCalls ==
  SessionInv /\ CallsInv /\ [DappsNext]_<<vars, connectVars>> => CallsInv'
<1> SUFFICES ASSUME SessionInv, CallsInv, [DappsNext]_<<vars, connectVars>> PROVE CallsInv'
  OBVIOUS
<1>1. CASE UNCHANGED connectVars
  BY <1>1 DEF connectVars, connectionVars, callVars, CallsInv, CallsTyped, ListsOnce, ListOnce,
              RepliesArrive, OneReply, Coming, Running
<1>2. CASE Session
  BY <1>2, SessionKeepsCalls, RestartKeepsCalls
<1>3. ASSUME NEW q \in Calls, NEW c \in Connections, NEW k \in {"sign", "send", "unknown"},
             CallRequest(q, c, k)
      PROVE  CallsInv'
  BY <1>3, CallRequestKeepsCalls
<1>4. ASSUME NEW w \in waits, FillIn(w) PROVE CallsInv'
  BY <1>4, FillInKeepsCalls
<1>5. ASSUME NEW w \in waits, Approved(w) PROVE CallsInv'
  BY <1>5, ApprovedKeepsCalls
<1>6. ASSUME NEW w \in waits, Failed(w) \/ Thrown(w) PROVE CallsInv'
  <2>1. /\ w.for = "sign" /\ waits' = waits \ {w}
        /\ UNCHANGED <<link, requests, from, asking, replies, excused, stale>>
    BY <1>6 DEF Failed, Thrown, Signing, connectionVars, history
  <2> QED
    BY <2>1 DEF CallsInv, CallsTyped, ListsOnce, ListOnce, RepliesArrive, OneReply, Coming,
                Running
<1>7. CASE ConfirmCall
  <2>1. /\ ConfirmationShown /\ UNCHANGED <<link, requests, from, replies, excused, stale>>
        /\ \/ waits' = waits \union {Handler} /\ asking' = asking
           \/ waits' = waits /\ asking' = Handler
    BY <1>7 DEF ConfirmCall, Starts, connectionVars
  <2> QED
    BY <2>1, HandlerFits, StartKeepsCalls
<1>8. CASE PasswordGiven \/ PasswordRefused
  <2>1. /\ asking \in Handlers /\ asking.for = "sign" /\ ListOnce(asking.seen)
        /\ In(asking.seen, asking.call)
        /\ asking.call \notin excused => asking.by = from[asking.call]
    BY <1>8 DEF PasswordGiven, PasswordRefused, CallsInv, CallsTyped, ListsOnce,
                RepliesArrive, Running
  <2>2. /\ UNCHANGED <<link, requests, from, replies, excused, stale>>
        /\ \/ waits' = waits \union {asking} /\ asking' = None
           \/ waits' = waits /\ asking' = None
    BY <1>8 DEF PasswordGiven, PasswordRefused, Starts, connectionVars, history
  <2> QED
    BY <2>1, <2>2, StartKeepsCalls
<1>9. CASE CancelCall
  BY <1>9, CancelKeepsCalls
<1> QED
  BY <1>1, <1>2, <1>3, <1>4, <1>5, <1>6, <1>7, <1>8, <1>9
     DEF DappsNext, ConnectNext, ChainStep, CallStep

(* A list without repetitions holds a request at one place, or at none; likewise the
   handlers that fill it in. *)
LEMMA CountOnce ==
  ASSUME CallsInv, NEW q \in Calls
  PROVE  Times(q) = IF In(requests, q) \/ Coming(q) THEN 1 ELSE 0
<1> DEFINE places == {i \in DOMAIN requests: requests[i] = q}
           coming == {w \in waits: w.for = "list" /\ w.call = q}
<1>1. Times(q) = Cardinality(places) + Cardinality(coming)
  BY DEF Times
<1>2. \A x: Cardinality({x}) = 1
  BY FS_Singleton
<1>3. Cardinality({}) = 0
  BY FS_EmptySet
<1>4. (~In(requests, q) => places = {}) /\ (In(requests, q) => \E i: places = {i})
  <2>1. \A i, j \in places: i = j
    BY DEF CallsInv, ListsOnce, ListOnce, Distinct
  <2>2. In(requests, q) <=> \E i: i \in places
    BY DEF In
  <2> HIDE DEF places
  <2> QED
    BY <2>1, <2>2
<1>5. (~Coming(q) => coming = {}) /\ (Coming(q) => \E w: coming = {w})
  BY DEF CallsInv, ListsOnce, Coming
<1>6. ~(In(requests, q) /\ Coming(q))
  BY DEF CallsInv, ListsOnce, ListOnce, Coming
<1> HIDE DEF places, coming
<1>7. Cardinality(places) = IF In(requests, q) THEN 1 ELSE 0
  BY <1>2, <1>3, <1>4
<1>8. Cardinality(coming) = IF Coming(q) THEN 1 ELSE 0
  BY <1>2, <1>3, <1>5
<1> QED
  BY <1>1, <1>6, <1>7, <1>8

(* No request of a dapp is lost and none has two replies, however requests, replies and
   the sessions overlap, until a handler writes back a list that has changed: what came
   over a connection that is alive is being filled in, or listed, or has been answered. *)
THEOREM AnswersEveryCall == DappsSpec => []EveryCallIsAnswered
<1>1. CallsInv => EveryCallIsAnswered
  <2> SUFFICES ASSUME CallsInv, ~stale, NEW q \in Calls, from[q] # None, q \notin excused
               PROVE  Times(q) + replies[q] = 1
    BY DEF EveryCallIsAnswered
  <2>1. replies[q] = IF In(requests, q) \/ Coming(q) THEN 0 ELSE 1
    BY DEF CallsInv, OneReply
  <2> QED
    BY <2>1, CountOnce
<1>2. Inv => ChainsTyped
  BY DEF Inv, Typed, ChainsTyped
<1> QED
  BY <1>1, <1>2, InitSession, NextSession, InitCalls, NextCalls, BrowserInvariance, PTL
     DEF DappsSpec
=============================================================================
