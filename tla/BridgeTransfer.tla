---------------------------- MODULE BridgeTransfer -----------------------------
(***************************************************************************)
(* A transfer over the Cronos bridge: the form and the steps after it, the *)
(* transaction that is sent for it, the requests that look for its other   *)
(* end, and the lock that keeps the user on the page meanwhile.            *)
(*                                                                         *)
(* A run is one click on "Confirm".  When its transaction has been sent,   *)
(* a timer asks the bridge for it every few seconds without waiting for    *)
(* the answers, whether or not the page is still there.                    *)
(***************************************************************************)
EXTENDS BridgeForm, Sequences

CONSTANTS
  MaxRuns,      \* bound: clicks on "Confirm"
  MaxFailures,  \* callMaxCount
  MaxFlights,   \* bound: requests of a run that are not answered at a time
  MaxVisits,    \* bound: how often the form is opened
  MaxRequests   \* bound: how often the form is filled in

ASSUME ConstantsAssumption ==
  /\ {MaxFailures, MaxFlights} \subseteq Nat \ {0}
  /\ {MaxRuns, MaxVisits, MaxRequests} \subseteq Nat

\* In the order of the clicks.
Runs == 1..MaxRuns

VARIABLES
  view,        \* what is open: something else, the form of the bridge, its history
  mount,       \* which opening of the form it is
  step,        \* currentStep of the page
  request,     \* bridgeTransferRequest, Nothing for the one the page starts with
  requests,    \* how many there have been
  transfering, \* isBridgeTransfering
  failed,      \* bridgeTransferError
  hashed,      \* broadcastResult has a transactionHash
  pageLock,    \* pageLockState is 'bridge'
  stored,      \* the bridge configuration in bridgeConfigStore
  run,         \* run[r]: how far the run is
  tx,          \* tx[r]: what has become of its transaction
  arrived      \* the runs whose transfer has arrived on the other chain

vars == <<fields, view, mount, step, request, requests, transfering, failed,
          hashed, pageLock, stored, run, tx, arrived>>

sending == <<request, transfering, failed, hashed>>
page == <<fields, view, mount, step, requests, sending, pageLock>>
chain == <<tx, arrived>>

\* overlap: history; a second request was sent before the first was answered.
NoRun ==
  [pc |-> "idle", mount |-> 0, request |-> 0, evm |-> FALSE, result |-> "none",
   rows |-> <<>>, ticking |-> FALSE, flights |-> 0, failures |-> 0, lost |-> FALSE,
   overlap |-> FALSE]

PageAtStart ==
  /\ request' = Nothing
  /\ transfering' = FALSE
  /\ failed' = FALSE
  /\ hashed' = FALSE

Init ==
  /\ FormInit
  /\ view = "away"
  /\ mount = 0
  /\ step = 0
  /\ request = Nothing /\ requests = 0
  /\ transfering = FALSE /\ failed = FALSE /\ hashed = FALSE
  /\ pageLock = FALSE
  /\ stored = "default"
  /\ run = [r \in Runs |-> NoRun]
  /\ tx = [r \in Runs |-> "none"]
  /\ arrived = {}

-----------------------------------------------------------------------------
(* The configuration *)

\* loadBridgeConfig saves the defaults over all stored configurations first.
LoadConfig == stored' = "default"

\* The dialog for the settings, and its button for the defaults.
Settings == {"default", "own"}

SaveConfig ==
  /\ view = "bridge" /\ step = 0 /\ valid
  /\ stored' \in Settings
  /\ UNCHANGED <<page, run, chain>>

-----------------------------------------------------------------------------
(* The page *)

\* The form is mounted: it loads the configuration and unlocks the page.
Mount ==
  /\ mount < MaxVisits
  /\ view' = "bridge"
  /\ mount' = mount + 1
  /\ PageAtStart
  /\ FormMounted
  /\ pageLock' = FALSE
  /\ LoadConfig

Open ==
  /\ view = "away"
  /\ step' = 0
  /\ Mount
  /\ UNCHANGED <<requests, run, chain>>

\* conditionalLink: a locked page is left with one more click, which unlocks it.
Leave ==
  /\ view # "away"
  /\ view' = "away"
  /\ PageAtStart
  /\ pageLock' = FALSE
  /\ UNCHANGED <<fields, mount, step, requests, stored, run, chain>>

\* From the first step, or from the last one when a transfer is over.  The history
\* reads the configuration as well.
History ==
  /\ view = "bridge"
  /\ step = 0 \/ (step = 2 /\ hashed /\ ~transfering)
  /\ view' = "history"
  /\ step' = 0
  /\ PageAtStart
  /\ LoadConfig
  /\ UNCHANGED <<fields, mount, requests, pageLock, run, chain>>

CloseHistory ==
  /\ view = "history"
  /\ Mount
  /\ UNCHANGED <<step, requests, run, chain>>

\* Bound: the form is filled in until the first transfer is confirmed.
Fill ==
  /\ view = "bridge" /\ step = 0
  /\ \A r \in Runs : run[r].pc = "idle"
  /\ FillIn
  /\ LoadConfig
  /\ UNCHANGED <<view, mount, step, requests, sending, pageLock, run, chain>>

\* getBridgeTransactionFee: what the fee depends on is local, too.
AskFee == LoadConfig

\* showPasswordInput and onWalletDecryptFinish.  What they wait for is local: the
\* phrase, the configuration and the assets.
Prepare ==
  /\ view = "bridge" /\ step = 0
  /\ Complete
  /\ requests < MaxRequests
  /\ requests' = requests + 1
  /\ request' = TheRequest
  /\ step' = 1
  /\ transfering' = TRUE
  /\ pageLock' = TRUE
  /\ AskFee
  /\ UNCHANGED <<fields, view, mount, failed, hashed, run, chain>>

\* isBridgeTransfering becomes FALSE; the effect on it unlocks the page.
Stops ==
  /\ transfering' = FALSE
  /\ pageLock' = (pageLock /\ ~transfering)

\* mutant: the arrow is there while the transfer is being sent
BackFromAnyStep == step > 0

BackShown == step = 1 \/ failed

FailedAfterBack == FALSE

Back ==
  /\ view = "bridge"
  /\ BackShown
  /\ step' = step - 1
  /\ failed' = FailedAfterBack
  /\ IF step = 1
     THEN Stops /\ FormRestored
     ELSE UNCHANGED <<transfering, pageLock, fields>>
  /\ UNCHANGED <<view, mount, request, requests, hashed, stored, run, chain>>

\* From Cronos by a call of the bridge's contract, else by an IBC transfer.
ByContract(req) == req.direction[1] = "CRONOS"

\* onConfirmation, until it waits.
Confirm(r) ==
  /\ view = "bridge" /\ step = 1
  /\ request # Nothing
  /\ run[r].pc = "idle" /\ \A q \in Runs : q < r => run[q].pc # "idle"
  /\ step' = 2
  /\ run' = [run EXCEPT ![r] = [NoRun EXCEPT !.pc = "load", !.mount = mount,
                                             !.request = requests,
                                             !.evm = ByContract(request),
                                             !.rows = <<"pending">>]]
  /\ UNCHANGED <<fields, view, mount, requests, sending, pageLock, stored, chain>>

-----------------------------------------------------------------------------
(* handleBridgeTransaction *)

To(r, pc) == run' = [run EXCEPT ![r].pc = pc]

Fails(r) == run' = [run EXCEPT ![r].result = "error", ![r].pc = "told"]

\* The session, the account and the configuration; a node that does not answer, or a
\* configuration that is missing, is an error.
PrepareTransaction(r) ==
  /\ run[r].pc = "load"
  /\ \/ To(r, "sign") /\ LoadConfig
     \/ Fails(r) /\ UNCHANGED stored
  /\ UNCHANGED <<page, chain>>

\* A Ledger may be away, locked or in another application, or the user declines.
Sign(r) ==
  /\ run[r].pc = "sign"
  /\ \/ To(r, "broadcast")
     \/ Fails(r)
  /\ UNCHANGED <<page, stored, chain>>

\* The node takes the transaction; the answer may be lost on its way.
Taken(r, result, pc) ==
  /\ run[r].pc = "broadcast"
  /\ tx' = [tx EXCEPT ![r] = "pool"]
  /\ \/ run' = [run EXCEPT ![r].result = result, ![r].pc = pc]
     \/ run' = [run EXCEPT ![r].lost = TRUE, ![r].result = "error", ![r].pc = "told"]
  /\ UNCHANGED <<page, stored, arrived>>

\* The client of a Tendermint chain goes on to wait for the block.
TransferTaken(r) == ~run[r].evm /\ Taken(r, "none", "poll")

CallTaken(r) == run[r].evm /\ Taken(r, "hash", "refresh")

Refused(r) ==
  /\ run[r].pc = "broadcast"
  /\ Fails(r)
  /\ UNCHANGED <<page, stored, chain>>

\* mutant: a transaction that has failed in its block is one, too
InBlock(r) == tx[r] \in {"done", "failed"}

HasRun(r) == tx[r] = "done"

\* Tendermint: until the transaction is in a block, has failed there, or the client
\* gives up, which is an error or, with the node's own text, a result without hash.
Poll(r) ==
  /\ run[r].pc = "poll"
  /\ \/ /\ HasRun(r)
        /\ run' = [run EXCEPT ![r].result = "hash", ![r].pc = "refresh"]
     \/ tx[r] = "failed" /\ Fails(r)
     \/ run' = [run EXCEPT ![r].result = "timeout", ![r].lost = TRUE, ![r].pc = "refresh"]
     \/ run' = [run EXCEPT ![r].result = "error", ![r].lost = TRUE, ![r].pc = "told"]
  /\ UNCHANGED <<page, stored, chain>>

RefreshBalances(r) ==
  /\ run[r].pc = "refresh"
  /\ To(r, "told")
  /\ UNCHANGED <<page, stored, chain>>

\* The form the run was started on is still there.
Here(r) == view = "bridge" /\ run[r].mount = mount

Row(r, row) == Append(run[r].rows, row)

\* mutant: the page is unlocked as soon as the transaction has been sent
UnlocksEarly(r) == IF Here(r) THEN Stops ELSE UNCHANGED <<transfering, pageLock>>

LockAfterDeposit(r) == UNCHANGED <<transfering, pageLock>>

\* The result is shown; without an error the run goes on to look for the other end.
Deposited(r) ==
  /\ run[r].pc = "told"
  /\ run[r].result # "error"
  /\ run' = [run EXCEPT ![r].rows = Row(r, "deposit"), ![r].pc = "wait"]
  /\ hashed' = IF Here(r) THEN run[r].result = "hash" ELSE hashed
  /\ LockAfterDeposit(r)
  /\ UNCHANGED <<fields, view, mount, step, request, requests, failed, stored, chain>>

NotDeposited(r) ==
  /\ run[r].pc = "told"
  /\ run[r].result = "error"
  /\ run' = [run EXCEPT ![r].rows = Row(r, "failed"), ![r].pc = "over"]
  /\ IF Here(r)
     THEN Stops /\ failed' = TRUE
     ELSE UNCHANGED <<transfering, pageLock, failed>>
  /\ UNCHANGED <<fields, view, mount, step, request, requests, hashed, stored, chain>>

-----------------------------------------------------------------------------
(* The timer *)

StartTimer(r) ==
  /\ run[r].pc = "wait"
  /\ run' = [run EXCEPT ![r].pc = "follow", ![r].ticking = TRUE]
  /\ UNCHANGED <<page, stored, chain>>

Tick(r) ==
  /\ run[r].ticking
  /\ run[r].flights < MaxFlights
  /\ run' = [run EXCEPT ![r].flights = @ + 1,
                        ![r].overlap = @ \/ run[r].flights > 0]
  /\ LoadConfig
  /\ UNCHANGED <<page, chain>>

\* mutant: the page stays locked
StaysLocked(r) == UNCHANGED <<transfering, pageLock>>

Unlocks(r) == IF Here(r) THEN Stops ELSE UNCHANGED <<transfering, pageLock>>

\* getBridgeTransactionByHash has found the other transaction.
Found(r) ==
  /\ run[r].flights > 0
  /\ r \in arrived /\ run[r].result = "hash"
  /\ run' = [run EXCEPT ![r].flights = @ - 1, ![r].ticking = FALSE,
                        ![r].rows = Row(r, "completed")]
  /\ Unlocks(r)
  /\ UNCHANGED <<fields, view, mount, step, request, requests, failed, hashed, stored,
                 chain>>

\* An error, or it does not know of one yet.
NotFound(r) ==
  /\ run[r].flights > 0
  /\ run[r].failures + 1 < MaxFailures
  /\ run' = [run EXCEPT ![r].flights = @ - 1, ![r].failures = @ + 1]
  /\ UNCHANGED <<page, stored, chain>>

GivesUp(r) ==
  /\ run[r].flights > 0
  /\ run[r].failures + 1 >= MaxFailures
  /\ run' = [run EXCEPT ![r].flights = @ - 1, ![r].failures = @ + 1,
                        ![r].ticking = FALSE, ![r].rows = Row(r, "initiated")]
  /\ Unlocks(r)
  /\ UNCHANGED <<fields, view, mount, step, request, requests, failed, hashed, stored,
                 chain>>

-----------------------------------------------------------------------------
(* The chains *)

\* A transaction in the pool runs in a block, fails in one, or is dropped.
Settle(r) ==
  /\ tx[r] = "pool"
  /\ \E end \in {"done", "failed", "dropped"} : tx' = [tx EXCEPT ![r] = end]
  /\ UNCHANGED <<page, stored, run, arrived>>

Arrive(r) ==
  /\ tx[r] = "done"
  /\ r \notin arrived
  /\ arrived' = arrived \cup {r}
  /\ UNCHANGED <<page, stored, run, tx>>

-----------------------------------------------------------------------------
Sending(r) ==
  \/ PrepareTransaction(r) \/ Sign(r) \/ TransferTaken(r) \/ CallTaken(r) \/ Refused(r) \/ Poll(r)
  \/ RefreshBalances(r) \/ Deposited(r) \/ NotDeposited(r) \/ StartTimer(r)

Answer(r) == Found(r) \/ NotFound(r) \/ GivesUp(r)

Next ==
  \/ SaveConfig \/ Open \/ Leave \/ History \/ CloseHistory \/ Fill \/ Prepare \/ Back
  \/ \E r \in Runs :
       Confirm(r) \/ Sending(r) \/ Tick(r) \/ Answer(r) \/ Settle(r) \/ Arrive(r)

\* Requests are answered or fail in the end, and timers go off.
Fairness ==
  \A r \in Runs : WF_vars(Sending(r)) /\ WF_vars(Tick(r)) /\ WF_vars(Answer(r))

Spec == Init /\ [][Next]_vars /\ Fairness

-----------------------------------------------------------------------------
Rows == {"pending", "deposit", "failed", "initiated", "completed"}

RunSet ==
  [pc : {"idle", "load", "sign", "broadcast", "poll", "refresh", "told", "wait",
         "follow", "over"},
   mount : Nat, request : Nat, evm : BOOLEAN,
   result : {"none", "hash", "timeout", "error"}, rows : Seq(Rows),
   ticking : BOOLEAN, flights : 0..MaxFlights, failures : Nat, lost : BOOLEAN,
   overlap : BOOLEAN]

TypeOK ==
  /\ FormTypeOK
  /\ {transfering, failed, hashed, pageLock} \subseteq BOOLEAN
  /\ view \in {"away", "bridge", "history"}
  /\ step \in 0..2
  /\ {mount, requests} \subseteq Nat
  /\ request \in Requests \cup {Nothing}
  /\ stored \in {"default", "own"}
  /\ run \in [Runs -> RunSet]
  /\ tx \in [Runs -> {"none", "pool", "done", "failed", "dropped"}]
  /\ arrived \subseteq Runs

Shows(r, row) == \E i \in DOMAIN run[r].rows : run[r].rows[i] = row

Outcomes == {"failed", "initiated", "completed"}

\* What is confirmed is what the confirmation shows: the chains, an asset that goes
\* from the one to the other, and the address.
RequestIsAsShown ==
  step = 1 /\ request # Nothing =>
    request = Confirmation /\ request.asset \in Supported(request.direction)

\* "Deposit of ... is completed": the transaction is in a block and has not failed
\* there.  An EVM node has only taken it, and a timeout looks like a deposit, too.
\* "Deposit of ... is failed": it never runs, unless its answer got lost.
\* "Transfer Completed": it has arrived.
\* And the list ends with one outcome: no timer goes off and no answer is told of after
\* it, unless two requests of the run have been under way at a time.
BridgeTellsTheTruth ==
  \A r \in Runs :
    /\ \/ run[r].overlap
       \/ Cardinality({i \in DOMAIN run[r].rows : run[r].rows[i] \in Outcomes}) <= 1
    /\ Shows(r, "deposit") => tx[r] = "done" \/ run[r].evm \/ run[r].result = "timeout"
    /\ Shows(r, "failed")  => tx[r] \notin {"pool", "done"} \/ run[r].lost
    /\ Shows(r, "completed") => r \in arrived

\* A request is paid for once: the page only goes back to the confirmation when the
\* transaction has failed, or its answer got lost.
OnePaymentPerRequest ==
  \A q, r \in Runs :
    q < r /\ run[q].request = run[r].request
    /\ {tx[q], tx[r]} \subseteq {"pool", "done"} => run[q].lost

Unfinished(r) ==
  run[r].pc \notin {"idle", "over"} /\ run[r].rows \in Seq(Rows \ Outcomes)

Again(r) == \E q \in Runs : q < r /\ run[q].request = run[r].request

\* "Bridge Transfer is not completed": the page is locked as long as its transfer has
\* no outcome, but for a transfer that is confirmed again after it has failed.
LockedWhileUnfinished ==
  \A r \in Runs : run[r].request # 0 /\ Here(r) /\ Unfinished(r) => pageLock \/ Again(r)

\* The page of a transfer that has been confirmed does not stay locked.
LockReleased == (pageLock /\ step = 2) ~> ~pageLock

\* "Bridge Config updated successfully": what has been saved stays until the user saves
\* something else.
SavedConfigStays == [][stored' # stored => SaveConfig]_vars

=============================================================================
