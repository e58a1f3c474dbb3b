---------------------------- MODULE WalletConnect ----------------------------
(***************************************************************************)
(* Requests that reach the wallet over WalletConnect: useWalletConnect and   *)
(* the dialogs of WalletConnectModal.  A link opened in the system connects  *)
(* the wallet with a dapp, the user approves the session, and the requests   *)
(* that arrive are kept in a list whose first one is shown.                  *)
(*                                                                         *)
(* The list is React state: a handler that awaits something writes back the  *)
(* list it has seen before.  Chains are those of the browser, DappRequests.  *)
(***************************************************************************)
EXTENDS DappRequests, Sequences

CONSTANTS
  Calls,             \* requests of the connected dapps
  Connections,       \* connections, in the order of the links opened
  MaxConfirmations,  \* bound: confirmations of one request
  MaxRestarts        \* bound: restarts of the program

ASSUME CallsAssumption ==
  /\ None \notin Calls /\ None \notin Connections /\ None \notin Chains
  /\ {MaxConfirmations, MaxRestarts} \subseteq Nat

VARIABLES
  link,          \* link[c]: what connection c is, for the dapp and the library
  app,           \* what the program keeps of it
  requests,      \* the requests listed
  from,          \* from[q]: the connection request q has come by
  waits,         \* handlers that await something, each with what it has seen
  asking,        \* the password dialog and what it is for
  known,         \* the password has been given
  isConfirming,  \* the button of the confirmation is busy
  confirmations, \* history: confirmations of q
  replies,       \* history: replies to q that have reached its dapp
  excused,       \* history: requests nobody needs to answer any more
  stale,         \* history: a handler has written back a list that had changed
  restarts

connectionVars == <<link, app>>
history == <<confirmations, replies, excused, stale, restarts>>
callVars == <<requests, from, waits, asking, known, isConfirming, confirmations, replies,
              excused, stale>>
connectVars == <<connectionVars, callVars, restarts>>

DefaultState == [connected |-> FALSE, loading |-> FALSE, peerMeta |-> FALSE,
                 connector |-> None, chainConfig |-> None]

ConnectInit ==
  /\ link = [c \in Connections |-> "unused"]
  /\ app = DefaultState
  /\ requests = <<>>
  /\ from = [q \in Calls |-> None]
  /\ waits = {} /\ asking = None /\ known = FALSE /\ isConfirming = FALSE
  /\ confirmations = [q \in Calls |-> 0]
  /\ replies = [q \in Calls |-> 0]
  /\ excused = {} /\ stale = FALSE /\ restarts = 0

-----------------------------------------------------------------------------
(* The session. *)

(* resetApp: the chain is kept, and so are the requests. *)
Reset(a) == [DefaultState EXCEPT !.chainConfig = a.chainConfig]

\* Requests of a connection that has ended can no longer be answered.
Ended(c) == {q \in Calls: from[q] = c /\ c # None}

Ends(c) == link' = [link EXCEPT ![c] = "over"]

(* killSession ends the connection before: what is spread after it is the state of the
   last rendering, connected for a moment longer. *)
OpenUrl(c) ==
  /\ link[c] = "unused" /\ app.connector # c
  /\ link' = [d \in Connections |-> IF d = c THEN "asked"
                                    ELSE IF d = app.connector THEN "over" ELSE link[d]]
  /\ app' = [Reset(app) EXCEPT !.connected = app.connected, !.loading = TRUE, !.connector = c]
  /\ excused' = excused \union Ended(app.connector)
  /\ UNCHANGED <<requests, from, waits, asking, known, isConfirming, confirmations, replies,
                 stale, restarts>>

(* A link the library does not understand; the session there was is over all the same. *)
OpenBadUrl ==
  /\ app.connector # None
  /\ Ends(app.connector)
  /\ app' = [Reset(app) EXCEPT !.connected = app.connected]
  /\ excused' = excused \union Ended(app.connector)
  /\ UNCHANGED <<requests, from, waits, asking, known, isConfirming, confirmations, replies,
                 stale, restarts>>

SessionRequest(c) ==
  /\ link[c] = "asked" /\ link' = [link EXCEPT ![c] = "proposed"]
  /\ app' = [app EXCEPT !.connected = FALSE, !.loading = FALSE, !.peerMeta = TRUE,
                        !.connector = c]
  /\ UNCHANGED <<callVars, restarts>>

ApproveVisible == app.loading \/ (~app.connected /\ app.peerMeta)

RejectSession ==
  /\ ApproveVisible /\ app.connector # None
  /\ Ends(app.connector) /\ app' = Reset(app)
  /\ UNCHANGED <<callVars, restarts>>

(* The chain is the one selected in the dialog, which is the browser's. *)
ApproveSession ==
  /\ ApproveVisible /\ ~app.loading /\ app.connector # None
  /\ link' = [link EXCEPT ![app.connector] = "live"]
  /\ app' = [app EXCEPT !.connected = TRUE, !.chainConfig = selectedChain]
  /\ UNCHANGED <<callVars, restarts>>

(* "Disconnect", on the page of the session; the dialogs cover it. *)
KillSession ==
  /\ app.connected /\ app.peerMeta /\ app.connector # None
  /\ requests = <<>> /\ asking = None
  /\ Ends(app.connector) /\ app' = Reset(app)
  /\ excused' = excused \union Ended(app.connector)
  /\ UNCHANGED <<requests, from, waits, asking, known, isConfirming, confirmations, replies,
                 stale, restarts>>

(* The event "disconnect". *)
DappLeaves(c) ==
  /\ link[c] \in {"proposed", "live"} /\ Ends(c)
  /\ app' = Reset(app)
  /\ excused' = excused \union Ended(c)
  /\ UNCHANGED <<requests, from, waits, asking, known, isConfirming, confirmations, replies,
                 stale, restarts>>

(* mutant: the restored session is not shown *)
RestoredSilently(c) ==
  [DefaultState EXCEPT !.connector = c, !.peerMeta = TRUE]

(* restoreSession: the chain is looked for in the list, where it may be no longer. *)
Restored(c) ==
  [DefaultState EXCEPT !.connected = TRUE, !.peerMeta = TRUE, !.connector = c,
     !.chainConfig = IF app.chainConfig \in chainConfigs THEN app.chainConfig ELSE None]

(* The program is started again: the library keeps a session that was approved. *)
Restart ==
  /\ restarts < MaxRestarts /\ restarts' = restarts + 1
  /\ link' = [c \in Connections |-> IF link[c] \in {"asked", "proposed"}
                                   THEN "over" ELSE link[c]]
  /\ app' = IF app.connector # None /\ link[app.connector] = "live"
            THEN Restored(app.connector) ELSE DefaultState
  /\ requests' = <<>> /\ waits' = {} /\ asking' = None /\ known' = FALSE /\ isConfirming' = FALSE
  /\ excused' = {q \in Calls: from[q] # None}
  /\ UNCHANGED <<from, confirmations, replies, stale>>

-----------------------------------------------------------------------------
(* The requests. *)

(* What a handler writes back is made from the list it has seen. *)
WriteBack(seen, list) ==
  /\ requests' = list
  /\ stale' = (stale \/ requests # seen)

(* mutant: the last one takes the place of those that wait *)
Alone(list, q) == <<q>>

Added(list, q) == Append(list, q)

(* personal_sign, eth_sign, eth_signTypedData: listed at once.  Methods that are not
   known, and all of them while no chain is known, are dropped without an answer. *)
CallRequest(q, c, k) ==
  /\ link[c] = "live" /\ from[q] = None
  /\ from' = [from EXCEPT ![q] = c]
  /\ \/ /\ k = "unknown" \/ app.chainConfig = None
        /\ excused' = excused \union {q}
        /\ UNCHANGED <<requests, waits>>
     \/ /\ k = "sign" /\ app.chainConfig # None
        /\ requests' = Added(requests, q)
        /\ UNCHANGED <<waits, excused>>
     \/ /\ k = "send" /\ app.chainConfig # None
        /\ waits' = waits \union {[for |-> "list", call |-> q, seen |-> requests, by |-> c]}
        /\ UNCHANGED <<requests, excused>>
  /\ UNCHANGED <<connectionVars, asking, known, isConfirming, confirmations, replies, stale,
                 restarts>>

(* A transaction is listed when the price of its gas, and the token of an approval, are
   known, or dropped when they cannot be read. *)
FillIn(w) ==
  /\ w \in waits /\ w.for = "list" /\ waits' = waits \ {w}
  /\ \/ WriteBack(w.seen, Added(w.seen, w.call)) /\ UNCHANGED excused
     \/ excused' = excused \union {w.call} /\ UNCHANGED <<requests, stale>>
  /\ UNCHANGED <<connectionVars, from, asking, known, isConfirming, confirmations, replies,
                 restarts>>

ConfirmationShown == requests # <<>> /\ app.peerMeta /\ asking = None

\* What the handler of the button has seen; bound: not twice the same at once.
Handler == [for |-> "sign", call |-> Head(requests), seen |-> requests, by |-> app.connector]

Starts(w) ==
  /\ waits' = waits \union {w}
  /\ isConfirming' = TRUE
  /\ confirmations' = [confirmations EXCEPT ![w.call] = @ + 1]

(* "Confirm": the password is asked for once. *)
ConfirmCall ==
  /\ ConfirmationShown /\ ~isConfirming /\ Handler \notin waits
  /\ confirmations[Head(requests)] < MaxConfirmations
  /\ IF known THEN Starts(Handler) /\ UNCHANGED asking
              ELSE asking' = Handler /\ UNCHANGED <<waits, isConfirming, confirmations>>
  /\ UNCHANGED <<connectionVars, requests, from, known, replies, excused, stale, restarts>>

PasswordGiven ==
  /\ asking # None /\ asking' = None /\ known' = TRUE
  /\ Starts(asking)
  /\ UNCHANGED <<connectionVars, requests, from, replies, excused, stale, restarts>>

PasswordRefused ==
  /\ asking # None /\ asking' = None
  /\ UNCHANGED <<connectionVars, requests, from, waits, known, isConfirming, history>>

\* A reply reaches the dapp over the connection the request has come by.
Reply(q, c) ==
  replies' = IF c # None /\ c = from[q] /\ link[c] = "live"
             THEN [replies EXCEPT ![q] = @ + 1] ELSE replies

(* The filter: no request is listed twice, those behind it move up by one. *)
Removed(list, q) ==
  IF \A i \in DOMAIN list: list[i] # q THEN list
  ELSE LET place == CHOOSE i \in DOMAIN list: list[i] = q
       IN  [i \in 1 .. Len(list) - 1 |-> list[IF i < place THEN i ELSE i + 1]]

Signing(w) == w \in waits /\ w.for = "sign" /\ waits' = waits \ {w}

(* handleEvent: the request has been carried out, and is approved. *)
Approved(w) ==
  /\ Signing(w)
  /\ Reply(w.call, w.by) /\ WriteBack(w.seen, Removed(w.seen, w.call))
  /\ isConfirming' = FALSE
  /\ UNCHANGED <<connectionVars, from, asking, known, confirmations, excused, restarts>>

(* An error leaves the request listed. *)
Failed(w) ==
  /\ Signing(w) /\ isConfirming' = FALSE
  /\ UNCHANGED <<connectionVars, requests, from, asking, known, history>>

(* The phrase and the nonce are read outside of any try: the button stays busy. *)
Thrown(w) ==
  /\ Signing(w)
  /\ UNCHANGED <<connectionVars, requests, from, asking, known, isConfirming, history>>

(* "Reject" is there while the request is being signed, too. *)
CancelCall ==
  /\ ConfirmationShown
  /\ isConfirming' = FALSE
  /\ requests' = Removed(requests, Head(requests))
  /\ Reply(Head(requests), app.connector)
  /\ UNCHANGED <<connectionVars, from, waits, asking, known, confirmations, excused, stale,
                 restarts>>

-----------------------------------------------------------------------------

Session ==
  \/ \E c \in Connections: OpenUrl(c) \/ SessionRequest(c) \/ DappLeaves(c)
  \/ OpenBadUrl \/ RejectSession \/ ApproveSession \/ KillSession \/ Restart

CallStep ==
  \/ \E q \in Calls, c \in Connections, k \in {"sign", "send", "unknown"}: CallRequest(q, c, k)
  \/ \E w \in waits: FillIn(w) \/ Approved(w) \/ Failed(w) \/ Thrown(w)
  \/ ConfirmCall \/ PasswordGiven \/ PasswordRefused \/ CancelCall

(* The dialog that approves a session selects the chain of the browser; during a session
   its chain may be removed from the list. *)
ChainStep ==
  /\ \E c \in Chains:
       \/ ApproveVisible /\ ~app.loading /\ SelectChain(c)
       \/ app.connected /\ requests = <<>> /\ asking = None /\ RemoveChain(c)
  /\ UNCHANGED connectVars

ConnectNext == ((Session \/ CallStep) /\ UNCHANGED vars) \/ ChainStep

\* Bound: the browser is used first, and before WalletConnect, or before a chain gets
\* another number, for no more than one chain that is added and selected.
Unconnected == restarts = 0 /\ link = [c \in Connections |-> "unused"]
Browsed ==
  /\ ~browsing /\ renumbered = {}
  /\ \A r \in Requests: at[r] = "unasked" \/ (kind[r] = "add" /\ answers[r] = 2)
  /\ Cardinality({r \in Requests: kind[r] = "add"}) <= 1

DappsInit == Init /\ ConnectInit
DappsNext ==
  \/ /\ Unconnected /\ Next /\ UNCHANGED connectVars
     /\ UNCHANGED renumbered \/ Browsed
  \/ Browsed /\ ~ledger /\ ConnectNext  \* the phrase of a Ledger is not here
DappsSpec == DappsInit /\ [][DappsNext]_<<vars, connectVars>>

-----------------------------------------------------------------------------
(* Properties. *)

(* What the program shows as connected is a session that is alive, and a session that
   is alive is shown, so that the user can end it: however links are opened, dapps
   leave and the program restarts (useWalletConnect, which spreads states it has seen
   earlier). *)
SessionIsAsShown ==
  /\ app.connected /\ app.peerMeta => link[app.connector] = "live"
  /\ \A c \in Connections: link[c] = "live" =>
       app.connector = c /\ app.connected /\ app.peerMeta

Times(q) == Cardinality({i \in DOMAIN requests: requests[i] = q})
         + Cardinality({w \in waits: w.for = "list" /\ w.call = q})

(* No request is lost and none is answered twice: as long as no handler has written
   back a list that had changed meanwhile, each one is being filled in, or listed once,
   or has had its one reply. *)
EveryCallIsAnswered ==
  ~stale => \A q \in Calls: from[q] # None /\ q \notin excused => Times(q) + replies[q] = 1

=============================================================================
