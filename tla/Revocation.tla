----------------------------- MODULE Revocation -----------------------------
(***************************************************************************)
(* The approvals of tokens and their revocation, a tab of the settings       *)
(* (RevokePermission, CRC20TokenList): the events read from the indexer, the  *)
(* table that is loaded from them, the password, the question, the request    *)
(* with its gas, and the transaction.                                         *)
(*                                                                            *)
(* The tab is opened once.  A wallet with a phrase; an approval is a token    *)
(* and a spender.                                                             *)
(***************************************************************************)
EXTENDS Naturals, FiniteSets, Sequences

CONSTANTS
  Approvals,
  NoApproval,    \* no approval, no events
  MaxReads    \* bound: how often the events are read

ASSUME RevocationAssumption == NoApproval \notin Approvals /\ MaxReads \in Nat

VARIABLES
  approved,    \* the approvals in force on the chain
  sent,        \* revocations the node has taken
  lastRead,    \* reads of the events so far
  reads,       \* those in flight, with what was approved when they were asked for
  events,      \* approvalEvents
  failed,      \* the page shows an error instead of the table
  lastLoad,    \* loads of the table so far
  loads,       \* those in flight
  loading,     \* the table shows that it is loading, and no dialog
  table,       \* the load the table shows
  remembered,  \* the password has been given
  password,    \* the approval the password is asked for
  decrypting,  \* the approvals the phrase is being decrypted for
  selected,    \* selectedData: the approval the question is about
  busy,        \* isTokenApprovalLoading
  preparing,   \* the approval the gas is being asked for
  request,     \* txEvent: the approval the request is about
  visible,     \* the request is open
  sending,     \* transactions being sent
  asked,       \* history: the approval clicked last
  twice,       \* history: one was clicked while the phrase was decrypted for another
  unprepared   \* history: the gas could not be read

chainVars  == <<approved, sent>>
readVars   == <<lastRead, reads, events, failed>>
loadVars   == <<lastLoad, loads, loading, table>>
askVars    == <<remembered, password, decrypting, asked, twice>>
dialogVars == <<selected, busy, preparing, request, visible, unprepared>>
revokeVars == <<chainVars, readVars, loadVars, askVars, dialogVars, sending>>

NoTable == [n |-> 0, list |-> {}]

RevokeInit ==
  /\ approved = Approvals /\ sent = {}
  /\ lastRead = 0 /\ reads = {} /\ events = NoApproval /\ failed = FALSE
  /\ lastLoad = 0 /\ loads = {} /\ loading = TRUE /\ table = NoTable
  /\ remembered = FALSE /\ password = NoApproval /\ decrypting = {}
  /\ asked = NoApproval /\ twice = FALSE
  /\ selected = NoApproval /\ busy = FALSE /\ preparing = NoApproval
  /\ request = NoApproval /\ visible = FALSE /\ unprepared = FALSE
  /\ sending = {}

-----------------------------------------------------------------------------
(* The events. *)

\* fetchTxAndApprovals takes an error away before it asks.
Asks ==
  /\ lastRead' = lastRead + 1
  /\ reads' = reads \union {[id |-> lastRead', saw |-> approved]}
  /\ failed' = FALSE

Load(n, list) == [n |-> n, list |-> list, here |-> TRUE]

\* The table is loaded from these events, one after the other.
Loads(lists) ==
  /\ lastLoad' = lastLoad + Len(lists)
  /\ loads' = loads \union {Load(lastLoad + i, lists[i]): i \in DOMAIN lists}
  /\ loading' = TRUE

\* A table that is gone, or one that has just come, with its dialogs.
FreshTable ==
  /\ table' = NoTable
  /\ remembered' = FALSE /\ password' = NoApproval /\ decrypting' = {}
  /\ asked' = NoApproval /\ twice' = FALSE
  /\ selected' = NoApproval /\ busy' = FALSE /\ preparing' = NoApproval
  /\ request' = NoApproval /\ visible' = FALSE /\ unprepared' = FALSE

OpenTab ==
  /\ lastRead = 0 /\ Asks
  /\ UNCHANGED <<chainVars, events, loadVars, askVars, dialogVars, sending>>

(* mutant: the table is not loaded again for new approvals *)
LoadedBefore(list) == IF events = NoApproval THEN <<list>> ELSE <<events>>

\* The transfers are set first and the approvals then: a table that is there is loaded
\* for each, at first with the approvals it had.
LoadedFor(list) == IF events = NoApproval THEN <<list>> ELSE <<events, list>>

ReadComes(r) ==
  /\ reads' = reads \ {r}
  /\ \E list \in {r.saw, approved}:
       /\ events' = list
       /\ IF failed THEN UNCHANGED <<lastLoad, loads, loading>> ELSE Loads(LoadedFor(list))
  /\ UNCHANGED <<chainVars, lastRead, failed, table, askVars, dialogVars, sending>>

\* The error takes the place of the table; what its handlers still do is not seen.
ShowsError ==
  /\ failed' = TRUE /\ FreshTable
  /\ loading' = TRUE /\ lastLoad' = lastLoad
  /\ sending' = {[s EXCEPT !.here = FALSE]: s \in sending}

ReadFails(r) ==
  /\ reads' = reads \ {r}
  /\ ShowsError /\ loads' = {[k EXCEPT !.here = FALSE]: k \in loads}
  /\ UNCHANGED <<chainVars, lastRead, events>>

\* Bound: each approval clicked and each transaction has the events read again.
MayRead == lastRead + Cardinality(sending) + Cardinality(decrypting) < MaxReads

\* The table comes back with the events it had.
Retry ==
  /\ failed /\ MayRead
  /\ Asks
  /\ IF events = NoApproval THEN UNCHANGED <<lastLoad, loads, loading>> ELSE Loads(<<events>>)
  /\ UNCHANGED <<chainVars, events, table, askVars, dialogVars, sending>>

-----------------------------------------------------------------------------
(* The table. *)

LoadComes(k) ==
  /\ loads' = loads \ {k}
  /\ IF k.here
     THEN /\ table' = [n |-> k.n, list |-> k.list]
          /\ loading' = FALSE
     ELSE UNCHANGED <<table, loading>>
  /\ UNCHANGED <<chainVars, readVars, lastLoad, askVars, dialogVars, sending>>

\* onError, of a table that is gone as well.
LoadFails(k) ==
  /\ ShowsError /\ loads' = {[l EXCEPT !.here = FALSE]: l \in loads \ {k}}
  /\ UNCHANGED <<chainVars, lastRead, reads, events>>

-----------------------------------------------------------------------------
(* The dialogs. *)

TableLoaded == events # NoApproval /\ ~failed /\ ~loading

\* A table that is being loaded, or has no row, hides its dialogs.
TableShown == TableLoaded /\ table.list # {}

\* The password is asked for once.
ClickRevoke(a) ==
  /\ TableShown /\ a \in table.list /\ MayRead
  /\ password = NoApproval /\ selected = NoApproval
  /\ asked' = a /\ twice' = (twice \/ decrypting # {})
  /\ IF remembered
     THEN decrypting' = decrypting \union {a} /\ UNCHANGED password
     ELSE password' = a /\ UNCHANGED decrypting
  /\ UNCHANGED <<chainVars, readVars, loadVars, remembered, dialogVars, sending>>

GivePassword ==
  /\ password # NoApproval
  /\ remembered' = TRUE /\ password' = NoApproval
  /\ decrypting' = decrypting \union {password}
  /\ UNCHANGED <<chainVars, readVars, loadVars, asked, twice, dialogVars, sending>>

CancelAsked ==
  /\ password # NoApproval /\ password' = NoApproval
  /\ UNCHANGED <<chainVars, readVars, loadVars, remembered, decrypting, asked, twice,
                 dialogVars, sending>>

PhraseDecrypted(a) ==
  /\ decrypting' = decrypting \ {a}
  /\ selected' = a
  /\ UNCHANGED <<chainVars, readVars, loadVars, remembered, password, asked, twice, busy,
                 preparing, request, visible, unprepared, sending>>

QuestionOpen == TableShown /\ selected # NoApproval /\ ~busy

\* It cannot be closed while it is busy.
CancelQuestion ==
  /\ QuestionOpen /\ selected' = NoApproval
  /\ UNCHANGED <<chainVars, readVars, loadVars, askVars, busy, preparing, request, visible,
                 unprepared, sending>>

ConfirmQuestion ==
  /\ QuestionOpen
  /\ busy' = TRUE /\ preparing' = selected
  /\ UNCHANGED <<chainVars, readVars, loadVars, askVars, selected, request, visible,
                 unprepared, sending>>

\* getContractDataByAddress and getGasPrice: an error is not caught.
Prepared ==
  /\ preparing # NoApproval /\ preparing' = NoApproval
  /\ \/ request' = preparing /\ visible' = TRUE /\ UNCHANGED unprepared
     \/ unprepared' = TRUE /\ UNCHANGED <<request, visible>>
  /\ UNCHANGED <<chainVars, readVars, loadVars, askVars, selected, busy, sending>>

RequestOpen == TableShown /\ visible

CancelRequest ==
  /\ RequestOpen
  /\ visible' = FALSE /\ busy' = FALSE
  /\ UNCHANGED <<chainVars, readVars, loadVars, askVars, selected, preparing, request,
                 unprepared, sending>>

ConfirmRequest ==
  /\ RequestOpen
  /\ visible' = FALSE
  /\ sending' = sending \union {[row |-> request, here |-> TRUE]}
  /\ UNCHANGED <<chainVars, readVars, loadVars, askVars, selected, busy, preparing, request,
                 unprepared>>

-----------------------------------------------------------------------------
(* The transaction. *)

\* The node takes it: the dialogs close and the events are read again.
Revoked(s) ==
  /\ sending' = sending \ {s}
  /\ sent' = sent \union {s.row}
  /\ IF s.here
     THEN busy' = FALSE /\ request' = NoApproval /\ selected' = NoApproval
     ELSE UNCHANGED <<busy, request, selected>>
  /\ Asks
  /\ IF failed /\ events # NoApproval THEN Loads(<<events>>) ELSE UNCHANGED <<lastLoad, loads, loading>>
  /\ UNCHANGED <<approved, events, table, askVars, preparing, visible, unprepared>>

\* An error, also when it comes after the node has taken it: the question stays open.
RevokeFails(s) ==
  /\ sending' = sending \ {s}
  /\ \E taken \in {{}, {s.row}}: sent' = sent \union taken
  /\ busy' = (busy /\ ~s.here)
  /\ UNCHANGED <<approved, readVars, loadVars, askVars, selected, preparing, request, visible,
                 unprepared>>

Mined(a) ==
  /\ sent' = sent \ {a} /\ approved' = approved \ {a}
  /\ UNCHANGED <<readVars, loadVars, askVars, dialogVars, sending>>

RevokeNext ==
  \/ OpenTab \/ Retry
  \/ \E r \in reads: ReadComes(r) \/ ReadFails(r)
  \/ \E k \in loads: LoadComes(k) \/ LoadFails(k)
  \/ \E a \in Approvals: ClickRevoke(a)
  \/ GivePassword \/ CancelAsked
  \/ \E a \in decrypting: PhraseDecrypted(a)
  \/ CancelQuestion \/ ConfirmQuestion \/ Prepared \/ CancelRequest \/ ConfirmRequest
  \/ \E s \in sending: Revoked(s) \/ RevokeFails(s)
  \/ \E a \in sent: Mined(a)

-----------------------------------------------------------------------------
(* A dialog that is busy has a reason: the gas is being read, the request is open or
   the transaction is being sent.  Only an error in reading the gas leaves it busy
   for good, and it cannot be closed. *)
BusyForAReason ==
  busy => preparing # NoApproval \/ visible \/ unprepared \/ \E s \in sending: s.here

(* Whatever is read again, fails or is shown anew meanwhile, the approval that is
   revoked is the one that was clicked last, unless two were clicked while the phrase
   was decrypted; and a table whose last load was the last to be answered shows the
   events that were read last. *)
RevokesTheListed ==
  /\ BusyForAReason
  /\ \A s \in sending: s.here => s.row = asked \/ twice
  /\ TableLoaded => (table.n = lastLoad => table.list = events)
=============================================================================
