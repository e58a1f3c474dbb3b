------------------------ MODULE SettingsPagesProofs ------------------------
(***************************************************************************)
(* What the settings page guarantees, for all wallets, contacts and         *)
(* approvals and however the steps of its handlers are interleaved.         *)
(***************************************************************************)
EXTENDS SettingsPages, FiniteSetTheorems, TLAPS

-----------------------------------------------------------------------------
(* The approvals. *)

Tables == SUBSET Approvals
AnApproval == Approvals \union {NoApproval}
LoadsOfATable == [n: Nat, list: Tables, here: BOOLEAN]

(* Every variable holds a value of its kind: what the table shows and what is read for it, ... *)
TableTyped ==
  /\ approved \in Tables /\ events \in Tables \union {NoApproval}
  /\ \A r \in reads: r.saw \in Tables
  /\ lastLoad \in Nat
  /\ loads \subseteq LoadsOfATable /\ \A k \in loads: k.n <= lastLoad
  /\ table \in [n: Nat, list: Tables] /\ table.n <= lastLoad

(* ... and what is asked, confirmed and sent. *)
DialogTyped ==
  /\ sending \subseteq [row: AnApproval, here: BOOLEAN]
  /\ decrypting \subseteq Approvals /\ password \in AnApproval
  /\ selected \in AnApproval /\ preparing \in AnApproval /\ request \in AnApproval
  /\ failed \in BOOLEAN /\ loading \in BOOLEAN /\ twice \in BOOLEAN
  /\ busy \in BOOLEAN /\ visible \in BOOLEAN /\ unprepared \in BOOLEAN

(* The question that is being carried out: it is held, one thing of it is under way. *)
OneAtATime ==
  /\ preparing # NoApproval \/ visible \/ (\E s \in sending: s.here) => busy
  /\ busy => selected # NoApproval
  /\ preparing # NoApproval => ~visible /\ \A s \in sending: ~s.here
  /\ visible => \A s \in sending: ~s.here
  /\ \A s, t \in sending: s.here /\ t.here => s = t

(* From the click to the transaction it is the approval that was clicked last. *)
AboutTheAsked ==
  \/ twice
  \/ /\ decrypting \subseteq {asked}
     /\ {password, selected, preparing} \subseteq {asked, NoApproval}
     /\ visible => request = asked
     /\ \A s \in sending: s.here => s.row = asked

(* The load with the highest number is of the events that were read last. *)
LastLoadFits ==
  /\ failed => loading /\ \A k \in loads: ~k.here
  /\ ~failed /\ events # NoApproval =>
       /\ \A k \in loads: k.here /\ k.n = lastLoad => k.list = events
       /\ ~loading /\ table.n = lastLoad => table.list = events

RevokeInv ==
  TableTyped /\ DialogTyped /\ OneAtATime /\ AboutTheAsked /\ BusyForAReason /\ LastLoadFits

(* The tab starts empty. *)
LEMMA RevokeStarts == RevokeInit => RevokeInv
<1> SUFFICES ASSUME RevokeInit PROVE RevokeInv
  OBVIOUS
<1> USE DEF RevokeInit
<1>1. TableTyped
  BY DEF TableTyped, NoTable, Tables
<1>5. DialogTyped
  BY DEF DialogTyped, AnApproval
<1>2. OneAtATime /\ BusyForAReason
  BY DEF OneAtATime, BusyForAReason
<1>3. AboutTheAsked
  BY DEF AboutTheAsked
<1>4. LastLoadFits
  BY DEF LastLoadFits
<1> QED
  BY <1>1, <1>2, <1>3, <1>4, <1>5 DEF RevokeInv

(* The dialogs: what is asked, confirmed and sent is one approval at a time. *)
LEMMA DialogsStep ==
  ASSUME RevokeInv,
         \/ \E a \in Approvals: ClickRevoke(a)
         \/ GivePassword \/ CancelAsked
         \/ \E a \in decrypting: PhraseDecrypted(a)
         \/ CancelQuestion \/ ConfirmQuestion \/ Prepared \/ CancelRequest \/ ConfirmRequest
  PROVE  RevokeInv'
<1> DEFINE DialogInv == DialogTyped /\ OneAtATime /\ AboutTheAsked /\ BusyForAReason
<1>1. UNCHANGED <<chainVars, readVars, loadVars>>
  BY DEF ClickRevoke, GivePassword, CancelAsked, PhraseDecrypted, CancelQuestion, ConfirmQuestion,
         Prepared, CancelRequest, ConfirmRequest
<1>2. TableTyped' /\ LastLoadFits'
  BY <1>1 DEF RevokeInv, TableTyped, LastLoadFits, chainVars, readVars, loadVars
<1>3. DialogInv'
  <2> USE RevocationAssumption
      DEF RevokeInv, DialogTyped, AnApproval, OneAtATime, AboutTheAsked, BusyForAReason,
          chainVars, readVars, loadVars, askVars, dialogVars
  <2>1. ASSUME NEW a \in Approvals, ClickRevoke(a) PROVE DialogInv'
    BY <2>1 DEF ClickRevoke
  <2>2. CASE GivePassword
    BY <2>2 DEF GivePassword
  <2>3. CASE CancelAsked
    BY <2>3 DEF CancelAsked
  <2>4. ASSUME NEW a \in decrypting, PhraseDecrypted(a) PROVE DialogInv'
    BY <2>4 DEF PhraseDecrypted
  <2>5. CASE CancelQuestion
    BY <2>5 DEF CancelQuestion, QuestionOpen
  <2>6. CASE ConfirmQuestion
    BY <2>6 DEF ConfirmQuestion, QuestionOpen
  <2>7. CASE Prepared
    <3>1. DialogTyped' /\ OneAtATime'
      BY <2>7 DEF Prepared
    <3>2. BusyForAReason'
      BY <2>7 DEF Prepared
    <3>3. AboutTheAsked'
      BY <2>7 DEF Prepared
    <3> QED
      BY <3>1, <3>2, <3>3
  <2>8. CASE CancelRequest
    BY <2>8 DEF CancelRequest, RequestOpen
  <2>9. CASE ConfirmRequest
    <3>1. PICK new \in [row: AnApproval, here: BOOLEAN]:
            new.row = request /\ new.here = TRUE /\ sending' = sending \union {new}
      BY <2>9 DEF ConfirmRequest
    <3>2. /\ visible = TRUE /\ visible' = FALSE
          /\ UNCHANGED <<chainVars, readVars, loadVars, askVars, selected, busy, preparing,
                         request, unprepared>>
      BY <2>9 DEF ConfirmRequest, RequestOpen
    <3>3. DialogTyped'
      BY <3>1, <3>2
    <3>4. OneAtATime'
      BY <3>1, <3>2
    <3>5. AboutTheAsked' /\ BusyForAReason'
      BY <3>1, <3>2
    <3> QED
      BY <3>3, <3>4, <3>5
  <2> QED
    BY <2>1, <2>2, <2>3, <2>4, <2>5, <2>6, <2>7, <2>8, <2>9
<1> QED
  BY <1>2, <1>3 DEF RevokeInv

(* Loading the table adds loads with higher numbers, of which the highest is of the last
   of the lists. *)
LoadedLast(list) ==
  /\ lastLoad' \in Nat /\ lastLoad' > lastLoad
  /\ \A k \in loads': k \in loads \/
       /\ k \in LoadsOfATable /\ lastLoad < k.n /\ k.n <= lastLoad'
       /\ k.n = lastLoad' => k.list = list
  /\ loading' = TRUE

(* What a load of the table holds. *)
LEMMA ALoad ==
  ASSUME NEW n \in Nat, NEW list \in Tables
  PROVE  Load(n, list) \in LoadsOfATable /\ Load(n, list).n = n /\ Load(n, list).list = list
BY DEF Load, LoadsOfATable

(* Loading one list adds one load, of that list. *)
LEMMA LoadsOne ==
  ASSUME TableTyped, NEW list \in Tables, Loads(<<list>>)
  PROVE  LoadedLast(list)
<1>1. lastLoad' = lastLoad + 1 /\ loading' = TRUE
  BY DEF Loads
<1>2. ASSUME NEW k \in loads', k \notin loads
      PROVE  k \in LoadsOfATable /\ k.n = lastLoad + 1 /\ k.list = list
  <2>1. k = Load(lastLoad + 1, list) /\ lastLoad + 1 \in Nat
    BY <1>2 DEF Loads, TableTyped
  <2> QED
    BY <2>1, ALoad
<1> QED
  BY <1>1, <1>2 DEF LoadedLast, TableTyped

(* A table that is there is loaded with its own events first. *)
LEMMA LoadsFor ==
  ASSUME TableTyped, NEW list \in Tables, Loads(LoadedFor(list))
  PROVE  LoadedLast(list)
<1>1. CASE events = NoApproval
  BY <1>1, LoadsOne DEF LoadedFor
<1>2. CASE events # NoApproval
  <2>1. Loads(<<events, list>>)
    BY <1>2 DEF LoadedFor
  <2>2. lastLoad' = lastLoad + 2 /\ loading' = TRUE
    BY <2>1 DEF Loads
  <2>3. ASSUME NEW k \in loads', k \notin loads
        PROVE  /\ k \in LoadsOfATable
               /\ k.n = lastLoad + 1 \/ (k.n = lastLoad + 2 /\ k.list = list)
    <3>1. k = Load(lastLoad + 1, events) \/ k = Load(lastLoad + 2, list)
      BY <2>1, <2>3 DEF Loads
    <3>2. lastLoad + 1 \in Nat /\ lastLoad + 2 \in Nat /\ events \in Tables
      BY <1>2 DEF TableTyped
    <3> QED
      BY <3>1, <3>2, ALoad
  <2> QED
    BY <2>2, <2>3 DEF LoadedLast, TableTyped
<1> QED
  BY <1>1, <1>2

(* A new load is of the events that are the last ones from now on. *)
LEMMA LoadingFits ==
  ASSUME TableTyped, LastLoadFits, LoadedLast(events'), failed' = FALSE, table' = table,
         approved' = approved, events' \in Tables, \A r \in reads': r.saw \in Tables
  PROVE  LastLoadFits' /\ TableTyped'
<1>1. /\ loads' \subseteq LoadsOfATable /\ \A k \in loads': k.n <= lastLoad'
      /\ table'.n <= lastLoad' /\ table'.n # lastLoad' /\ lastLoad' \in Nat
  BY DEF TableTyped, LoadedLast, LoadsOfATable
<1>2. ASSUME NEW k \in loads', k.n = lastLoad' PROVE k.list = events'
  BY <1>2 DEF TableTyped, LoadedLast, LoadsOfATable
<1>3. TableTyped'
  BY <1>1 DEF TableTyped
<1> QED
  BY <1>1, <1>2, <1>3 DEF LastLoadFits, LoadedLast

(* With the table go its dialogs; its handlers and loads are of no effect any more. *)
LEMMA FailedTable ==
  ASSUME RevokeInv, ShowsError,
         NEW some \in SUBSET loads, loads' = {[k EXCEPT !.here = FALSE]: k \in some},
         UNCHANGED <<approved, events>>, reads' \subseteq reads
  PROVE  RevokeInv'
<1>1. \A k \in loads': k \in LoadsOfATable /\ ~k.here /\ k.n <= lastLoad
  <2>1. ASSUME NEW k \in some
        PROVE  LET j == [k EXCEPT !.here = FALSE]
               IN  j \in LoadsOfATable /\ ~j.here /\ j.n = k.n
    BY DEF RevokeInv, TableTyped, LoadsOfATable
  <2> QED
    BY <2>1 DEF RevokeInv, TableTyped
<1>2. \A s \in sending': s \in [row: AnApproval, here: BOOLEAN] /\ ~s.here
  BY DEF RevokeInv, DialogTyped, ShowsError
<1>3. TableTyped'
  <2>1. /\ table' \in [n: Nat, list: Tables] /\ table'.n = 0
        /\ lastLoad' = lastLoad /\ lastLoad \in Nat
    BY DEF RevokeInv, TableTyped, ShowsError, FreshTable, NoTable, Tables
  <2>2. table'.n <= lastLoad'
    BY <2>1
  <2> QED
    BY <1>1, <2>1, <2>2 DEF RevokeInv, TableTyped
<1>4. DialogTyped'
  BY <1>2 DEF RevokeInv, DialogTyped, ShowsError, FreshTable, AnApproval
<1>5. OneAtATime' /\ AboutTheAsked' /\ BusyForAReason'
  BY <1>2 DEF ShowsError, FreshTable, OneAtATime, AboutTheAsked, BusyForAReason
<1>6. LastLoadFits'
  BY <1>1 DEF ShowsError, LastLoadFits
<1> QED
  BY <1>3, <1>4, <1>5, <1>6 DEF RevokeInv

(* Reading the events, loading the table from them, and failing in either. *)
LEMMA EventsStep ==
  ASSUME RevokeInv,
         \/ OpenTab \/ Retry
         \/ \E r \in reads: ReadComes(r) \/ ReadFails(r)
         \/ \E k \in loads: LoadComes(k) \/ LoadFails(k)
  PROVE  RevokeInv'
<1> DEFINE DialogInv == DialogTyped /\ OneAtATime /\ AboutTheAsked /\ BusyForAReason
<1>0. ASSUME UNCHANGED <<askVars, dialogVars, sending>>, failed' \in BOOLEAN, loading' \in BOOLEAN
      PROVE  DialogInv'
  BY <1>0 DEF RevokeInv, askVars, dialogVars, DialogTyped, OneAtATime, AboutTheAsked, BusyForAReason
<1>a. ASSUME Asks PROVE failed' = FALSE /\ \A r \in reads': r.saw \in Tables
  BY <1>a DEF Asks, RevokeInv, TableTyped
<1>1. CASE OpenTab
  <2>1. UNCHANGED <<approved, events, lastLoad, loads, loading, table, askVars, dialogVars, sending>>
    BY <1>1 DEF OpenTab, chainVars, loadVars
  <2>2. TableTyped' /\ LastLoadFits'
    BY <1>1, <1>a, <2>1 DEF OpenTab, RevokeInv, TableTyped, LastLoadFits
  <2> QED
    BY <1>1, <1>0, <1>a, <2>1, <2>2 DEF OpenTab, RevokeInv, DialogTyped
<1>2. CASE Retry
  <2>1. UNCHANGED <<approved, events, table, askVars, dialogVars, sending>>
    BY <1>2 DEF Retry, chainVars
  <2>2. failed' = FALSE /\ \A r \in reads': r.saw \in Tables
    BY <1>2, <1>a DEF Retry
  <2>3. TableTyped' /\ LastLoadFits' /\ loading' \in BOOLEAN
    <3>1. CASE events = NoApproval
      BY <1>2, <2>1, <2>2, <3>1 DEF Retry, RevokeInv, TableTyped, DialogTyped, LastLoadFits
    <3>2. CASE events # NoApproval
      <4>1. LoadedLast(events') /\ events' \in Tables
        BY <1>2, <2>1, <3>2, LoadsOne DEF Retry, RevokeInv, TableTyped
      <4> QED
        BY <2>1, <2>2, <4>1, LoadingFits DEF RevokeInv, LoadedLast
    <3> QED
      BY <3>1, <3>2
  <2> QED
    BY <1>0, <2>1, <2>2, <2>3 DEF RevokeInv
<1>3. ASSUME NEW r \in reads, ReadComes(r) PROVE RevokeInv'
  <2>1. UNCHANGED <<approved, failed, table, askVars, dialogVars, sending>>
    BY <1>3 DEF ReadComes, chainVars
  <2>2. events' \in Tables /\ \A q \in reads': q.saw \in Tables
    BY <1>3 DEF ReadComes, RevokeInv, TableTyped
  <2>3. TableTyped' /\ LastLoadFits' /\ loading' \in BOOLEAN
    <3>1. CASE failed
      BY <1>3, <2>1, <2>2, <3>1 DEF ReadComes, RevokeInv, TableTyped, DialogTyped, LastLoadFits
    <3>2. CASE ~failed
      <4>1. LoadedLast(events')
        BY <1>3, <2>2, <3>2, LoadsFor DEF ReadComes, RevokeInv
      <4>2. failed' = FALSE
        BY <2>1, <3>2 DEF RevokeInv, DialogTyped
      <4> QED
        BY <2>1, <2>2, <4>1, <4>2, LoadingFits DEF RevokeInv, LoadedLast
    <3> QED
      BY <3>1, <3>2
  <2> QED
    BY <1>0, <2>1, <2>3 DEF RevokeInv, DialogTyped
<1>4. ASSUME NEW r \in reads, ReadFails(r) PROVE RevokeInv'
  BY <1>4, FailedTable DEF ReadFails, chainVars
<1>5. ASSUME NEW k \in loads, LoadComes(k) PROVE RevokeInv'
  <2>1. /\ UNCHANGED <<approved, events, reads, failed, lastLoad, askVars, dialogVars, sending>>
        /\ loads' = loads \ {k}
    BY <1>5 DEF LoadComes, chainVars, readVars
  <2>2. CASE k.here
    <3>1. table' = [n |-> k.n, list |-> k.list] /\ loading' = FALSE
      BY <1>5, <2>2 DEF LoadComes
    <3>2. TableTyped'
      BY <2>1, <3>1 DEF RevokeInv, TableTyped, LoadsOfATable
    <3>3. LastLoadFits'
      BY <2>1, <2>2, <3>1 DEF RevokeInv, LastLoadFits
    <3> QED
      BY <1>0, <2>1, <3>1, <3>2, <3>3 DEF RevokeInv, DialogTyped
  <2>3. CASE ~k.here
    <3>1. UNCHANGED <<table, loading>>
      BY <1>5, <2>3 DEF LoadComes
    <3> QED
      BY <1>0, <2>1, <3>1 DEF RevokeInv, TableTyped, DialogTyped, LastLoadFits
  <2> QED
    BY <2>2, <2>3
<1>6. ASSUME NEW k \in loads, LoadFails(k) PROVE RevokeInv'
  BY <1>6, FailedTable DEF LoadFails, chainVars
<1> QED
  BY <1>1, <1>2, <1>3, <1>4, <1>5, <1>6

(* The transaction: taken by the node or not, and mined. *)
LEMMA TransactionStep ==
  ASSUME RevokeInv,
         \/ \E s \in sending: Revoked(s) \/ RevokeFails(s)
         \/ \E a \in sent: Mined(a)
  PROVE  RevokeInv'
<1>1. ASSUME NEW s \in sending, Revoked(s) PROVE RevokeInv'
  <2>1. /\ UNCHANGED <<approved, events, table, askVars, preparing, visible, unprepared>>
        /\ sending' = sending \ {s}
    BY <1>1 DEF Revoked
  <2>2. failed' = FALSE /\ \A r \in reads': r.saw \in Tables
    BY <1>1 DEF Revoked, Asks, RevokeInv, TableTyped
  <2>3. TableTyped' /\ LastLoadFits' /\ loading' \in BOOLEAN
    <3>1. CASE failed /\ events # NoApproval
      <4>1. LoadedLast(events') /\ events' \in Tables
        BY <1>1, <2>1, <3>1, LoadsOne DEF Revoked, RevokeInv, TableTyped
      <4> QED
        BY <2>1, <2>2, <4>1, LoadingFits DEF RevokeInv, LoadedLast
    <3>2. CASE ~(failed /\ events # NoApproval)
      BY <1>1, <2>1, <2>2, <3>2 DEF Revoked, RevokeInv, TableTyped, DialogTyped, LastLoadFits
    <3> QED
      BY <3>1, <3>2
  <2>4. DialogTyped' /\ OneAtATime' /\ AboutTheAsked' /\ BusyForAReason'
    <3>1. CASE s.here
      <4>1. busy' = FALSE /\ request' = NoApproval /\ selected' = NoApproval
        BY <1>1, <3>1 DEF Revoked
      <4> QED
        BY <2>1, <2>2, <2>3, <3>1, <4>1
        DEF RevokeInv, DialogTyped, OneAtATime, AboutTheAsked, BusyForAReason, askVars, AnApproval
    <3>2. CASE ~s.here
      <4>1. UNCHANGED <<busy, request, selected>>
        BY <1>1, <3>2 DEF Revoked
      <4> QED
        BY <2>1, <2>2, <2>3, <3>2, <4>1
        DEF RevokeInv, DialogTyped, OneAtATime, AboutTheAsked, BusyForAReason, askVars
    <3> QED
      BY <3>1, <3>2
  <2> QED
    BY <2>3, <2>4 DEF RevokeInv
<1>2. ASSUME NEW s \in sending, RevokeFails(s) PROVE RevokeInv'
  <2>1. /\ UNCHANGED <<approved, readVars, loadVars, askVars, selected, preparing, request,
                       visible, unprepared>>
        /\ sending' = sending \ {s}
    BY <1>2 DEF RevokeFails
  <2>2. TableTyped' /\ LastLoadFits'
    BY <2>1 DEF RevokeInv, TableTyped, LastLoadFits, readVars, loadVars
  <2>3. DialogTyped' /\ OneAtATime' /\ AboutTheAsked' /\ BusyForAReason'
    <3>1. busy' = (busy /\ ~s.here)
      BY <1>2 DEF RevokeFails
    <3> QED
      BY <2>1, <3>1
      DEF RevokeInv, DialogTyped, OneAtATime, AboutTheAsked, BusyForAReason, askVars, readVars, loadVars
  <2> QED
    BY <2>2, <2>3 DEF RevokeInv
<1>3. ASSUME NEW a \in sent, Mined(a) PROVE RevokeInv'
  <2>1. /\ UNCHANGED <<readVars, loadVars, askVars, dialogVars, sending>>
        /\ approved' = approved \ {a}
    BY <1>3 DEF Mined
  <2> QED
    BY <2>1
    DEF RevokeInv, TableTyped, DialogTyped, OneAtATime, AboutTheAsked, BusyForAReason, LastLoadFits,
        readVars, loadVars, askVars, dialogVars, Tables
<1> QED
  BY <1>1, <1>2, <1>3

(* RevokeInv holds as long as the settings are used: the other parts leave the approvals
   alone. *)
LEMMA RevokeAlways == SettingsSpec => []RevokeInv
<1>1. SettingsInit => RevokeInv
  BY RevokeStarts DEF SettingsInit
<1>2. RevokeInv /\ [SettingsNext]_<<vars, bookVars, revokeVars>> => RevokeInv'
  <2>1. ASSUME RevokeInv, RevokeNext PROVE RevokeInv'
    BY <2>1, DialogsStep, EventsStep, TransactionStep DEF RevokeNext
  <2>2. ASSUME RevokeInv, UNCHANGED revokeVars PROVE RevokeInv'
    BY <2>2
    DEF RevokeInv, TableTyped, DialogTyped, OneAtATime, AboutTheAsked, BusyForAReason, LastLoadFits,
        revokeVars, chainVars, readVars, loadVars, askVars, dialogVars
  <2> QED
    BY <2>1, <2>2 DEF SettingsNext
<1> QED
  BY <1>1, <1>2, PTL DEF SettingsSpec

(* Whatever is read again, fails or is shown anew meanwhile, the approval revoked is the
   one that was clicked last, unless two were clicked while the phrase was decrypted; no
   dialog is busy without a reason; and the table whose last load was answered last shows
   the events read last (RevokePermission, CRC20TokenList). *)
THEOREM RevokesWhatIsListed == SettingsSpec => []RevokesTheListed
<1>1. RevokeInv => RevokesTheListed
  BY DEF RevokeInv, RevokesTheListed, AboutTheAsked, LastLoadFits, TableLoaded
<1> QED
  BY <1>1, RevokeAlways, PTL

-----------------------------------------------------------------------------
(* The address book. *)

AnyNetwork == Networks \union {Asset}
AnyAddress == Addresses \union {Nothing}
AnyMemo    == Memos \union {Nothing}
ContactSet == [id: Nat, network: AnyNetwork, address: AnyAddress, memo: AnyMemo]
FormSet    == [visit: Nat \ {0}, edits: ContactSet \union {Nothing}, network: Networks,
               address: Addresses, memo: AnyMemo]
PaymentSet == [address: AnyAddress, memo: AnyMemo, own: BOOLEAN]

DialogOps == {"check", "lost", "insert", "update"}
AutoOps   == {"find", "count", "auto"}
CallSet ==
  [op: DialogOps, by: Nat \ {0}, what: FormSet]
    \union [op: AutoOps, by: {0}, what: PaymentSet]
    \union [op: {"list"}, by: Nat \ {0}, what: {Nothing}]
    \union [op: {"remove"}, by: Nat \ {0}, what: ContactSet]
    \union [op: {"lookup"}, by: Nat \ {0}, what: AnyAddress]

(* Every variable holds a value of its kind, and what is open is of a page. *)
BookTyped ==
  /\ book \subseteq ContactSet /\ lastId \in Nat
  /\ calls \in Seq(CallSet)
  /\ place \in {"book", "send", "home"} /\ visit \in Nat /\ opened \in Nat
  /\ contacts \subseteq ContactSet
  /\ form \in FormSet \union {NoForm} /\ removing \in ContactSet \union {Nothing}
  /\ place = "home" \/ visit # 0
  /\ form = NoForm \/ (visit # 0 /\ opened # 0)
  /\ removing = Nothing \/ visit # 0
  /\ field \in [value: AnyAddress, contact: ContactSet \union {Nothing}]
  /\ payment \in PaymentSet
  /\ overlapped \in BOOLEAN /\ moved \in BOOLEAN /\ outdated \in BOOLEAN

(* What a call asks with. *)
LEMMA CallKinds ==
  ASSUME NEW x \in CallSet
  PROVE  /\ x.op \in DialogOps => x.by \in Nat \ {0} /\ x.what \in FormSet
         /\ x.op \in AutoOps => x.by = 0 /\ x.what \in PaymentSet
         /\ x.op \in {"list", "remove", "lookup"} => x.by \in Nat \ {0}
         /\ x.op = "remove" => x.what \in ContactSet
         /\ x.op = "lookup" => x.what \in AnyAddress
         /\ x.op \in DialogOps \union AutoOps \union {"list", "remove", "lookup"}
         /\ x = [op |-> x.op, by |-> x.by, what |-> x.what]
BY DEF CallSet, DialogOps, AutoOps

(* The calls that are made. *)
LEMMA CallsMade ==
  /\ \A op \in DialogOps, d \in Nat \ {0}, f \in FormSet: Call(op, d, f) \in CallSet
  /\ \A op \in AutoOps, p \in PaymentSet: Call(op, 0, p) \in CallSet
  /\ \A v \in Nat \ {0}: Call("list", v, Nothing) \in CallSet
  /\ \A v \in Nat \ {0}, c \in ContactSet: Call("remove", v, c) \in CallSet
  /\ \A v \in Nat \ {0}, a \in AnyAddress: Call("lookup", v, a) \in CallSet
BY DEF Call, CallSet

(* The first call is served and another one may be made. *)
LEMMA QueueOfCalls ==
  ASSUME NEW q \in Seq(CallSet)
  PROVE  /\ \A x \in CallSet: /\ Append(q, x) \in Seq(CallSet)
                              /\ Range(Append(q, x)) = Range(q) \union {x}
                              /\ q \o <<x>> = Append(q, x)
         /\ q \o <<>> = q
         /\ Range(q) \subseteq CallSet
         /\ q # <<>> => /\ Tail(q) \in Seq(CallSet) /\ Range(Tail(q)) \subseteq Range(q)
                        /\ Head(q) \in Range(q)
                        /\ Len(q) > 0 /\ Len(Tail(q)) = Len(q) - 1 /\ Head(q) = q[1]
                        /\ \A i \in 1 .. Len(Tail(q)): Tail(q)[i] = q[i + 1]
<1>1. \A x \in CallSet: Append(q, x) \in Seq(CallSet) /\ q \o <<x>> = Append(q, x)
  OBVIOUS
<1>2. ASSUME NEW x \in CallSet PROVE Range(Append(q, x)) = Range(q) \union {x}
  <2>1. Len(q) \in Nat /\ DOMAIN q = 1 .. Len(q) /\ DOMAIN Append(q, x) = 1 .. Len(q) + 1
    OBVIOUS
  <2>2. Append(q, x)[Len(q) + 1] = x /\ \A i \in DOMAIN q: Append(q, x)[i] = q[i]
    OBVIOUS
  <2> QED
    BY <2>1, <2>2 DEF Range
<1>3. q \o <<>> = q /\ Range(q) \subseteq CallSet
  BY DEF Range
<1>4. ASSUME q # <<>>
      PROVE  /\ Tail(q) \in Seq(CallSet) /\ Len(q) > 0 /\ Len(Tail(q)) = Len(q) - 1
             /\ Head(q) = q[1] /\ \A i \in 1 .. Len(Tail(q)): Tail(q)[i] = q[i + 1]
  BY <1>4
<1>5. ASSUME q # <<>> PROVE Range(Tail(q)) \subseteq Range(q) /\ Head(q) \in Range(q)
  <2>1. DOMAIN q = 1 .. Len(q) /\ DOMAIN Tail(q) = 1 .. Len(q) - 1 /\ Len(q) \in Nat
    BY <1>5, <1>4
  <2>2. ASSUME NEW i \in DOMAIN Tail(q) PROVE i + 1 \in DOMAIN q /\ Tail(q)[i] = q[i + 1]
    BY <1>5, <1>4, <2>1
  <2> QED
    BY <1>5, <1>4, <2>1, <2>2 DEF Range
<1> QED
  BY <1>1, <1>2, <1>3, <1>4, <1>5

(* A form that is changed or submitted again: the calls keep their places and contents. *)
LEMMA QueueWithLost ==
  ASSUME calls \in Seq(CallSet), NEW d \in Nat \ {0}
  PROVE  /\ Lost(d) \in Seq(CallSet) /\ DOMAIN Lost(d) = DOMAIN calls
         /\ \A i \in DOMAIN calls:
              /\ Lost(d)[i].by = calls[i].by /\ Lost(d)[i].what = calls[i].what
              /\ Lost(d)[i].op = IF calls[i].op = "check" /\ calls[i].by = d
                                 THEN "lost" ELSE calls[i].op
<1> DEFINE Its(i) == IF calls[i].op = "check" /\ calls[i].by = d
                     THEN [calls[i] EXCEPT !.op = "lost"] ELSE calls[i]
<1>1. ASSUME NEW i \in DOMAIN calls
      PROVE  /\ Its(i) \in CallSet /\ Its(i).by = calls[i].by /\ Its(i).what = calls[i].what
             /\ Its(i).op = IF calls[i].op = "check" /\ calls[i].by = d
                            THEN "lost" ELSE calls[i].op
  <2>1. calls[i] \in CallSet
    OBVIOUS
  <2>2. CASE calls[i].op = "check" /\ calls[i].by = d
    <3>1. calls[i].what \in FormSet /\ calls[i] = [op |-> "check", by |-> d, what |-> calls[i].what]
      BY <2>1, <2>2, CallKinds DEF DialogOps
    <3>2. Its(i) = Call("lost", d, calls[i].what)
      BY <2>2, <3>1 DEF Call
    <3> QED
      BY <2>2, <3>1, <3>2, CallsMade DEF Call, DialogOps
  <2>3. CASE ~(calls[i].op = "check" /\ calls[i].by = d)
    BY <2>1, <2>3
  <2> QED
    BY <2>2, <2>3
<1>2. Lost(d) = [i \in DOMAIN calls |-> Its(i)]
  BY DEF Lost
<1>3. DOMAIN calls = 1 .. Len(calls) /\ Len(calls) \in Nat
  OBVIOUS
<1> HIDE DEF Its
<1>4. Lost(d) \in Seq(CallSet)
  BY <1>1, <1>2, <1>3
<1> QED
  BY <1>1, <1>2, <1>4

(* As long as no two writers have been under way together, all calls of writers are of
   one dialog, or of the payment. *)
LEMMA OneWriter ==
  ASSUME overlapped \in BOOLEAN, NEW more \in Seq(CallSet), Calls(more)
  PROVE  /\ calls' = more /\ overlapped' \in BOOLEAN /\ (overlapped => overlapped')
         /\ ~overlapped' =>
              \A x, y \in Range(more): x.op \in Writers /\ y.op \in Writers => x.by = y.by
<1> DEFINE W == {j \in DOMAIN more: more[j].op \in Writers}
           S == {more[i].by: i \in W}
           f == [i \in W |-> more[i].by]
<1>1. calls' = more /\ overlapped' = (overlapped \/ Cardinality(S) > 1)
  BY DEF Calls
<1>2. IsFiniteSet(S)
  <2>1. IsFiniteSet(W)
    <3>1. DOMAIN more = 1 .. Len(more) /\ Len(more) \in Int
      OBVIOUS
    <3>2. IsFiniteSet(DOMAIN more)
      BY <3>1, FS_Interval
    <3> QED
      BY <3>2, FS_Subset
  <2>2. f \in Surjection(W, S)
    BY DEF Surjection
  <2> HIDE DEF f, W, S
  <2> QED
    BY <2>1, <2>2, FS_Surjection
<1>3. ASSUME NEW a \in S, NEW b \in S, a # b PROVE Cardinality(S) > 1
  <2> DEFINE one == {a}
             two == one \union {b}
  <2>1. IsFiniteSet(one) /\ Cardinality(one) = 1 /\ b \notin one
    BY <1>3, FS_Singleton
  <2>2. two \in SUBSET S
    BY <1>3
  <2> HIDE DEF one
  <2>3. Cardinality(two) = IF b \in one THEN Cardinality(one) ELSE Cardinality(one) + 1
    BY <2>1, FS_AddElement
  <2> HIDE DEF two, S
  <2>4. Cardinality(two) <= Cardinality(S) /\ Cardinality(S) \in Nat
    BY <1>2, <2>2, FS_Subset, FS_CardinalityType
  <2> QED
    BY <2>1, <2>3, <2>4
<1>4. ASSUME ~(Cardinality(S) > 1), NEW x \in Range(more), NEW y \in Range(more),
             x.op \in Writers, y.op \in Writers
      PROVE  x.by = y.by
  <2>1. x.by \in S /\ y.by \in S
    BY <1>4 DEF Range
  <2> QED
    BY <1>3, <1>4, <2>1
<1> QED
  BY <1>1, <1>4

(* In the queue: a form is checked after what has been written for it, at most one check
   and one new contact of a dialog wait, and one call of a payment. *)
Ordered(q) ==
  \A i, j \in DOMAIN q: q[i].by = q[j].by =>
    /\ q[i].op = "check" /\ q[j].op \in {"check", "insert", "update"} => j <= i
    /\ q[i].op = "insert" /\ q[j].op = "insert" => i = j
    /\ q[i].by = 0 => i = j

(* The last look-up of the page is of the address its field shows. *)
LooksUp(x) == x.op = "lookup" /\ x.by = visit
LooksUpTheLast(q) ==
  \A i \in DOMAIN q:
    LooksUp(q[i]) /\ (\A j \in DOMAIN q: LooksUp(q[j]) => j <= i) => q[i].what = field.value

(* When the first call is served, what waits has kept its order. *)
LEMMA ServedOrder ==
  ASSUME NEW q \in Seq(CallSet), q # <<>>
  PROVE  /\ Ordered(q) =>
              /\ Ordered(Tail(q))
              /\ \A x \in Range(Tail(q)): x.by = Head(q).by =>
                   /\ Head(q).op = "check" => x.op \notin {"check", "insert", "update"}
                   /\ Head(q).op = "insert" => x.op # "insert"
                   /\ Head(q).by # 0
         /\ LooksUpTheLast(q) =>
              /\ LooksUpTheLast(Tail(q))
              /\ LooksUp(Head(q)) =>
                   Head(q).what = field.value \/ \E x \in Range(Tail(q)): LooksUp(x)
<1> DEFINE t == Tail(q)
<1>1. /\ t \in Seq(CallSet) /\ Len(q) \in Nat /\ Len(q) > 0 /\ Len(t) = Len(q) - 1 /\ Head(q) = q[1]
      /\ \A i \in 1 .. Len(t): t[i] = q[i + 1]
  BY QueueOfCalls
<1>2. DOMAIN q = 1 .. Len(q) /\ DOMAIN t = 1 .. Len(q) - 1
  BY <1>1
<1> HIDE DEF t
<1>3. \A i \in DOMAIN t: i \in Nat /\ i + 1 \in DOMAIN q /\ i + 1 # 1 /\ t[i] = q[i + 1]
  BY <1>1, <1>2
<1>4. 1 \in DOMAIN q /\ \A j \in DOMAIN q: j \in Nat /\ (j # 1 => j - 1 \in DOMAIN t /\ t[j - 1] = q[j])
  BY <1>1, <1>2
<1>5. ASSUME Ordered(q) PROVE Ordered(t)
  BY <1>3, <1>5 DEF Ordered
<1>6. ASSUME Ordered(q), NEW x \in Range(t), x.by = Head(q).by
      PROVE  /\ Head(q).op = "check" => x.op \notin {"check", "insert", "update"}
             /\ Head(q).op = "insert" => x.op # "insert"
             /\ Head(q).by # 0
  <2>1. PICK i \in DOMAIN t: x = t[i]
    BY DEF Range
  <2>2. i + 1 \in DOMAIN q /\ i + 1 # 1 /\ x = q[i + 1] /\ ~(i + 1 <= 1)
    BY <1>3, <2>1
  <2> QED
    BY <1>1, <1>4, <1>6, <2>2 DEF Ordered
<1>7. ASSUME LooksUpTheLast(q) PROVE LooksUpTheLast(t)
  <2> SUFFICES ASSUME NEW i \in DOMAIN t, LooksUp(t[i]),
                      \A j \in DOMAIN t: LooksUp(t[j]) => j <= i
               PROVE  t[i].what = field.value
    BY DEF LooksUpTheLast
  <2>1. ASSUME NEW j \in DOMAIN q, LooksUp(q[j]) PROVE j <= i + 1
    <3>1. CASE j = 1
      BY <1>3, <3>1
    <3>2. CASE j # 1
      <4>1. j - 1 \in DOMAIN t /\ LooksUp(t[j - 1]) /\ j \in Nat
        BY <1>4, <2>1, <3>2
      <4>2. j - 1 <= i
        BY <4>1
      <4> QED
        BY <1>3, <4>1, <4>2
    <3> QED
      BY <3>1, <3>2
  <2> QED
    BY <1>3, <1>7, <2>1 DEF LooksUpTheLast
<1>8. ASSUME LooksUpTheLast(q), LooksUp(Head(q)), \A x \in Range(t): ~LooksUp(x)
      PROVE  Head(q).what = field.value
  <2>1. \A j \in DOMAIN q: LooksUp(q[j]) => j <= 1
    BY <1>4, <1>8 DEF Range
  <2> QED
    BY <1>1, <1>4, <1>8, <2>1 DEF LooksUpTheLast
<1> QED
  BY <1>5, <1>6, <1>7, <1>8 DEF t

(* A call that is made waits behind the others. *)
LEMMA AskedOrder ==
  ASSUME NEW q \in Seq(CallSet), NEW x \in CallSet
  PROVE  /\ /\ Ordered(q)
            /\ \A y \in Range(q): y.by = x.by =>
                 /\ x.op \in {"check", "insert", "update"} => y.op # "check"
                 /\ x.op = "insert" => y.op # "insert"
                 /\ x.by # 0
            => Ordered(Append(q, x))
         /\ LooksUpTheLast(q) /\ (LooksUp(x) => x.what = field.value) => LooksUpTheLast(Append(q, x))
<1> DEFINE a == Append(q, x)
<1>1. /\ Len(q) \in Nat /\ DOMAIN q = 1 .. Len(q) /\ DOMAIN a = 1 .. Len(q) + 1
      /\ a[Len(q) + 1] = x /\ \A i \in DOMAIN q: a[i] = q[i]
  OBVIOUS
<1> HIDE DEF a
<1>2. \A i \in DOMAIN a: i \in Nat /\ i <= Len(q) + 1 /\ (i = Len(q) + 1 \/ i \in DOMAIN q)
  BY <1>1
<1>3. \A i \in DOMAIN q: q[i] \in Range(q) /\ i <= Len(q)
  BY <1>1 DEF Range
<1>4. ASSUME Ordered(q),
             \A y \in Range(q): y.by = x.by =>
               /\ x.op \in {"check", "insert", "update"} => y.op # "check"
               /\ x.op = "insert" => y.op # "insert"
               /\ x.by # 0
      PROVE  Ordered(a)
  <2> SUFFICES ASSUME NEW i \in DOMAIN a, NEW j \in DOMAIN a, a[i].by = a[j].by
               PROVE  /\ a[i].op = "check" /\ a[j].op \in {"check", "insert", "update"} => j <= i
                      /\ a[i].op = "insert" /\ a[j].op = "insert" => i = j
                      /\ a[i].by = 0 => i = j
    BY DEF Ordered
  <2>1. CASE i \in DOMAIN q /\ j \in DOMAIN q
    BY <1>1, <1>4, <2>1 DEF Ordered
  <2>2. CASE i = Len(q) + 1
    BY <1>1, <1>2, <1>3, <1>4, <2>2
  <2>3. CASE i \in DOMAIN q /\ j = Len(q) + 1
    BY <1>1, <1>2, <1>3, <1>4, <2>3
  <2> QED
    BY <1>2, <2>1, <2>2, <2>3
<1>5. ASSUME LooksUpTheLast(q), LooksUp(x) => x.what = field.value
      PROVE  LooksUpTheLast(a)
  <2> SUFFICES ASSUME NEW i \in DOMAIN a, LooksUp(a[i]),
                      \A j \in DOMAIN a: LooksUp(a[j]) => j <= i
               PROVE  a[i].what = field.value
    BY DEF LooksUpTheLast
  <2>1. CASE i = Len(q) + 1
    BY <1>1, <1>5, <2>1
  <2>2. CASE i \in DOMAIN q
    <3>1. \A j \in DOMAIN q: LooksUp(q[j]) => j <= i
      BY <1>1
    <3> QED
      BY <1>1, <1>5, <2>2, <3>1 DEF LooksUpTheLast
  <2> QED
    BY <1>2, <2>1, <2>2
<1> QED
  BY <1>4, <1>5 DEF a

(* Checks that are lost are not checks any more; all else stays as it is. *)
LEMMA LostOrder ==
  ASSUME calls \in Seq(CallSet), NEW d \in Nat \ {0}
  PROVE  /\ Ordered(calls) => Ordered(Lost(d))
         /\ LooksUpTheLast(calls) => LooksUpTheLast(Lost(d))
         /\ \A x \in Range(Lost(d)):
              /\ x.op = "check" => x.by # d
              /\ \E y \in Range(calls):
                   /\ x.by = y.by /\ x.what = y.what
                   /\ x.op = y.op \/ (x.op = "lost" /\ y.op = "check")
<1> DEFINE l == Lost(d)
<1>1. /\ DOMAIN l = DOMAIN calls
      /\ \A i \in DOMAIN calls:
           /\ l[i].by = calls[i].by /\ l[i].what = calls[i].what
           /\ l[i].op = IF calls[i].op = "check" /\ calls[i].by = d THEN "lost" ELSE calls[i].op
  BY QueueWithLost
<1> HIDE DEF l
<1>2. ASSUME Ordered(calls) PROVE Ordered(l)
  BY <1>1, <1>2 DEF Ordered
<1>3. ASSUME LooksUpTheLast(calls) PROVE LooksUpTheLast(l)
  <2>1. \A i \in DOMAIN calls: LooksUp(l[i]) <=> LooksUp(calls[i])
    BY <1>1 DEF LooksUp
  <2> QED
    BY <1>1, <1>3, <2>1 DEF LooksUpTheLast
<1>4. ASSUME NEW x \in Range(l)
      PROVE  /\ x.op = "check" => x.by # d
             /\ \E y \in Range(calls):
                  /\ x.by = y.by /\ x.what = y.what
                  /\ x.op = y.op \/ (x.op = "lost" /\ y.op = "check")
  BY <1>1, <1>4 DEF Range
<1> QED
  BY <1>2, <1>3, <1>4 DEF l

(* What a queue holds of the dialogs: those of the page have been opened, the calls of one
   are about the contact it edits, or all about a new one. *)
OfDialogs(q) ==
  /\ \A x \in Range(q): x.op \in DialogOps =>
       /\ x.by <= opened
       /\ form # NoForm /\ x.by = opened => x.what.edits = form.edits
       /\ x.op = "insert" => x.what.edits = Nothing
       /\ x.op = "update" => x.what.edits # Nothing
  /\ \A x, y \in Range(q): x.op \in DialogOps /\ y.op \in DialogOps /\ x.by = y.by =>
       x.what.edits = y.what.edits

(* A contact is known by its number, and no number is given twice. *)
KnownId(c) == c = Nothing \/ c.id <= lastId
BookNumbered ==
  /\ \A c \in book: c.id <= lastId
  /\ \A c, d \in book: c.id = d.id => c = d
Numbered ==
  /\ \A c \in contacts: KnownId(c)
  /\ KnownId(form.edits)
  /\ \A x \in Range(calls): x.op \in DialogOps => KnownId(x.what.edits)

(* The first call is answered: what it asked with is of its kind. *)
LEMMA FirstCall ==
  ASSUME BookTyped, NEW op, Serves(op)
  PROVE  /\ calls # <<>> /\ Head(calls) \in CallSet /\ Head(calls).op = op
         /\ Head(calls) \in Range(calls)
         /\ Tail(calls) \in Seq(CallSet) /\ Range(Tail(calls)) \subseteq Range(calls)
BY QueueOfCalls DEF BookTyped, Serves

(* Every step of the database leaves values of their kind. *)
LEMMA DatabaseTyped ==
  ASSUME BookTyped, DatabaseStep
  PROVE  BookTyped'
<1> USE DEF kept, views
<1>a. ASSUME Served(<<>>)
      PROVE  (calls # <<>> => calls' = Tail(calls) /\ calls' \in Seq(CallSet)) /\ overlapped' \in BOOLEAN
  BY <1>a, QueueOfCalls DEF Served, Calls, BookTyped
<1>b. ASSUME NEW x \in CallSet, Served(<<x>>)
      PROVE  /\ calls # <<>> => calls' = Append(Tail(calls), x) /\ calls' \in Seq(CallSet)
             /\ overlapped' \in BOOLEAN
  BY <1>b, QueueOfCalls DEF Served, Calls, BookTyped
<1>c. ASSUME NEW n \in AnyNetwork, NEW a \in AnyAddress, NEW m \in AnyMemo
      PROVE  \A id \in Nat: Contact(id, n, a, m) \in ContactSet
  BY <1>c DEF Contact, ContactSet
<1>1. CASE Fetched
  BY <1>1, <1>a, FirstCall DEF Fetched, BookTyped
<1>2. CASE Checked
  BY <1>2, <1>a, <1>b, FirstCall, CallKinds, CallsMade DEF Checked, BookTyped, Write, Call, DialogOps
<1>3. CASE CheckLost
  BY <1>3, <1>a, FirstCall DEF CheckLost, BookTyped
<1>d. ASSUME NEW f \in FormSet, calls # <<>>, Saved(f), lastId' \in Nat, book' \subseteq ContactSet
      PROVE  BookTyped'
  <2>1. Call("list", f.visit, Nothing) \in CallSet
    BY CallsMade DEF FormSet
  <2>2. calls' \in Seq(CallSet) /\ overlapped' \in BOOLEAN
    BY <1>d, <1>b, <2>1 DEF Saved
  <2>3. /\ form' \in {NoForm, form}
        /\ UNCHANGED <<place, visit, contacts, opened, removing, field, payment, typed, moved, outdated>>
    BY <1>d DEF Saved
  <2> QED
    BY <1>d, <2>2, <2>3 DEF BookTyped
<1>4. CASE SaveNew
  <2> DEFINE f == Head(calls).what
  <2>1. f \in FormSet /\ calls # <<>>
    BY <1>4, FirstCall, CallKinds DEF SaveNew, DialogOps
  <2>2. Saved(f) /\ Insert(f.network, f.address, f.memo)
    BY <1>4 DEF SaveNew
  <2>3. f.network \in AnyNetwork /\ f.address \in AnyAddress /\ f.memo \in AnyMemo
    BY <2>1 DEF FormSet, AnyNetwork, AnyAddress
  <2> HIDE DEF f
  <2>4. lastId' \in Nat /\ book' \subseteq ContactSet
    BY <1>c, <2>2, <2>3 DEF Insert, BookTyped
  <2> QED
    BY <1>d, <2>1, <2>2, <2>4
<1>5. CASE SaveEdited
  <2> DEFINE f == Head(calls).what
  <2>1. f \in FormSet /\ calls # <<>>
    BY <1>5, FirstCall, CallKinds DEF SaveEdited, DialogOps
  <2>2. Saved(f) /\ book' = Updated(f.edits.id, f.network, f.address, f.memo) /\ lastId' = lastId
    BY <1>5 DEF SaveEdited
  <2>3. f.network \in AnyNetwork /\ f.address \in AnyAddress /\ f.memo \in AnyMemo
    BY <2>1 DEF FormSet, AnyNetwork, AnyAddress
  <2> HIDE DEF f
  <2>4. ASSUME NEW c \in book' PROVE c \in ContactSet
    <3>1. PICK b \in book: c = IF b.id = f.edits.id THEN Contact(b.id, f.network, f.address, f.memo)
                                                    ELSE b
      BY <2>2 DEF Updated
    <3>2. b \in ContactSet /\ b.id \in Nat
      BY DEF BookTyped, ContactSet
    <3> QED
      BY <1>c, <2>3, <3>1, <3>2
  <2> QED
    BY <1>d, <2>1, <2>2, <2>4 DEF BookTyped
<1>6. CASE Removed
  BY <1>6, <1>b, FirstCall, CallKinds, CallsMade DEF Removed, Without, BookTyped
<1>7. CASE LookedUp
  <2> DEFINE h == Head(calls)
             k == Known(Asset, h.what)
  <2>1. h.what \in AnyAddress /\ calls' \in Seq(CallSet) /\ overlapped' \in BOOLEAN
    BY <1>7, <1>a, FirstCall, CallKinds DEF LookedUp
  <2>2. k \in ContactSet \union {Nothing}
    BY DEF Known, ContactsAt, BookTyped
  <2>3. UNCHANGED <<Sending, typed, outdated>>
    BY <1>7 DEF LookedUp
  <2>4. CASE h.by = visit
    <3>1. /\ payment' = [address |-> h.what, memo |-> IF k = Nothing THEN Nothing ELSE k.memo,
                         own |-> FALSE]
          /\ field' = [field EXCEPT !.contact = k]
      BY <1>7, <2>4 DEF LookedUp, Onto
    <3> HIDE DEF h, k
    <3>2. payment' \in PaymentSet
      BY <2>1, <2>2, <3>1 DEF PaymentSet, ContactSet, AnyAddress, AnyMemo
    <3>3. field' \in [value: AnyAddress, contact: ContactSet \union {Nothing}]
      BY <2>2, <3>1 DEF BookTyped
    <3> QED
      BY <2>1, <2>3, <3>2, <3>3 DEF BookTyped, Sending
  <2>5. CASE h.by # visit
    <3>1. UNCHANGED <<field, payment>>
      BY <1>7, <2>5 DEF LookedUp
    <3> QED
      BY <2>1, <2>3, <3>1 DEF BookTyped, Sending
  <2> QED
    BY <2>4, <2>5
<1>8. CASE Find
  BY <1>8, <1>a, <1>b, FirstCall, CallKinds, CallsMade DEF Find, BookTyped, AutoOps, Call
<1>9. CASE Count
  BY <1>9, <1>b, FirstCall, CallKinds, CallsMade DEF Count, BookTyped, AutoOps, Call
<1>10. CASE AutoAdd
  <2> DEFINE p == Head(calls).what
  <2>1. p \in PaymentSet /\ calls' \in Seq(CallSet) /\ overlapped' \in BOOLEAN
    BY <1>10, <1>a, FirstCall, CallKinds DEF AutoAdd, AutoOps
  <2>2. Insert(Asset, p.address, p.memo) /\ UNCHANGED <<outdated, views, typed, moved>>
    BY <1>10 DEF AutoAdd
  <2>3. Asset \in AnyNetwork /\ p.address \in AnyAddress /\ p.memo \in AnyMemo
    BY <2>1 DEF PaymentSet, AnyNetwork
  <2> HIDE DEF p
  <2>4. lastId' \in Nat /\ book' \subseteq ContactSet
    BY <1>c, <2>2, <2>3 DEF Insert, BookTyped
  <2> QED
    BY <2>1, <2>2, <2>4 DEF BookTyped
<1> QED
  BY <1>1, <1>2, <1>3, <1>4, <1>5, <1>6, <1>7, <1>8, <1>9, <1>10 DEF DatabaseStep

(* So does every step of the user. *)
LEMMA UserTyped ==
  ASSUME BookTyped, BookStep
  PROVE  BookTyped'
<1> USE DEF kept
<1>a. ASSUME NEW x \in CallSet, Ask(x) PROVE calls' \in Seq(CallSet) /\ overlapped' \in BOOLEAN
  BY <1>a, QueueOfCalls DEF Ask, Calls, BookTyped
<1>1. ASSUME NEW p \in {"book", "send"}, Open(p) PROVE BookTyped'
  <2>1. Call("list", visit + 1, Nothing) \in CallSet /\ visit + 1 \in Nat /\ visit + 1 # 0
    BY CallsMade DEF BookTyped
  <2>2. calls' \in Seq(CallSet) /\ overlapped' \in BOOLEAN
    BY <1>1, <1>a, <2>1 DEF Open
  <2>3. field' \in [value: AnyAddress, contact: ContactSet \union {Nothing}] /\ payment' \in PaymentSet
    BY <1>1 DEF Open, EmptyField, EmptyPayment, PaymentSet, AnyAddress, AnyMemo
  <2>4. /\ UNCHANGED <<book, lastId, opened, form, removing, typed, moved>>
        /\ place' = p /\ visit' = visit + 1 /\ contacts' = {} /\ outdated' = FALSE
    BY <1>1 DEF Open
  <2> QED
    BY <2>1, <2>2, <2>3, <2>4 DEF BookTyped
<1>2. ASSUME NEW c \in contacts \union {Nothing}, OpenContact(c) PROVE BookTyped'
  <2>1. PICK n \in Networks, a \in Addresses, m \in AnyMemo:
          form' = [visit |-> visit, edits |-> c, network |-> n, address |-> a, memo |-> m]
    BY <1>2 DEF OpenContact, AnyMemo
  <2>2. visit \in Nat \ {0} /\ c \in ContactSet \union {Nothing}
    BY <1>2 DEF OpenContact, BookTyped
  <2>3. form' \in FormSet
    BY <2>1, <2>2 DEF FormSet
  <2>4. /\ opened' = opened + 1
        /\ UNCHANGED <<book, lastId, outdated, calls, place, visit, contacts, removing, field, payment,
                       typed, overlapped, moved>>
    BY <1>2 DEF OpenContact
  <2>5. opened' \in Nat /\ opened' # 0
    BY <2>4 DEF BookTyped
  <2> QED
    BY <2>2, <2>3, <2>4, <2>5 DEF BookTyped
<1>3. ASSUME NEW c \in contacts \union {Nothing}, AskRemove(c) PROVE BookTyped'
  BY <1>3 DEF AskRemove, BookTyped
<1>4. ASSUME NEW n \in Networks, NEW a \in Addresses, FillIn(n, a) PROVE BookTyped'
  <2>1. form \in FormSet /\ opened \in Nat \ {0}
    BY <1>4 DEF FillIn, BookTyped
  <2>2. form' \in FormSet
    BY <1>4, <2>1 DEF FillIn, Changed, FormSet
  <2>3. calls' \in Seq(CallSet) /\ overlapped' \in BOOLEAN
    BY <1>4, <2>1, QueueWithLost DEF FillIn, Changed, Calls, BookTyped
  <2> QED
    BY <1>4, <2>1, <2>2, <2>3 DEF FillIn, BookTyped
<1>5. CASE SubmitContact
  <2>1. form \in FormSet /\ opened \in Nat \ {0}
    BY <1>5 DEF SubmitContact, BookTyped
  <2>2. Write(form) \in CallSet /\ Call("check", opened, form) \in CallSet
    BY <2>1, CallsMade DEF Write, DialogOps
  <2>3. calls' \in Seq(CallSet) /\ overlapped' \in BOOLEAN
    BY <1>5, <2>1, <2>2, QueueWithLost, QueueOfCalls DEF SubmitContact, Calls, BookTyped
  <2>4. UNCHANGED <<kept, views>> /\ moved' \in BOOLEAN
    BY <1>5 DEF SubmitContact, BookTyped
  <2> QED
    BY <2>3, <2>4 DEF BookTyped, views
<1>6. CASE CloseDialog
  BY <1>6, <1>a, CallsMade DEF CloseDialog, BookTyped
<1>7. CASE Remove
  BY <1>7, <1>a, CallsMade DEF Remove, BookTyped
<1>8. ASSUME NEW a \in Addresses, TypeAddress(a) PROVE BookTyped'
  <2>1. calls' \in Seq(CallSet) /\ overlapped' \in BOOLEAN
    BY <1>8, <1>a, CallsMade DEF TypeAddress, LookUp, BookTyped, AnyAddress
  <2>2. field' \in [value: AnyAddress, contact: ContactSet \union {Nothing}]
    BY <1>8 DEF TypeAddress, BookTyped, AnyAddress
  <2> QED
    BY <1>8, <2>1, <2>2 DEF TypeAddress, Sending, BookTyped
<1>9. ASSUME NEW c \in contacts, SelectContact(c) PROVE BookTyped'
  <2>1. c \in ContactSet /\ c.address \in AnyAddress /\ c.memo \in AnyMemo
    BY DEF BookTyped, ContactSet
  <2>3. calls' \in Seq(CallSet) /\ overlapped' \in BOOLEAN
    BY <1>9, <1>a, <2>1, CallsMade DEF SelectContact, LookUp, BookTyped
  <2>4. field' \in [value: AnyAddress, contact: ContactSet \union {Nothing}] /\ payment' \in PaymentSet
    BY <1>9, <2>1 DEF SelectContact, Onto, PaymentSet, AnyMemo
  <2> QED
    BY <1>9, <2>3, <2>4 DEF SelectContact, Sending, BookTyped
<1>10. ASSUME NEW m \in Memos, TypeMemo(m) PROVE BookTyped'
  <2>1. payment' \in PaymentSet
    BY <1>10 DEF TypeMemo, BookTyped, PaymentSet, AnyMemo
  <2> QED
    BY <1>10, <2>1 DEF TypeMemo, Sending, BookTyped
<1>11. CASE ClearContact
  <2>1. field' \in [value: AnyAddress, contact: ContactSet \union {Nothing}] /\ payment' \in PaymentSet
    BY <1>11 DEF ClearContact, EmptyField, Onto, PaymentSet, AnyAddress, AnyMemo
  <2>2. outdated' \in BOOLEAN
    BY <1>11 DEF ClearContact, BookTyped
  <2> QED
    BY <1>11, <2>1, <2>2 DEF ClearContact, Sending, BookTyped
<1>12. CASE Pay
  <2>1. Call("find", 0, payment) \in CallSet
    BY CallsMade DEF AutoOps, BookTyped
  <2>2. calls' \in Seq(CallSet) /\ overlapped' \in BOOLEAN
    BY <1>12, <1>a, <2>1 DEF Pay, BookTyped
  <2>3. field' \in [value: AnyAddress, contact: ContactSet \union {Nothing}] /\ payment' \in PaymentSet
    BY <1>12 DEF Pay, EmptyField, EmptyPayment, PaymentSet, AnyAddress, AnyMemo
  <2> QED
    BY <1>12, <2>2, <2>3 DEF Pay, Sending, BookTyped
<1> QED
  BY <1>1, <1>2, <1>3, <1>4, <1>5, <1>6, <1>7, <1>8, <1>9, <1>10, <1>11, <1>12 DEF BookStep

(* Calls of a page wait behind anything. *)
LEMMA PageCallOrder ==
  ASSUME NEW q \in Seq(CallSet), Ordered(q), NEW x \in CallSet, x.op \in {"list", "remove", "lookup"}
  PROVE  Ordered(Append(q, x))
<1>1. x.by # 0
  BY CallKinds
<1> QED
  BY <1>1, AskedOrder

(* The calls keep their order in every step. *)
LEMMA OrderStep ==
  ASSUME BookTyped, Ordered(calls), BookNext
  PROVE  Ordered(calls')
<1>0. calls \in Seq(CallSet)
  BY DEF BookTyped
<1>a. ASSUME NEW x \in CallSet, x.op \in {"list", "remove", "lookup"}, Ask(x) PROVE Ordered(calls')
  BY <1>0, <1>a, PageCallOrder DEF Ask, Calls
<1>b. ASSUME NEW op, Serves(op)
      PROVE  /\ calls # <<>> /\ Tail(calls) \in Seq(CallSet) /\ Head(calls) \in CallSet
             /\ Head(calls).op = op /\ Ordered(Tail(calls))
             /\ Served(<<>>) => Ordered(calls')
             /\ \A x \in CallSet: Served(<<x>>) => calls' = Append(Tail(calls), x)
  BY <1>0, <1>b, FirstCall, ServedOrder, QueueOfCalls DEF Served, Calls
<1>c. ASSUME NEW op, Serves(op), NEW x \in CallSet, x.op \in {"list", "remove", "lookup"}, Served(<<x>>)
      PROVE  Ordered(calls')
  BY <1>b, <1>c, PageCallOrder
<1>1. CASE Fetched
  BY <1>1, <1>b DEF Fetched
<1>2. CASE Checked
  <2> DEFINE c == Head(calls)
             x == [Write(c.what) EXCEPT !.by = c.by]
  <2>1. /\ c.what \in FormSet /\ c.by \in Nat \ {0} /\ c.op = "check"
        /\ Served(<<>>) \/ Served(<<x>>)
    BY <1>2, <1>b, CallKinds DEF Checked, DialogOps
  <2>2. x = Call(IF c.what.edits = Nothing THEN "insert" ELSE "update", c.by, c.what)
    BY DEF Write, Call
  <2>3. x \in CallSet /\ x.by = c.by
    BY <2>1, <2>2, CallsMade DEF DialogOps, Call
  <2> HIDE DEF x
  <2>4. \A y \in Range(Tail(calls)): y.by = c.by => y.op \notin {"check", "insert", "update"}
    BY <1>0, <1>2, <1>b, <2>1, ServedOrder DEF Checked
  <2>5. Ordered(Append(Tail(calls), x))
    BY <1>2, <1>b, <2>1, <2>3, <2>4, AskedOrder DEF Checked
  <2> QED
    BY <1>2, <1>b, <2>1, <2>3, <2>5 DEF Checked
<1>3. CASE CheckLost
  BY <1>3, <1>b DEF CheckLost
<1>d. ASSUME NEW f \in FormSet, NEW op, Serves(op), Saved(f) PROVE Ordered(calls')
  <2>1. Call("list", f.visit, Nothing) \in CallSet /\ Call("list", f.visit, Nothing).op = "list"
    BY CallsMade DEF FormSet, Call
  <2> QED
    BY <1>c, <1>d, <2>1 DEF Saved
<1>4. CASE SaveNew
  BY <1>4, <1>b, <1>d, CallKinds DEF SaveNew, DialogOps
<1>5. CASE SaveEdited
  BY <1>5, <1>b, <1>d, CallKinds DEF SaveEdited, DialogOps
<1>6. CASE Removed
  <2>1. Head(calls).by \in Nat \ {0}
    BY <1>6, <1>b, CallKinds DEF Removed
  <2>2. /\ Call("list", Head(calls).by, Nothing) \in CallSet
        /\ Call("list", Head(calls).by, Nothing).op = "list"
    BY <2>1, CallsMade DEF Call
  <2> QED
    BY <1>6, <1>c, <2>2 DEF Removed
<1>7. CASE LookedUp
  BY <1>7, <1>b DEF LookedUp
<1>e. ASSUME NEW op, Serves(op), op \in AutoOps, NEW x \in CallSet, x.by = 0, Served(<<x>>)
      PROVE  Ordered(calls')
  <2>1. Head(calls).by = 0
    BY <1>b, <1>e, CallKinds
  <2>2. \A y \in Range(Tail(calls)): y.by # 0
    BY <1>0, <1>b, <1>e, <2>1, ServedOrder
  <2> QED
    BY <1>b, <1>e, <2>2, AskedOrder
<1>8. CASE Find
  <2>1. Head(calls).what \in PaymentSet /\ Head(calls).by = 0
    BY <1>8, <1>b, CallKinds DEF Find, AutoOps
  <2>2. [Head(calls) EXCEPT !.op = "count"] = Call("count", 0, Head(calls).what)
    BY <1>8, <1>b, <2>1, CallKinds DEF Find, Call
  <2> QED
    BY <1>8, <1>b, <1>e, <2>1, <2>2, CallsMade DEF Find, AutoOps, Call
<1>9. CASE Count
  <2>1. Head(calls).what \in PaymentSet /\ Head(calls).by = 0
    BY <1>9, <1>b, CallKinds DEF Count, AutoOps
  <2>2. [Head(calls) EXCEPT !.op = "auto"] = Call("auto", 0, Head(calls).what)
    BY <1>9, <1>b, <2>1, CallKinds DEF Count, Call
  <2> QED
    BY <1>9, <1>b, <1>e, <2>1, <2>2, CallsMade DEF Count, AutoOps, Call
<1>10. CASE AutoAdd
  BY <1>10, <1>b DEF AutoAdd
<1>11. ASSUME NEW p \in {"book", "send"}, Open(p) PROVE Ordered(calls')
  <2>1. Call("list", visit + 1, Nothing) \in CallSet
    BY CallsMade DEF BookTyped
  <2> QED
    BY <1>11, <1>a, <2>1 DEF Open, Call
<1>12. ASSUME NEW c \in contacts \union {Nothing}, OpenContact(c) \/ AskRemove(c) PROVE Ordered(calls')
  BY <1>12 DEF OpenContact, AskRemove
<1>13. ASSUME NEW n \in Networks, NEW a \in Addresses, FillIn(n, a) PROVE Ordered(calls')
  BY <1>0, <1>13, LostOrder DEF FillIn, Changed, Calls, BookTyped
<1>14. CASE SubmitContact
  <2> DEFINE x == IF Unchecked(form) THEN Write(form) ELSE Call("check", opened, form)
  <2>1. form \in FormSet /\ opened \in Nat \ {0} /\ calls' = Append(Lost(opened), x)
    BY <1>14 DEF SubmitContact, Calls, BookTyped
  <2>2. x \in CallSet /\ x.op \in {"check", "update"} /\ x.by = opened
    BY <2>1, CallsMade DEF Write, DialogOps, Unchecked, Call
  <2> HIDE DEF x
  <2>3. Lost(opened) \in Seq(CallSet) /\ Ordered(Lost(opened))
    BY <1>0, <2>1, QueueWithLost, LostOrder
  <2>4. \A y \in Range(Lost(opened)): y.by = opened => y.op # "check"
    BY <1>0, <2>1, LostOrder
  <2> QED
    BY <2>1, <2>2, <2>3, <2>4, AskedOrder
<1>15. CASE CloseDialog
  BY <1>15, <1>a, CallsMade DEF CloseDialog, BookTyped, Call
<1>16. CASE Remove
  BY <1>16, <1>a, CallsMade DEF Remove, BookTyped, Call
<1>17. ASSUME NEW a \in AnyAddress, place = "send", LookUp(a) PROVE Ordered(calls')
  BY <1>17, <1>a, CallsMade DEF LookUp, BookTyped, Call
<1>18. ASSUME NEW a \in Addresses, TypeAddress(a) PROVE Ordered(calls')
  BY <1>18, <1>17 DEF TypeAddress, AnyAddress
<1>19. ASSUME NEW c \in contacts, SelectContact(c) PROVE Ordered(calls')
  BY <1>19, <1>17 DEF SelectContact, BookTyped, ContactSet
<1>20. ASSUME NEW m \in Memos, TypeMemo(m) PROVE Ordered(calls')
  BY <1>20 DEF TypeMemo
<1>21. CASE ClearContact
  BY <1>21 DEF ClearContact
<1>22. CASE Pay
  <2>1. CASE Ask(Call("find", 0, payment))
    <3>1. Call("find", 0, payment) \in CallSet
      BY CallsMade DEF AutoOps, BookTyped
    <3>2. \A y \in Range(calls): y.by # 0
      BY <1>22 DEF Pay, Adding, Range
    <3> QED
      BY <1>0, <2>1, <3>1, <3>2, AskedOrder DEF Ask, Calls, Call
  <2>2. CASE UNCHANGED calls
    BY <2>2
  <2> QED
    BY <1>22, <2>1, <2>2 DEF Pay
<1> QED
  BY <1>1, <1>2, <1>3, <1>4, <1>5, <1>6, <1>7, <1>8, <1>9, <1>10, <1>11, <1>12, <1>13, <1>14,
     <1>15, <1>16, <1>18, <1>19, <1>20, <1>21, <1>22 DEF BookNext, DatabaseStep, BookStep

(* Two writers are not under way together, unless that has been noted. *)
OneWriterWaits ==
  ~overlapped => \A x, y \in Range(calls): x.op \in Writers /\ y.op \in Writers => x.by = y.by

(* Where a call is going to put a contact there is none, or that contact. *)
Vacant(x) ==
  /\ x.op = "insert" => ContactsAt(x.what.network, x.what.address) = {}
  /\ x.op \in {"count", "auto"} => ContactsAt(Asset, x.what.address) = {}
  /\ x.op = "update" =>
       \A c \in book, d \in ContactsAt(x.what.network, x.what.address):
         c.id = x.what.edits.id => c = d

PlacesFree == ~overlapped /\ ~moved => \A x \in Range(calls): Vacant(x)

BookInv ==
  BookTyped /\ Ordered(calls) /\ OfDialogs(calls) /\ Numbered /\ OneWriterWaits
            /\ BookNumbered /\ PlacesFree /\ NoDuplicates

(* A call that waited before, and perhaps has been lost since. *)
Waited(x) ==
  \E y \in Range(calls):
    x.by = y.by /\ x.what = y.what /\ (x.op = y.op \/ (x.op = "lost" /\ y.op = "check"))

(* The dialog that is open is the one that was, or a new one. *)
FormKept ==
  /\ opened' \in Nat /\ opened' >= opened
  /\ \/ form' = NoForm
     \/ form # NoForm /\ form'.edits = form.edits /\ opened' = opened
     \/ opened' > opened /\ form'.edits \in contacts \union {Nothing}

(* What a dialog asks with one more call. *)
MayFollow(z) ==
  z.op \in DialogOps =>
    /\ z.by <= opened /\ KnownId(z.what.edits)
    /\ form # NoForm /\ z.by = opened => z.what.edits = form.edits
    /\ z.op = "insert" => z.what.edits = Nothing
    /\ z.op = "update" => z.what.edits # Nothing
    /\ \A y \in Range(calls): y.op \in DialogOps /\ y.by = z.by => y.what.edits = z.what.edits

(* A step that makes one call at most leaves the dialogs and their calls in order. *)
LEMMA WritersKept ==
  ASSUME BookInv, BookTyped', Ordered(calls'), NEW z \in CallSet,
         \A x \in Range(calls'): x = z \/ Waited(x),
         lastId' >= lastId, contacts' \subseteq contacts \union book,
         Calls(calls') \/ UNCHANGED <<calls, overlapped>>, FormKept,
         z.op \in DialogOps => opened' = opened /\ form' \in {form, NoForm} /\ MayFollow(z)
  PROVE  OfDialogs(calls)' /\ Numbered' /\ OneWriterWaits' /\ (overlapped => overlapped')
<1>0. calls' \in Seq(CallSet) /\ Range(calls) \subseteq CallSet /\ opened \in Nat
  BY QueueOfCalls DEF BookInv, BookTyped
<1>1. (overlapped => overlapped') /\ OneWriterWaits'
  <2>1. CASE Calls(calls')
    BY <1>0, <2>1, OneWriter DEF BookInv, BookTyped, OneWriterWaits
  <2>2. CASE UNCHANGED <<calls, overlapped>>
    BY <2>2 DEF BookInv, OneWriterWaits
  <2> QED
    BY <2>1, <2>2
<1>2. ASSUME NEW x \in Range(calls'), x.op \in DialogOps
      PROVE  /\ x.by <= opened' /\ KnownId(x.what.edits)
             /\ form' # NoForm /\ x.by = opened' => x.what.edits = form'.edits
             /\ x.op = "insert" => x.what.edits = Nothing
             /\ x.op = "update" => x.what.edits # Nothing
  <2>1. CASE x = z
    BY <1>2, <2>1 DEF MayFollow
  <2>2. CASE Waited(x)
    <3>1. PICK y \in Range(calls): /\ x.by = y.by /\ x.what = y.what
                                   /\ x.op = y.op \/ (x.op = "lost" /\ y.op = "check")
      BY <2>2 DEF Waited
    <3>2. /\ y.op \in DialogOps /\ y.by \in Nat /\ y.by <= opened /\ KnownId(y.what.edits)
          /\ form # NoForm /\ y.by = opened => y.what.edits = form.edits
          /\ y.op = "insert" => y.what.edits = Nothing
          /\ y.op = "update" => y.what.edits # Nothing
      BY <1>0, <1>2, <3>1, CallKinds DEF BookInv, OfDialogs, Numbered, DialogOps
    <3> QED
      BY <1>0, <3>1, <3>2 DEF FormKept
  <2> QED
    BY <2>1, <2>2
<1>3. ASSUME NEW x \in Range(calls'), NEW y \in Range(calls'),
             x.op \in DialogOps, y.op \in DialogOps, x.by = y.by
      PROVE  x.what.edits = y.what.edits
  <2>1. CASE x = z /\ y = z
    BY <2>1
  <2>2. ASSUME NEW u \in Range(calls'), u.op \in DialogOps, u.by = z.by, z.op \in DialogOps
        PROVE  u.what.edits = z.what.edits
    BY <2>2 DEF MayFollow, Waited, DialogOps
  <2>3. CASE Waited(x) /\ Waited(y)
    <3>1. PICK v \in Range(calls): x.by = v.by /\ x.what = v.what /\ v.op \in DialogOps
      BY <1>3, <2>3 DEF Waited, DialogOps
    <3>2. PICK w \in Range(calls): y.by = w.by /\ y.what = w.what /\ w.op \in DialogOps
      BY <1>3, <2>3 DEF Waited, DialogOps
    <3> QED
      BY <1>3, <3>1, <3>2 DEF BookInv, OfDialogs
  <2> QED
    BY <1>3, <2>1, <2>2, <2>3
<1>4. OfDialogs(calls)'
  BY <1>2, <1>3 DEF OfDialogs
<1>5. Numbered'
  <2>0. lastId \in Nat /\ lastId' \in Nat
    BY DEF BookInv, BookTyped
  <2>1. ASSUME NEW c \in ContactSet \union {Nothing}, KnownId(c) PROVE KnownId(c)'
    <3>1. c = Nothing \/ (c.id \in Nat /\ c.id <= lastId)
      BY <2>1 DEF KnownId, ContactSet
    <3> QED
      BY <2>0, <3>1 DEF KnownId
  <2>2. KnownId(form'.edits)
    BY DEF FormKept, BookInv, Numbered, KnownId, NoForm
  <2>3. form'.edits \in ContactSet \union {Nothing}
    BY DEF BookTyped, FormSet, NoForm
  <2>4. \A c \in contacts': KnownId(c) /\ c \in ContactSet
    BY DEF BookInv, BookTyped, Numbered, BookNumbered, KnownId
  <2>5. \A x \in Range(calls'): x.op \in DialogOps => x.what.edits \in ContactSet \union {Nothing}
    BY <1>0, QueueOfCalls, CallKinds DEF FormSet
  <2>6. KnownId(form.edits)'
    BY <2>1, <2>2, <2>3
  <2>7. \A c \in contacts': KnownId(c)'
    BY <2>1, <2>4
  <2>8. \A x \in Range(calls'): x.op \in DialogOps => KnownId(x.what.edits)'
    BY <1>2, <2>1, <2>5
  <2> QED
    BY <2>6, <2>7, <2>8 DEF Numbered
<1> QED
  BY <1>1, <1>4, <1>5

(* If nothing is put into the book, the places that are written to are free as before. *)
LEMMA PlacesKept ==
  ASSUME BookInv, NEW z \in CallSet, \A x \in Range(calls'): x = z \/ Waited(x),
         book' \subseteq book, lastId' = lastId, overlapped => overlapped', moved => moved',
         ~overlapped' /\ ~moved' => Vacant(z)
  PROVE  BookNumbered' /\ PlacesFree' /\ NoDuplicates'
<1>6. ASSUME ~overlapped', ~moved' PROVE \A x \in Range(calls'): Vacant(x)'
  <2>1. ASSUME NEW x \in Range(calls') PROVE Vacant(x)
    <3>1. CASE x = z
      BY <1>6, <3>1
    <3>2. CASE Waited(x)
      BY <1>6, <3>2 DEF BookInv, PlacesFree, Waited, Vacant
    <3> QED
      BY <3>1, <3>2
  <2> QED
    BY <2>1 DEF Vacant, ContactsAt
<1>7. NoDuplicates' /\ BookNumbered'
  BY DEF BookInv, NoDuplicates, BookNumbered
<1> QED
  BY <1>6, <1>7 DEF PlacesFree

(* So a step that puts nothing into the book keeps the invariant. *)
LEMMA BookKept ==
  ASSUME BookInv, BookTyped', Ordered(calls'), NEW z \in CallSet,
         \A x \in Range(calls'): x = z \/ Waited(x),
         book' \subseteq book, lastId' = lastId, contacts' \subseteq contacts \union book,
         Calls(calls') \/ UNCHANGED <<calls, overlapped>>, moved => moved', FormKept,
         z.op \in DialogOps => opened' = opened /\ form' \in {form, NoForm} /\ MayFollow(z),
         ~overlapped' /\ ~moved' => Vacant(z)
  PROVE  BookInv'
<1>1. lastId' >= lastId
  BY DEF BookInv, BookTyped
<1>2. OfDialogs(calls)' /\ Numbered' /\ OneWriterWaits' /\ (overlapped => overlapped')
  BY <1>1, WritersKept
<1>3. BookNumbered' /\ PlacesFree' /\ NoDuplicates'
  BY <1>2, PlacesKept
<1> QED
  BY <1>2, <1>3 DEF BookInv

(* The contact of a form is saved: the other calls of its dialog write to other places. *)
LEMMA SavedContact ==
  ASSUME BookInv, BookTyped', Ordered(calls'), SaveNew \/ SaveEdited
  PROVE  BookInv'
<1> DEFINE h == Head(calls)
           f == h.what
           z == Call("list", f.visit, Nothing)
<1>1. /\ calls # <<>> /\ h \in CallSet /\ h \in Range(calls) /\ h.op \in {"insert", "update"}
      /\ h.by \in Nat \ {0} /\ f \in FormSet /\ Range(Tail(calls)) \subseteq Range(calls)
      /\ Tail(calls) \in Seq(CallSet) /\ Range(calls) \subseteq CallSet
  BY FirstCall, CallKinds, QueueOfCalls DEF SaveNew, SaveEdited, BookInv, BookTyped, DialogOps
<1>2. z \in CallSet /\ z.op = "list"
  BY <1>1, CallsMade DEF FormSet, Call
<1>3. Saved(f) /\ moved' = moved /\ form' \in {form, NoForm} /\ UNCHANGED <<opened, contacts>>
  BY DEF SaveNew, SaveEdited, Saved
<1>4. Calls(calls') /\ calls' = Append(Tail(calls), z)
  BY <1>1, <1>2, <1>3, QueueOfCalls DEF Saved, Served, Calls
<1> HIDE DEF z
<1>5. \A x \in Range(calls'): x = z \/ x \in Range(Tail(calls))
  <2>1. Range(Append(Tail(calls), z)) = Range(Tail(calls)) \union {z}
    BY <1>1, <1>2, QueueOfCalls
  <2> QED
    BY <1>4, <2>1
<1>6. \A x \in Range(calls'): x = z \/ Waited(x)
  BY <1>1, <1>5 DEF Waited
<1>7. lastId' >= lastId /\ opened' \in Nat
  BY DEF SaveNew, SaveEdited, Insert, BookInv, BookTyped
<1>8. FormKept
  BY <1>3, <1>7 DEF FormKept
<1>9. OfDialogs(calls)' /\ Numbered' /\ OneWriterWaits' /\ (overlapped => overlapped')
  BY <1>2, <1>3, <1>4, <1>6, <1>7, <1>8, WritersKept DEF DialogOps
(* Of the writers that wait, all are of this dialog. *)
<1>10. ASSUME ~overlapped', NEW x \in Range(Tail(calls)),
              x.op \in {"insert", "update", "count", "auto"}
       PROVE  x.op = "update" /\ h.op = "update" /\ x.what.edits = f.edits
  <2>1. x \in CallSet /\ x \in Range(calls) /\ x.op \in Writers /\ h.op \in Writers
    BY <1>1, <1>10 DEF Writers
  <2>2. x.by = h.by
    BY <1>1, <1>9, <1>10, <2>1 DEF BookInv, OneWriterWaits
  <2>3. x.op \in DialogOps
    BY <1>1, <1>10, <2>1, <2>2, CallKinds DEF AutoOps, DialogOps
  <2>4. x.what.edits = f.edits
    BY <1>1, <2>1, <2>2, <2>3 DEF BookInv, OfDialogs, DialogOps
  <2>5. h.op = "insert" => x.op # "insert"
    BY <1>1, <1>10, <2>2, ServedOrder DEF BookInv, BookTyped
  <2>6. /\ x.op = "insert" => x.what.edits = Nothing
        /\ x.op = "update" => x.what.edits # Nothing
        /\ h.op = "insert" => f.edits = Nothing
        /\ h.op = "update" => f.edits # Nothing
    BY <1>1, <2>1, <2>3 DEF BookInv, OfDialogs, DialogOps
  <2> QED
    BY <1>1, <1>10, <2>3, <2>4, <2>5, <2>6 DEF DialogOps
<1>11. ~overlapped' /\ ~moved' => \A x \in Range(calls): Vacant(x)
  BY <1>3, <1>9 DEF BookInv, PlacesFree
<1> HIDE DEF h
<1>12. CASE SaveNew
  <2> DEFINE new == Contact(lastId', f.network, f.address, f.memo)
  <2>1. h.op = "insert" /\ lastId' = lastId + 1 /\ book' = book \union {new}
    BY <1>12 DEF SaveNew, Insert, Serves, h
  <2>2. new.id = lastId + 1 /\ new.network = f.network /\ new.address = f.address
    BY <2>1 DEF Contact
  <2> HIDE DEF new
  <2>3. \A c \in book: c.id \in Nat /\ c.id <= lastId
    BY DEF BookInv, BookTyped, BookNumbered, ContactSet
  <2>4. BookNumbered'
    BY <2>1, <2>2, <2>3 DEF BookInv, BookTyped, BookNumbered
  <2>5. ASSUME ~overlapped', ~moved'
        PROVE  \A c, d \in book': c.network = d.network /\ c.address = d.address => c = d
    <3>1. ContactsAt(f.network, f.address) = {}
      BY <1>1, <1>11, <2>1, <2>5 DEF Vacant
    <3>2. \A c \in book: ~(c.network = new.network /\ c.address = new.address)
      BY <2>2, <3>1 DEF ContactsAt
    <3>3. \A c, d \in book: c.network = d.network /\ c.address = d.address => c = d
      BY <1>3, <1>9, <2>5 DEF BookInv, NoDuplicates
    <3> QED
      BY <2>1, <3>2, <3>3
  <2>6. PlacesFree'
    BY <1>2, <1>5, <1>10, <2>1 DEF PlacesFree, Vacant
  <2> QED
    BY <1>9, <2>4, <2>5, <2>6 DEF BookInv, NoDuplicates
<1>13. CASE SaveEdited
  <2> DEFINE id == f.edits.id
             Moved(b) == IF b.id = id THEN Contact(b.id, f.network, f.address, f.memo) ELSE b
  <2>1. h.op = "update" /\ lastId' = lastId /\ book' = {Moved(b): b \in book}
    BY <1>13 DEF SaveEdited, Serves, Updated, h
  <2>2. \A b \in book: /\ Moved(b).id = b.id
                       /\ b.id = id => Moved(b).network = f.network /\ Moved(b).address = f.address
                       /\ b.id # id => Moved(b) = b
    BY DEF Contact
  <2> HIDE DEF Moved, id
  <2>3. BookNumbered'
    BY <2>1, <2>2 DEF BookInv, BookNumbered
  <2>4. \A b, c \in book: b.id = c.id => b = c
    BY DEF BookInv, BookNumbered
  <2>5. ASSUME ~overlapped', ~moved', NEW b \in book, b.id = id,
               NEW d \in book, d.network = f.network, d.address = f.address
        PROVE  d.id = id
    <3>1. d \in ContactsAt(f.network, f.address)
      BY <2>5 DEF ContactsAt
    <3> QED
      BY <1>1, <1>11, <2>1, <2>5, <3>1 DEF Vacant, id
  <2>6. ASSUME ~overlapped', ~moved'
        PROVE  \A c, d \in book': c.network = d.network /\ c.address = d.address => c = d
    <3>1. \A c, d \in book: c.network = d.network /\ c.address = d.address => c = d
      BY <1>3, <1>9, <2>6 DEF BookInv, NoDuplicates
    <3> QED
      BY <2>1, <2>2, <2>4, <2>5, <2>6, <3>1
  <2>7. ASSUME ~overlapped', ~moved', NEW x \in Range(calls') PROVE Vacant(x)'
    <3>1. CASE x \in Range(Tail(calls)) /\ x.op = "update"
      <4>1. x.what.edits.id = id /\ Vacant(x)
        BY <1>1, <1>10, <1>11, <2>7, <3>1 DEF id
      <4>2. ASSUME NEW c \in book', NEW d \in book', c.id = id,
                   d.network = x.what.network, d.address = x.what.address
            PROVE  c = d
        <5>1. PICK b \in book: c = Moved(b) /\ b.id = id
          BY <2>1, <2>2, <4>2
        <5>2. PICK e \in book: d = Moved(e)
          BY <2>1
        <5>3. ASSUME e.id # id PROVE FALSE
          <6>1. e \in ContactsAt(x.what.network, x.what.address)
            BY <2>2, <4>2, <5>2, <5>3 DEF ContactsAt
          <6> QED
            BY <3>1, <4>1, <5>1, <5>3, <6>1 DEF Vacant
        <5> QED
          BY <2>4, <5>1, <5>2, <5>3
      <4> QED
        BY <3>1, <4>1, <4>2 DEF Vacant, ContactsAt
    <3>2. CASE x = z
      BY <1>2, <3>2 DEF Vacant
    <3>3. CASE x \in Range(Tail(calls)) /\ x.op # "update"
      BY <1>10, <2>7, <3>3 DEF Vacant
    <3> QED
      BY <1>5, <3>1, <3>2, <3>3
  <2> QED
    BY <1>9, <2>3, <2>6, <2>7 DEF BookInv, NoDuplicates, PlacesFree
<1> QED
  BY <1>12, <1>13

(* The contact of a payment is saved: no other writer waits. *)
LEMMA AddedContact ==
  ASSUME BookInv, BookTyped', Ordered(calls'), AutoAdd
  PROVE  BookInv'
<1> DEFINE h == Head(calls)
           z == Call("list", 1, Nothing)
           new == Contact(lastId', Asset, h.what.address, h.what.memo)
<1>1. /\ calls # <<>> /\ h \in CallSet /\ h \in Range(calls) /\ h.op = "auto" /\ h.by = 0
      /\ Range(Tail(calls)) \subseteq Range(calls) /\ Tail(calls) \in Seq(CallSet)
  BY FirstCall, CallKinds DEF AutoAdd, BookInv, AutoOps
<1>2. z \in CallSet /\ z.op = "list"
  BY CallsMade DEF Call
<1>3. Calls(calls') /\ calls' = Tail(calls)
  BY <1>1, QueueOfCalls DEF AutoAdd, Served, Calls
<1>4. \A x \in Range(calls'): x \in Range(calls) /\ Waited(x)
  BY <1>1, <1>3 DEF Waited
<1>5. UNCHANGED <<opened, form, contacts, moved>> /\ lastId' = lastId + 1 /\ book' = book \union {new}
  BY DEF AutoAdd, Insert, views
<1>6. FormKept /\ lastId' >= lastId
  BY <1>5 DEF FormKept, BookInv, BookTyped
<1>7. OfDialogs(calls)' /\ Numbered' /\ OneWriterWaits' /\ (overlapped => overlapped')
  BY <1>2, <1>3, <1>4, <1>5, <1>6, WritersKept DEF DialogOps
<1>8. ASSUME ~overlapped', NEW x \in Range(calls')
      PROVE  x.op \notin {"insert", "update", "count", "auto"}
  <2>1. x.by # 0
    BY <1>1, <1>3, ServedOrder DEF BookInv, BookTyped
  <2> QED
    BY <1>1, <1>4, <1>7, <1>8, <2>1 DEF BookInv, OneWriterWaits, Writers
<1>9. new.id = lastId + 1 /\ new.network = Asset /\ new.address = h.what.address
  BY <1>5 DEF Contact
<1> HIDE DEF new
<1>10. BookNumbered'
  <2>1. \A c \in book: c.id \in Nat /\ c.id <= lastId
    BY DEF BookInv, BookTyped, BookNumbered, ContactSet
  <2> QED
    BY <1>5, <1>9, <2>1 DEF BookInv, BookTyped, BookNumbered
<1>11. ASSUME ~overlapped', ~moved'
       PROVE  \A c, d \in book': c.network = d.network /\ c.address = d.address => c = d
  <2>1. ContactsAt(Asset, h.what.address) = {}
    BY <1>1, <1>5, <1>7, <1>11 DEF BookInv, PlacesFree, Vacant
  <2>2. \A c \in book: ~(c.network = new.network /\ c.address = new.address)
    BY <1>9, <2>1 DEF ContactsAt
  <2>3. \A c, d \in book: c.network = d.network /\ c.address = d.address => c = d
    BY <1>5, <1>7, <1>11 DEF BookInv, NoDuplicates
  <2> QED
    BY <1>5, <2>2, <2>3
<1>12. PlacesFree'
  BY <1>8 DEF PlacesFree, Vacant
<1> QED
  BY <1>7, <1>10, <1>11, <1>12 DEF BookInv, NoDuplicates

(* BookInv is inductive: what remains are the steps that put nothing into the book. *)
LEMMA BookStepInv ==
  ASSUME BookInv, BookNext
  PROVE  BookInv'
<1>1. BookTyped' /\ Ordered(calls')
  BY DatabaseTyped, UserTyped, OrderStep DEF BookInv, BookNext
<1>2. BookTyped /\ calls \in Seq(CallSet) /\ Range(calls) \subseteq CallSet /\ opened \in Nat
  BY QueueOfCalls DEF BookInv, BookTyped
<1> DEFINE none == Call("list", 1, Nothing)
<1>3. /\ none \in CallSet /\ Vacant(none)
      /\ none.op \notin DialogOps
  BY CallsMade DEF Call, DialogOps, Vacant
<1> HIDE DEF none
(* What the calls become. *)
<1>a. \A x \in Range(calls): Waited(x)
  BY DEF Waited
<1>b. ASSUME NEW op, Serves(op)
      PROVE  /\ Head(calls) \in CallSet /\ Head(calls) \in Range(calls) /\ Head(calls).op = op
             /\ Served(<<>>) => Calls(calls') /\ \A x \in Range(calls'): Waited(x)
             /\ \A z \in CallSet: Served(<<z>>) =>
                  Calls(calls') /\ \A x \in Range(calls'): x = z \/ Waited(x)
  <2>1. /\ calls # <<>> /\ Head(calls) \in CallSet /\ Head(calls) \in Range(calls) /\ Head(calls).op = op
        /\ Tail(calls) \in Seq(CallSet) /\ Range(Tail(calls)) \subseteq Range(calls)
    BY <1>2, <1>b, FirstCall
  <2>2. ASSUME Served(<<>>) PROVE Calls(calls') /\ \A x \in Range(calls'): Waited(x)
    BY <1>a, <2>1, <2>2, QueueOfCalls DEF Served, Calls
  <2>3. ASSUME NEW z \in CallSet, Served(<<z>>)
        PROVE  Calls(calls') /\ \A x \in Range(calls'): x = z \/ Waited(x)
    <3>1. Calls(calls') /\ calls' = Append(Tail(calls), z)
      BY <2>1, <2>3, QueueOfCalls DEF Served, Calls
    <3>2. Range(Append(Tail(calls), z)) = Range(Tail(calls)) \union {z}
      BY <2>1, QueueOfCalls
    <3> QED
      BY <1>a, <2>1, <3>1, <3>2
  <2> QED
    BY <2>1, <2>2, <2>3
<1>c. ASSUME NEW z \in CallSet, Ask(z)
      PROVE  Calls(calls') /\ \A x \in Range(calls'): x = z \/ Waited(x)
  BY <1>a, <1>2, <1>c, QueueOfCalls DEF Ask, Calls
(* A step with no call, or with one of the page. *)
<1>d. ASSUME book' \subseteq book, lastId' = lastId, contacts' \subseteq contacts \union book,
             moved' = moved, FormKept, NEW z \in CallSet, z.op \notin DialogOps,
             Vacant(z), Calls(calls') \/ UNCHANGED <<calls, overlapped>>,
             \A x \in Range(calls'): x = z \/ Waited(x)
      PROVE  BookInv'
  BY <1>1, <1>d, BookKept
<1>e. \A z \in CallSet: z.op \in {"list", "remove", "lookup", "find"} => z.op \notin DialogOps /\ Vacant(z)
  BY DEF DialogOps, Vacant
<1>f. opened' = opened /\ form' \in {form, NoForm} => FormKept
  BY <1>2 DEF FormKept
<1>4. CASE Fetched
  <2>1. Calls(calls') /\ \A x \in Range(calls'): Waited(x)
    BY <1>4, <1>b DEF Fetched
  <2>2. /\ UNCHANGED <<kept, opened, form, moved>> /\ contacts' \subseteq contacts \union book
    BY <1>4 DEF Fetched
  <2> QED
    BY <1>3, <1>d, <1>f, <2>1, <2>2 DEF kept
<1>5. CASE Checked
  <2> DEFINE c == Head(calls)
             z == [Write(c.what) EXCEPT !.by = c.by]
  <2>1. UNCHANGED <<book, lastId, contacts, opened, form, moved>>
    BY <1>5 DEF Checked, kept, views
  <2>2. CASE Served(<<>>)
    <3>1. Calls(calls') /\ \A x \in Range(calls'): Waited(x)
      BY <1>5, <1>b, <2>2 DEF Checked
    <3> QED
      BY <1>3, <1>d, <1>f, <2>1, <3>1
  <2>3. CASE Served(<<z>>) /\ ContactsAt(c.what.network, c.what.address) = {}
    <3>1. /\ c \in CallSet /\ c \in Range(calls) /\ c.op = "check"
          /\ c.what \in FormSet /\ c.by \in Nat \ {0}
      BY <1>5, <1>b, CallKinds DEF Checked, DialogOps
    <3>2. z = Call(IF c.what.edits = Nothing THEN "insert" ELSE "update", c.by, c.what)
      BY DEF Write, Call
    <3>3. /\ z \in CallSet /\ z.by = c.by /\ z.what = c.what
          /\ z.op = IF c.what.edits = Nothing THEN "insert" ELSE "update"
      BY <3>1, <3>2, CallsMade DEF DialogOps, Call
    <3>4. Calls(calls') /\ \A x \in Range(calls'): x = z \/ Waited(x)
      BY <1>5, <1>b, <2>3, <3>3 DEF Checked
    <3> HIDE DEF z
    <3>5. MayFollow(z)
      BY <3>1, <3>3 DEF MayFollow, BookInv, OfDialogs, Numbered, DialogOps
    <3>6. Vacant(z)
      BY <2>3, <3>3 DEF Vacant
    <3> HIDE DEF c
    <3> QED
      BY <1>1, <1>f, <2>1, <3>3, <3>4, <3>5, <3>6, BookKept
  <2> QED
    BY <1>5, <2>2, <2>3 DEF Checked
<1>6. CASE CheckLost
  <2>1. Calls(calls') /\ \A x \in Range(calls'): Waited(x)
    BY <1>6, <1>b DEF CheckLost
  <2>2. UNCHANGED <<book, lastId, contacts, opened, form, moved>>
    BY <1>6 DEF CheckLost, kept, views
  <2> QED
    BY <1>3, <1>d, <1>f, <2>1, <2>2
<1>7. CASE SaveNew \/ SaveEdited
  BY <1>1, <1>7, SavedContact
<1>8. CASE Removed
  <2> DEFINE z == Call("list", Head(calls).by, Nothing)
  <2>1. z \in CallSet /\ z.op = "list"
    BY <1>8, <1>b, CallKinds, CallsMade DEF Removed, Call
  <2>2. Calls(calls') /\ \A x \in Range(calls'): x = z \/ Waited(x)
    BY <1>8, <1>b, <2>1 DEF Removed
  <2>3. UNCHANGED <<lastId, contacts, opened, form, moved>> /\ book' \subseteq book
    BY <1>8 DEF Removed, Without, views
  <2> HIDE DEF z
  <2> QED
    BY <1>d, <1>e, <1>f, <2>1, <2>2, <2>3
<1>9. CASE LookedUp
  <2>1. Calls(calls') /\ \A x \in Range(calls'): Waited(x)
    BY <1>9, <1>b DEF LookedUp
  <2>2. UNCHANGED <<book, lastId, contacts, opened, form, moved>>
    BY <1>9 DEF LookedUp, Sending
  <2> QED
    BY <1>3, <1>d, <1>f, <2>1, <2>2
<1>10. CASE Find
  <2> DEFINE h == Head(calls)
             z == [h EXCEPT !.op = "count"]
  <2>1. UNCHANGED <<book, lastId, contacts, opened, form, moved>>
    BY <1>10 DEF Find, kept, views
  <2>2. CASE Served(<<>>)
    <3>1. Calls(calls') /\ \A x \in Range(calls'): Waited(x)
      BY <1>10, <1>b, <2>2 DEF Find
    <3> QED
      BY <1>3, <1>d, <1>f, <2>1, <3>1
  <2>3. CASE Served(<<z>>) /\ ContactsAt(Asset, h.what.address) = {}
    <3>1. h \in CallSet /\ h.by = 0 /\ h.what \in PaymentSet
      BY <1>10, <1>b, CallKinds DEF Find, AutoOps
    <3>2. z = Call("count", 0, h.what)
      BY <3>1, CallKinds DEF Call
    <3>3. z \in CallSet /\ z.op = "count" /\ z.what = h.what
      BY <3>1, <3>2, CallsMade DEF AutoOps, Call
    <3>4. Calls(calls') /\ \A x \in Range(calls'): x = z \/ Waited(x)
      BY <1>10, <1>b, <2>3, <3>3 DEF Find
    <3> HIDE DEF z
    <3>5. Vacant(z) /\ z.op \notin DialogOps
      BY <2>3, <3>3 DEF Vacant, DialogOps
    <3> QED
      BY <1>d, <1>f, <2>1, <3>3, <3>4, <3>5
  <2> QED
    BY <1>10, <2>2, <2>3 DEF Find
<1>11. CASE Count
  <2> DEFINE h == Head(calls)
             z == [h EXCEPT !.op = "auto"]
  <2>1. UNCHANGED <<book, lastId, contacts, opened, form, moved>>
    BY <1>11 DEF Count, kept, views
  <2>2. h \in CallSet /\ h \in Range(calls) /\ h.op = "count" /\ h.by = 0 /\ h.what \in PaymentSet
    BY <1>11, <1>b, CallKinds DEF Count, AutoOps
  <2>3. z = Call("auto", 0, h.what)
    BY <2>2, CallKinds DEF Call
  <2>4. z \in CallSet /\ z.op = "auto" /\ z.what = h.what /\ z.op \notin DialogOps
    BY <2>2, <2>3, CallsMade DEF AutoOps, Call, DialogOps
  <2>5. Calls(calls') /\ \A x \in Range(calls'): x = z \/ Waited(x)
    BY <1>11, <1>b, <2>4 DEF Count
  <2> HIDE DEF z
  <2>6. overlapped => overlapped'
    BY <2>5, <1>1, <1>2, OneWriter DEF BookTyped
  <2>7. ~overlapped' /\ ~moved' => Vacant(z)
    BY <2>1, <2>2, <2>4, <2>6 DEF BookInv, PlacesFree, Vacant
  <2> QED
    BY <1>1, <1>f, <2>1, <2>4, <2>5, <2>7, BookKept
<1>12. CASE AutoAdd
  BY <1>1, <1>12, AddedContact
<1>13. ASSUME NEW p \in {"book", "send"}, Open(p) PROVE BookInv'
  <2> DEFINE z == Call("list", visit + 1, Nothing)
  <2>1. z \in CallSet /\ z.op = "list"
    BY <1>2, CallsMade DEF Call, BookTyped
  <2>2. Calls(calls') /\ \A x \in Range(calls'): x = z \/ Waited(x)
    BY <1>13, <1>c, <2>1 DEF Open
  <2>3. UNCHANGED <<book, lastId, opened, form, moved>> /\ contacts' = {}
    BY <1>13 DEF Open
  <2> HIDE DEF z
  <2> QED
    BY <1>d, <1>e, <1>f, <2>1, <2>2, <2>3
<1>14. ASSUME NEW c \in contacts \union {Nothing}, OpenContact(c) PROVE BookInv'
  <2>1. /\ opened' = opened + 1 /\ form'.edits = c
        /\ UNCHANGED <<kept, calls, contacts, overlapped, moved>>
    BY <1>14 DEF OpenContact
  <2>2. FormKept
    BY <1>2, <2>1 DEF FormKept
  <2> QED
    BY <1>3, <1>a, <1>d, <2>1, <2>2 DEF kept
<1>15. ASSUME NEW c \in contacts \union {Nothing}, AskRemove(c) PROVE BookInv'
  <2>1. UNCHANGED <<book, lastId, calls, contacts, opened, form, overlapped, moved>>
    BY <1>15 DEF AskRemove, kept
  <2> QED
    BY <1>3, <1>a, <1>d, <1>f, <2>1
<1>16. ASSUME NEW n \in Networks, NEW a \in Addresses, FillIn(n, a) PROVE BookInv'
  <2>1. form # NoForm /\ form \in FormSet /\ opened \in Nat \ {0}
    BY <1>16, <1>2 DEF FillIn, BookTyped
  <2>2. UNCHANGED <<book, lastId, contacts, opened, moved>> /\ form'.edits = form.edits
    BY <1>16, <2>1 DEF FillIn, Changed, kept, FormSet
  <2>3. Calls(calls') /\ \A x \in Range(calls'): Waited(x)
    BY <1>2, <1>16, <2>1, LostOrder DEF FillIn, Changed, Calls, Waited
  <2>4. FormKept
    BY <1>2, <2>1, <2>2 DEF FormKept
  <2> QED
    BY <1>3, <1>d, <2>2, <2>3, <2>4
<1>17. CASE SubmitContact
  <2> DEFINE z == IF Unchecked(form) THEN Write(form) ELSE Call("check", opened, form)
  <2>1. form # NoForm /\ form \in FormSet /\ opened \in Nat \ {0}
    BY <1>17, <1>2 DEF SubmitContact, BookTyped
  <2>2. UNCHANGED <<book, lastId, contacts, opened, form>>
    BY <1>17 DEF SubmitContact, kept, views
  <2>3. /\ z \in CallSet /\ z.by = opened /\ z.what = form /\ z.op \in {"check", "update"}
        /\ z.op = "update" => Unchecked(form)
    BY <2>1, CallsMade DEF Write, DialogOps, Unchecked, Call
  <2>4. Calls(calls') /\ calls' = Append(Lost(opened), z)
    BY <1>17 DEF SubmitContact, Calls
  <2> HIDE DEF z
  <2>5. \A x \in Range(calls'): x = z \/ Waited(x)
    <3>1. Lost(opened) \in Seq(CallSet) /\ \A x \in Range(Lost(opened)): Waited(x)
      BY <1>2, <2>1, QueueWithLost, LostOrder DEF Waited
    <3> QED
      BY <2>3, <2>4, <3>1, QueueOfCalls
  <2>6. MayFollow(z)
    BY <1>2, <2>1, <2>3 DEF MayFollow, BookInv, OfDialogs, Numbered, DialogOps, Unchecked
  <2>7. moved => moved'
    BY <1>17 DEF SubmitContact
  <2>8. overlapped => overlapped'
    BY <2>4, <1>1, <1>2, OneWriter DEF BookTyped
  <2>9. ASSUME ~overlapped', ~moved' PROVE Vacant(z)
    <3>1. Unchecked(form) => InItsPlace(form)
      BY <1>17, <2>9 DEF SubmitContact
    <3>2. \A c, d \in book: c.network = d.network /\ c.address = d.address => c = d
      BY <2>7, <2>8, <2>9 DEF BookInv, NoDuplicates
    <3> QED
      BY <2>3, <3>1, <3>2 DEF Vacant, InItsPlace, ContactsAt
  <2> QED
    BY <1>1, <1>f, <2>2, <2>3, <2>4, <2>5, <2>6, <2>7, <2>9, BookKept
<1>18. CASE CloseDialog
  <2> DEFINE z == Call("list", visit, Nothing)
  <2>1. z \in CallSet /\ z.op = "list"
    BY <1>2, <1>18, CallsMade DEF CloseDialog, Call, BookTyped
  <2>2. Calls(calls') /\ \A x \in Range(calls'): x = z \/ Waited(x)
    BY <1>18, <1>c, <2>1 DEF CloseDialog
  <2>3. UNCHANGED <<book, lastId, contacts, opened, moved>> /\ form' = NoForm
    BY <1>18 DEF CloseDialog, kept
  <2> HIDE DEF z
  <2> QED
    BY <1>d, <1>e, <1>f, <2>1, <2>2, <2>3
<1>19. CASE Remove
  <2> DEFINE z == Call("remove", visit, removing)
  <2>1. z \in CallSet /\ z.op = "remove"
    BY <1>2, <1>19, CallsMade DEF Remove, Call, BookTyped
  <2>2. /\ Calls(calls') \/ UNCHANGED <<calls, overlapped>>
        /\ \A x \in Range(calls'): x = z \/ Waited(x)
    BY <1>19, <1>a, <1>c, <2>1 DEF Remove
  <2>3. UNCHANGED <<book, lastId, contacts, opened, form, moved>>
    BY <1>19 DEF Remove, kept
  <2> HIDE DEF z
  <2> QED
    BY <1>d, <1>e, <1>f, <2>1, <2>2, <2>3
<1>20. ASSUME NEW a \in AnyAddress, place = "send", LookUp(a), UNCHANGED Sending PROVE BookInv'
  <2> DEFINE z == Call("lookup", visit, a)
  <2>1. z \in CallSet /\ z.op = "lookup"
    BY <1>2, <1>20, CallsMade DEF Call, BookTyped
  <2>2. Calls(calls') /\ \A x \in Range(calls'): x = z \/ Waited(x)
    BY <1>20, <1>c, <2>1 DEF LookUp
  <2> HIDE DEF z
  <2> QED
    BY <1>20, <1>d, <1>e, <1>f, <2>1, <2>2 DEF Sending
<1>21. ASSUME NEW a \in Addresses, TypeAddress(a) PROVE BookInv'
  BY <1>20, <1>21 DEF TypeAddress, AnyAddress
<1>22. ASSUME NEW c \in contacts, SelectContact(c) PROVE BookInv'
  BY <1>2, <1>20, <1>22 DEF SelectContact, BookTyped, ContactSet
<1>23. ASSUME UNCHANGED <<Sending, calls, overlapped>> PROVE BookInv'
  BY <1>3, <1>23, <1>a, <1>d, <1>f DEF Sending
<1>24. ASSUME NEW m \in Memos, TypeMemo(m) PROVE BookInv'
  BY <1>23, <1>24 DEF TypeMemo
<1>25. CASE ClearContact
  BY <1>23, <1>25 DEF ClearContact
<1>26. CASE Pay
  <2> DEFINE z == Call("find", 0, payment)
  <2>1. z \in CallSet /\ z.op = "find"
    BY <1>2, CallsMade DEF Call, BookTyped, AutoOps
  <2>2. /\ Calls(calls') \/ UNCHANGED <<calls, overlapped>>
        /\ \A x \in Range(calls'): x = z \/ Waited(x)
    BY <1>26, <1>a, <1>c, <2>1 DEF Pay
  <2> HIDE DEF z
  <2> QED
    BY <1>26, <1>d, <1>e, <1>f, <2>1, <2>2 DEF Pay, Sending
<1> QED
  BY <1>4, <1>5, <1>6, <1>7, <1>8, <1>9, <1>10, <1>11, <1>12, <1>13, <1>14, <1>15, <1>16, <1>17,
     <1>18, <1>19, <1>21, <1>22, <1>24, <1>25, <1>26 DEF BookNext, DatabaseStep, BookStep

(* The payment is what the field shows. *)
Matches ==
  /\ payment.address = field.value
  /\ field.contact # Nothing =>
       /\ field.contact.address = field.value
       /\ payment.own \/ payment.memo = field.contact.memo

(* On the sending page the last look-up is of the address shown; without one the payment
   is what the field shows. *)
FieldInv ==
  /\ \A x \in Range(calls): x.op = "lookup" => x.by <= visit
  /\ place = "send" /\ ~outdated =>
       LooksUpTheLast(calls) /\ ((\E x \in Range(calls): LooksUp(x)) \/ Matches)

(* Steps that do not touch the field and serve or make other calls. *)
LEMMA FieldKept ==
  ASSUME FieldInv, UNCHANGED <<place, visit, field, payment, outdated>>,
         LooksUpTheLast(calls) => LooksUpTheLast(calls'),
         \A x \in Range(calls): LooksUp(x) => \E y \in Range(calls'): LooksUp(y),
         \A x \in Range(calls'): x.op = "lookup" => \E y \in Range(calls): y.op = "lookup" /\ x.by = y.by
  PROVE  FieldInv'
<1>1. (\A x \in Range(calls): x.op = "lookup" => x.by <= visit)'
  BY DEF FieldInv
<1>2. ASSUME LooksUpTheLast(calls') PROVE LooksUpTheLast(calls)'
  BY <1>2 DEF LooksUpTheLast, LooksUp
<1>3. ASSUME \E y \in Range(calls'): LooksUp(y) PROVE (\E y \in Range(calls): LooksUp(y))'
  BY <1>3 DEF LooksUp
<1> QED
  BY <1>1, <1>2, <1>3 DEF FieldInv, Matches

(* The calls are those that wait and the first one. *)
LEMMA FirstAndOthers ==
  ASSUME NEW q \in Seq(CallSet), q # <<>>
  PROVE  \A x \in Range(q): x = Head(q) \/ x \in Range(Tail(q))
<1>1. /\ Len(q) \in Nat /\ Len(q) > 0 /\ Len(Tail(q)) = Len(q) - 1 /\ Head(q) = q[1]
      /\ Tail(q) \in Seq(CallSet) /\ \A i \in 1 .. Len(Tail(q)): Tail(q)[i] = q[i + 1]
  BY QueueOfCalls
<1>2. ASSUME NEW i \in DOMAIN q, i # 1 PROVE q[i] \in Range(Tail(q))
  <2>1. i - 1 \in 1 .. Len(Tail(q)) /\ i - 1 \in DOMAIN Tail(q) /\ (i - 1) + 1 = i
    BY <1>1, <1>2
  <2>2. Tail(q)[i - 1] = q[i]
    BY <1>1, <2>1
  <2> QED
    BY <2>1, <2>2 DEF Range
<1> QED
  BY <1>1, <1>2 DEF Range

(* A step that changes the address shown asks for it. *)
LEMMA FieldAsks ==
  ASSUME BookTyped, FieldInv, NEW a \in AnyAddress, place = "send", LookUp(a),
         field'.value = a, UNCHANGED <<place, visit>>
  PROVE  FieldInv'
<1> DEFINE z == Call("lookup", visit, a)
<1>1. z \in CallSet /\ z.op = "lookup" /\ z.by = visit /\ z.what = a
  BY CallsMade DEF Call, BookTyped
<1>2. calls' = Append(calls, z) /\ calls \in Seq(CallSet)
  BY DEF LookUp, Ask, Calls, BookTyped
<1> HIDE DEF z
<1>3. Range(calls') = Range(calls) \union {z}
  BY <1>1, <1>2, QueueOfCalls
<1>4. LooksUpTheLast(calls)'
  <2>1. PICK k \in DOMAIN calls': calls'[k] = z /\ \A i \in DOMAIN calls': i <= k /\ i \in Nat
    <3>1. /\ DOMAIN calls' = 1 .. Len(calls) + 1 /\ Len(calls) \in Nat
          /\ calls'[Len(calls) + 1] = z
      BY <1>1, <1>2
    <3> QED
      BY <3>1
  <2>2. ASSUME NEW i \in DOMAIN calls',
               \A j \in DOMAIN calls': calls'[j].op = "lookup" /\ calls'[j].by = visit' => j <= i
        PROVE  calls'[i] = z
    <3>1. k <= i /\ i <= k /\ i \in Nat /\ k \in Nat
      BY <1>1, <2>1, <2>2
    <3>2. i = k
      BY <3>1
    <3> QED
      BY <2>1, <3>2
  <2> QED
    BY <1>1, <2>2 DEF LooksUpTheLast, LooksUp
<1>5. (\E x \in Range(calls): LooksUp(x))'
  BY <1>1, <1>3 DEF LooksUp
<1>6. (\A x \in Range(calls): x.op = "lookup" => x.by <= visit)'
  BY <1>1, <1>3 DEF FieldInv, BookTyped
<1> QED
  BY <1>4, <1>5, <1>6 DEF FieldInv

(* A call that is no look-up of the field is served, and may make another one. *)
LEMMA FieldServed ==
  ASSUME BookTyped, FieldInv, NEW op, op # "lookup", Serves(op),
         UNCHANGED <<place, visit, field, payment, outdated>>,
         Served(<<>>) \/ \E z \in CallSet: z.op # "lookup" /\ Served(<<z>>)
  PROVE  FieldInv'
<1>1. /\ calls \in Seq(CallSet) /\ calls # <<>> /\ Head(calls).op # "lookup"
      /\ Tail(calls) \in Seq(CallSet) /\ Range(Tail(calls)) \subseteq Range(calls)
  BY FirstCall DEF BookTyped
<1>2. LooksUpTheLast(calls) => LooksUpTheLast(Tail(calls))
  BY <1>1, ServedOrder
<1>3. \A x \in Range(calls): LooksUp(x) => x \in Range(Tail(calls))
  BY <1>1, FirstAndOthers DEF LooksUp
<1>4. CASE Served(<<>>)
  <2>1. calls' = Tail(calls)
    BY <1>1, <1>4, QueueOfCalls DEF Served, Calls
  <2> QED
    BY <1>1, <1>2, <1>3, <2>1, FieldKept
<1>5. ASSUME NEW z \in CallSet, z.op # "lookup", Served(<<z>>) PROVE FieldInv'
  <2>1. calls' = Append(Tail(calls), z)
    BY <1>1, <1>5, QueueOfCalls DEF Served, Calls
  <2>2. Range(calls') = Range(Tail(calls)) \union {z}
    BY <1>1, <2>1, QueueOfCalls
  <2>3. LooksUpTheLast(calls) => LooksUpTheLast(calls')
    BY <1>1, <1>2, <1>5, <2>1, AskedOrder DEF LooksUp
  <2> QED
    BY <1>1, <1>3, <1>5, <2>2, <2>3, FieldKept
<1> QED
  BY <1>4, <1>5

(* A call that is no look-up of the field is made, and a check may be given up. *)
LEMMA FieldAsked ==
  ASSUME BookTyped, FieldInv, NEW q \in Seq(CallSet),
         q = calls \/ (opened # 0 /\ q = Lost(opened)),
         UNCHANGED <<place, visit, field, payment, outdated>>,
         calls' = q \/ \E z \in CallSet: z.op # "lookup" /\ calls' = Append(q, z)
  PROVE  FieldInv'
<1>1. /\ LooksUpTheLast(calls) => LooksUpTheLast(q)
      /\ \A x \in Range(q): x.op = "lookup" => \E y \in Range(calls): y.op = "lookup" /\ x.by = y.by
      /\ \A x \in Range(calls): LooksUp(x) => \E y \in Range(q): LooksUp(y)
  <2>1. CASE q = calls
    BY <2>1
  <2>2. CASE opened # 0 /\ q = Lost(opened)
    <3>1. calls \in Seq(CallSet) /\ opened \in Nat \ {0}
      BY <2>2 DEF BookTyped
    <3>2. \A x \in Range(q): x.op = "lookup" => \E y \in Range(calls): y.op = "lookup" /\ x.by = y.by
      BY <2>2, <3>1, LostOrder
    <3>3. ASSUME NEW x \in Range(calls), LooksUp(x) PROVE \E y \in Range(q): LooksUp(y)
      <4>1. PICK i \in DOMAIN calls: x = calls[i]
        BY <3>3 DEF Range
      <4>2. i \in DOMAIN q /\ LooksUp(q[i])
        BY <2>2, <3>1, <3>3, <4>1, QueueWithLost DEF LooksUp
      <4> QED
        BY <4>2 DEF Range
    <3> QED
      BY <2>2, <3>1, <3>2, <3>3, LostOrder
  <2> QED
    BY <2>1, <2>2
<1>2. CASE calls' = q
  BY <1>1, <1>2, FieldKept
<1>3. ASSUME NEW z \in CallSet, z.op # "lookup", calls' = Append(q, z) PROVE FieldInv'
  <2>1. Range(calls') = Range(q) \union {z}
    BY <1>3, QueueOfCalls
  <2>2. LooksUpTheLast(calls) => LooksUpTheLast(calls')
    BY <1>1, <1>3, AskedOrder DEF LooksUp
  <2> QED
    BY <1>1, <1>3, <2>1, <2>2, FieldKept
<1> QED
  BY <1>2, <1>3

(* FieldInv is inductive. *)
LEMMA FieldStep ==
  ASSUME BookTyped, FieldInv, BookNext
  PROVE  FieldInv'
<1> DEFINE onlyCalls == UNCHANGED <<place, visit, field, payment, outdated>>
<1>1. /\ calls \in Seq(CallSet) /\ visit \in Nat /\ opened \in Nat
      /\ Range(calls) \subseteq CallSet
  BY QueueOfCalls DEF BookTyped
<1>2. CASE Fetched
  BY <1>2, FieldServed DEF Fetched, kept
<1>3. CASE Checked
  <2> DEFINE c == Head(calls)
             z == [Write(c.what) EXCEPT !.by = c.by]
  <2>1. c \in CallSet /\ c.op = "check"
    BY <1>3, FirstCall DEF Checked
  <2>2. z = Call(Write(c.what).op, c.by, c.what) /\ Write(c.what).op \in {"insert", "update"}
    BY DEF Write, Call
  <2>3. z \in CallSet /\ z.op # "lookup"
    BY <2>1, <2>2, CallsMade, CallKinds DEF DialogOps, Call
  <2>4. Served(<<>>) \/ Served(<<z>>)
    BY <1>3 DEF Checked
  <2>5. Serves("check") /\ onlyCalls
    BY <1>3 DEF Checked, kept, views
  <2> HIDE DEF z
  <2> QED
    BY <2>3, <2>4, <2>5, FieldServed
<1>4. CASE CheckLost
  BY <1>4, FieldServed DEF CheckLost, kept, views
<1>5. ASSUME NEW f \in FormSet, Saved(f), NEW op \in {"insert", "update"}, Serves(op), f.visit \in Nat \ {0}
      PROVE  FieldInv'
  <2> DEFINE z == Call("list", f.visit, Nothing)
  <2>1. z \in CallSet /\ z.op # "lookup"
    BY <1>5, CallsMade DEF Call
  <2>2. Served(<<z>>) /\ onlyCalls
    BY <1>5 DEF Saved
  <2> HIDE DEF z
  <2> QED
    BY <1>5, <2>1, <2>2, FieldServed
<1>6. ASSUME NEW op \in {"insert", "update"}, Serves(op)
      PROVE  Head(calls).what \in FormSet /\ Head(calls).what.visit \in Nat \ {0}
  BY <1>6, FirstCall, CallKinds DEF DialogOps, FormSet
<1>7. CASE SaveNew
  BY <1>5, <1>6, <1>7 DEF SaveNew
<1>8. CASE SaveEdited
  BY <1>5, <1>6, <1>8 DEF SaveEdited
<1>9. CASE Removed
  <2> DEFINE z == Call("list", Head(calls).by, Nothing)
  <2>1. z \in CallSet /\ z.op # "lookup"
    BY <1>9, FirstCall, CallKinds, CallsMade DEF Call, Removed
  <2>2. Serves("remove") /\ Served(<<z>>) /\ onlyCalls
    BY <1>9 DEF Removed, views
  <2> HIDE DEF z
  <2> QED
    BY <2>1, <2>2, FieldServed
<1>10. ASSUME NEW op \in {"find", "count"}, Serves(op), onlyCalls, NEW next \in {"count", "auto"},
              Served(<<>>) \/ Served(<<[Head(calls) EXCEPT !.op = next]>>)
       PROVE  FieldInv'
  <2> DEFINE z == [Head(calls) EXCEPT !.op = next]
  <2>1. Head(calls) \in CallSet /\ Head(calls).op = op
    BY <1>10, FirstCall
  <2>2. z = Call(next, 0, Head(calls).what) /\ Head(calls).what \in PaymentSet
    BY <1>10, <2>1, CallKinds DEF AutoOps, Call
  <2>3. z \in CallSet /\ z.op # "lookup"
    BY <1>10, <2>2, CallsMade DEF Call, AutoOps
  <2>4. Served(<<>>) \/ Served(<<z>>)
    BY <1>10
  <2> HIDE DEF z
  <2> QED
    BY <1>10, <2>3, <2>4, FieldServed
<1>11. CASE Find
  BY <1>10, <1>11 DEF Find, kept, views
<1>12. CASE Count
  BY <1>10, <1>12 DEF Count, kept, views
<1>13. CASE AutoAdd
  BY <1>13, FieldServed DEF AutoAdd, views
<1>14. CASE LookedUp
  <2> DEFINE h == Head(calls)
             t == Tail(calls)
  <2>1. /\ calls # <<>> /\ h \in CallSet /\ h.op = "lookup" /\ h \in Range(calls)
        /\ t \in Seq(CallSet) /\ Range(t) \subseteq Range(calls)
    BY <1>14, FirstCall DEF LookedUp
  <2>2. calls' = t /\ UNCHANGED <<place, visit, outdated>>
    BY <1>1, <1>14, <2>1, QueueOfCalls DEF LookedUp, Served, Calls, Sending
  <2>3. (\A x \in Range(calls): x.op = "lookup" => x.by <= visit)'
    BY <2>1, <2>2 DEF FieldInv
  <2>4. field'.value = field.value
    BY <1>14 DEF LookedUp, BookTyped
  <2>5. ASSUME LooksUpTheLast(calls) PROVE LooksUpTheLast(calls)'
    <3>1. LooksUpTheLast(t)
      BY <1>1, <2>1, <2>5, ServedOrder
    <3> QED
      BY <2>2, <2>4, <3>1 DEF LooksUpTheLast, LooksUp
  <2>6. ASSUME place = "send", ~outdated, ~\E x \in Range(t): LooksUp(x) PROVE Matches'
    <3>1. CASE h.by = visit
      <4>1. LooksUp(h) /\ h.what = field.value
        BY <1>1, <2>1, <2>6, <3>1, ServedOrder DEF LooksUp, FieldInv
      <4>2. /\ Known(Asset, h.what) # Nothing => Known(Asset, h.what).address = h.what
            /\ payment' = [address |-> h.what, own |-> FALSE,
                           memo |-> IF Known(Asset, h.what) = Nothing THEN Nothing
                                    ELSE Known(Asset, h.what).memo]
            /\ field'.contact = Known(Asset, h.what)
        BY <1>14, <3>1 DEF LookedUp, Known, ContactsAt, Onto, BookTyped
      <4> QED
        BY <2>4, <4>1, <4>2 DEF Matches
    <3>2. CASE h.by # visit
      <4>1. ~\E x \in Range(calls): LooksUp(x)
        BY <1>1, <2>1, <2>6, <3>2, FirstAndOthers DEF LooksUp
      <4>2. UNCHANGED <<field, payment>>
        BY <1>14, <3>2 DEF LookedUp
      <4> QED
        BY <2>6, <4>1, <4>2 DEF FieldInv, Matches
    <3> QED
      BY <3>1, <3>2
  <2>7. (\E x \in Range(calls): LooksUp(x))' <=> \E x \in Range(t): LooksUp(x)
    BY <2>2 DEF LooksUp
  <2> HIDE DEF t, h
  <2> QED
    BY <2>2, <2>3, <2>5, <2>6, <2>7 DEF FieldInv
<1>15. ASSUME NEW p \in {"book", "send"}, Open(p) PROVE FieldInv'
  <2> DEFINE z == Call("list", visit + 1, Nothing)
  <2>1. z \in CallSet /\ z.op # "lookup"
    BY <1>1, CallsMade DEF Call
  <2>2. calls' = Append(calls, z)
    BY <1>15 DEF Open, Ask, Calls
  <2>3. /\ visit' = visit + 1 /\ field' = EmptyField /\ payment' = EmptyPayment
    BY <1>15 DEF Open
  <2> HIDE DEF z
  <2>4. Range(calls') = Range(calls) \union {z}
    BY <1>1, <2>1, <2>2, QueueOfCalls
  <2>5. \A x \in Range(calls'): x.op = "lookup" => x.by \in Nat /\ x.by < visit'
    BY <1>1, <2>1, <2>3, <2>4, CallKinds DEF FieldInv
  <2>6. (\A x \in Range(calls): x.op = "lookup" => x.by <= visit)'
    BY <1>1, <2>3, <2>5
  <2>7. \A x \in Range(calls'): ~(x.op = "lookup" /\ x.by = visit')
    BY <1>1, <2>3, <2>5
  <2>8. LooksUpTheLast(calls)'
    BY <2>7 DEF LooksUpTheLast, LooksUp, Range
  <2>9. Matches'
    BY <2>3 DEF Matches, EmptyField, EmptyPayment
  <2> QED
    BY <2>6, <2>8, <2>9 DEF FieldInv
<1>16. ASSUME UNCHANGED <<place, visit, field, payment, outdated, calls>> PROVE FieldInv'
  BY <1>1, <1>16, FieldAsked
<1>17. ASSUME NEW c, OpenContact(c) \/ AskRemove(c) PROVE FieldInv'
  BY <1>16, <1>17 DEF OpenContact, AskRemove, kept
<1>18. opened # 0 => Lost(opened) \in Seq(CallSet)
  BY <1>1, QueueWithLost
<1>19. form # NoForm => opened # 0 /\ visit # 0 /\ form \in FormSet
  BY DEF BookTyped
<1>20. ASSUME NEW n, NEW a, FillIn(n, a) PROVE FieldInv'
  <2>1. calls' = Lost(opened) /\ onlyCalls /\ opened # 0
    BY <1>19, <1>20 DEF FillIn, Changed, Calls, kept
  <2> QED
    BY <1>18, <2>1, FieldAsked
<1>21. CASE SubmitContact
  <2> DEFINE z == IF Unchecked(form) THEN Write(form) ELSE Call("check", opened, form)
  <2>1. z \in CallSet /\ z.op # "lookup"
    BY <1>1, <1>19, <1>21, CallsMade DEF SubmitContact, Write, Call, DialogOps
  <2>2. calls' = Append(Lost(opened), z) /\ onlyCalls /\ opened # 0
    BY <1>19, <1>21 DEF SubmitContact, Calls, kept, views
  <2> HIDE DEF z
  <2> QED
    BY <1>18, <2>1, <2>2, FieldAsked
<1>22. CASE CloseDialog
  <2> DEFINE z == Call("list", visit, Nothing)
  <2>1. z \in CallSet /\ z.op # "lookup"
    BY <1>1, <1>19, <1>22, CallsMade DEF CloseDialog, Call
  <2>2. calls' = Append(calls, z) /\ onlyCalls
    BY <1>22 DEF CloseDialog, Ask, Calls, kept
  <2> HIDE DEF z
  <2> QED
    BY <1>1, <2>1, <2>2, FieldAsked
<1>23. CASE Remove
  <2> DEFINE z == Call("remove", visit, removing)
  <2>1. z \in CallSet /\ z.op # "lookup"
    BY <1>1, <1>23, CallsMade DEF Remove, Call, BookTyped
  <2>2. (calls' = Append(calls, z) \/ calls' = calls) /\ onlyCalls
    BY <1>23 DEF Remove, Ask, Calls, kept
  <2> HIDE DEF z
  <2> QED
    BY <1>1, <2>1, <2>2, FieldAsked
<1>24. ASSUME NEW a \in Addresses, TypeAddress(a) PROVE FieldInv'
  <2>1. place = "send" /\ LookUp(a) /\ field'.value = a /\ UNCHANGED <<place, visit>>
    BY <1>24 DEF TypeAddress, Sending, BookTyped
  <2> QED
    BY <2>1, FieldAsks DEF AnyAddress
<1>25. ASSUME NEW c \in contacts, SelectContact(c) PROVE FieldInv'
  <2>1. /\ place = "send" /\ LookUp(c.address) /\ field'.value = c.address
        /\ c.address \in AnyAddress /\ UNCHANGED <<place, visit>>
    BY <1>25 DEF SelectContact, Sending, BookTyped, ContactSet
  <2> QED
    BY <2>1, FieldAsks
<1>26. LookingUp <=> \E x \in Range(calls): LooksUp(x)
  BY DEF LookingUp, LooksUp, Range
<1>27. CASE ClearContact
  <2>1. UNCHANGED <<place, visit, calls>> /\ outdated' = (outdated \/ LookingUp)
    BY <1>27 DEF ClearContact, Sending
  <2>2. Matches'
    BY <1>27 DEF ClearContact, Onto, Matches, EmptyField
  <2>3. ~LookingUp => LooksUpTheLast(calls)'
    BY <1>26, <2>1 DEF LooksUpTheLast, LooksUp, Range
  <2> QED
    BY <2>1, <2>2, <2>3 DEF FieldInv
<1>28. ASSUME NEW m \in Memos, TypeMemo(m) PROVE FieldInv'
  <2>1. /\ UNCHANGED <<place, visit, calls, field, outdated>>
        /\ payment'.address = payment.address /\ payment'.own
    BY <1>28 DEF TypeMemo, Sending, BookTyped, PaymentSet
  <2>2. Matches => Matches'
    BY <2>1 DEF Matches
  <2>3. LooksUpTheLast(calls) => LooksUpTheLast(calls)'
    BY <2>1 DEF LooksUpTheLast, LooksUp
  <2>4. (\E x \in Range(calls): LooksUp(x)) => (\E x \in Range(calls): LooksUp(x))'
    BY <2>1 DEF LooksUp
  <2> QED
    BY <2>1, <2>2, <2>3, <2>4 DEF FieldInv
<1>29. CASE Pay
  <2> DEFINE z == Call("find", 0, payment)
  <2>1. z \in CallSet /\ z.op # "lookup"
    BY CallsMade DEF Call, BookTyped, AutoOps
  <2>2. /\ calls' = Append(calls, z) \/ calls' = calls
        /\ UNCHANGED <<place, visit, outdated>>
    BY <1>29 DEF Pay, Ask, Calls, Sending
  <2>3. Matches'
    BY <1>29 DEF Pay, Matches, EmptyField, EmptyPayment
  <2> HIDE DEF z
  <2>4. Range(calls') \subseteq Range(calls) \union {z}
    <3>1. Range(Append(calls, z)) = Range(calls) \union {z}
      BY <1>1, <2>1, QueueOfCalls
    <3> QED
      BY <2>2, <3>1
  <2>5. \A x \in Range(calls'): ~(x.op = "lookup" /\ x.by = visit')
    BY <1>26, <1>29, <2>1, <2>2, <2>4 DEF Pay, LooksUp
  <2>6. LooksUpTheLast(calls)'
    BY <2>5 DEF LooksUpTheLast, LooksUp, Range
  <2>7. (\A x \in Range(calls): x.op = "lookup" => x.by <= visit)'
    BY <2>1, <2>2, <2>4 DEF FieldInv
  <2> QED
    BY <2>3, <2>6, <2>7 DEF FieldInv
<1> QED
  BY <1>2, <1>3, <1>4, <1>7, <1>8, <1>9, <1>11, <1>12, <1>13, <1>14, <1>15, <1>17, <1>20, <1>21,
     <1>22, <1>23, <1>24, <1>25, <1>27, <1>28, <1>29 DEF BookNext, DatabaseStep, BookStep

(* Both parts of the address book hold at the start. *)
LEMMA BookStarts == BookInit => BookInv /\ FieldInv
<1> SUFFICES ASSUME BookInit PROVE BookInv /\ FieldInv
  OBVIOUS
<1>1. /\ calls = <<>> /\ Range(calls) = {} /\ DOMAIN calls = {} /\ calls \in Seq(CallSet)
      /\ book = {} /\ contacts = {} /\ form = NoForm
  BY DEF BookInit, Range
<1>2. BookTyped
  <2>1. EmptyField \in [value: AnyAddress, contact: ContactSet \union {Nothing}] /\ EmptyPayment \in PaymentSet
    BY DEF EmptyField, EmptyPayment, AnyAddress, AnyMemo, PaymentSet
  <2> QED
    BY <1>1, <2>1 DEF BookInit, BookTyped
<1>3. Ordered(calls) /\ LooksUpTheLast(calls) /\ OfDialogs(calls) /\ OneWriterWaits /\ PlacesFree
  BY <1>1 DEF Ordered, LooksUpTheLast, OfDialogs, OneWriterWaits, PlacesFree, Range
<1>4. Matches
  BY DEF BookInit, Matches, EmptyField, EmptyPayment
<1>5. NoDuplicates /\ BookNumbered /\ Numbered
  BY <1>1, BookAssumption DEF NoDuplicates, BookNumbered, Numbered, KnownId, BookInit, NoForm, Range
<1> QED
  BY <1>1, <1>2, <1>3, <1>4, <1>5 DEF BookInv, FieldInv, BookInit

(* The address book keeps both parts whatever the other parts of the settings do. *)
LEMMA BookAlways == SettingsSpec => [](BookInv /\ FieldInv)
<1>1. SettingsInit => BookInv /\ FieldInv
  BY BookStarts DEF SettingsInit
<1>2. BookInv /\ FieldInv /\ [SettingsNext]_<<vars, bookVars, revokeVars>> => BookInv' /\ FieldInv'
  <2> SUFFICES ASSUME BookInv, FieldInv, [SettingsNext]_<<vars, bookVars, revokeVars>>
               PROVE  BookInv' /\ FieldInv'
    OBVIOUS
  <2>1. CASE BookNext
    BY <2>1, BookStepInv, FieldStep DEF BookInv
  <2>2. CASE UNCHANGED bookVars
    <3>1. BookInv'
      BY <2>2 DEF bookVars, BookInv, BookTyped, Ordered, OfDialogs, NoDuplicates, BookNumbered, Numbered,
                  KnownId, OneWriterWaits, PlacesFree, Vacant, ContactsAt
    <3>2. FieldInv'
      BY <2>2 DEF bookVars, FieldInv, LooksUpTheLast, LooksUp, Matches
    <3> QED
      BY <3>1, <3>2
  <2> QED
    BY <2>1, <2>2 DEF SettingsNext
<1> QED
  BY <1>1, <1>2, PTL DEF SettingsSpec

(* No address of an asset is in the book twice, for every number of dialogs, contacts and
   calls: what waits to be written is kept apart from what is written by OneWriterWaits and
   PlacesFree (NoDuplicates). *)
THEOREM AddressesOnce == SettingsSpec => []NoDuplicates
<1>1. BookInv /\ FieldInv => NoDuplicates
  BY DEF BookInv
<1> QED
  BY <1>1, BookAlways, PTL

(* The sending form pays the address its field shows, with the memo of the contact shown
   or one typed since (PaysWhatItShows). *)
THEOREM SendsToTheShown == SettingsSpec => []PaysWhatItShows
<1>1. BookInv /\ FieldInv => PaysWhatItShows
  <2> SUFFICES ASSUME FieldInv, place = "send", ~LookingUp, ~outdated, BookTyped
               PROVE  /\ payment.address = IF field.contact # Nothing THEN field.contact.address
                                                                      ELSE field.value
                      /\ field.contact # Nothing => payment.own \/ payment.memo = field.contact.memo
    BY DEF PaysWhatItShows, BookInv
  <2>1. ~\E x \in Range(calls): LooksUp(x)
    BY DEF LookingUp, LooksUp, Range
  <2> QED
    BY <2>1 DEF FieldInv, Matches
<1> QED
  BY <1>1, BookAlways, PTL

-----------------------------------------------------------------------------
(* The wallets and the session. *)

(* A session the pages or a handler may hold: its node settings are those of an edit that
   was made for a wallet of its network. *)
Sound(made, s) ==
  /\ s \in Sessions /\ s.settings.node <= Len(made)
  /\ s.settings.node = 0 \/ NetworkOf[made[s.settings.node]] = NetworkOf[s.wallet]

SoundOrNone(made, s) == s = NoSession \/ Sound(made, s)
SoundList(made, list) == list \in Seq(Sessions) /\ \A s \in Range(list): Sound(made, s)

Of(store, w) == [wallet |-> w, settings |-> store[w]]
SoundStore(made, store) ==
  /\ store \in [DOMAIN store -> Settings]
  /\ \A w \in DOMAIN store: w \in Wallets /\ Sound(made, Of(store, w))

(* The steps at which a handler of each kind can be. *)
PhaseOf(t) ==
  /\ t.op = "start"     => t.at \in {"wallets", "mount"}
  /\ t.op = "create"    => t.at \in {"seed", "session"}
  /\ t.op = "delete"    => t.at \in {"list", "select", "reload", "shown"}
  /\ t.op = "switch"    => t.at \in {"reload", "shown"}
  /\ t.op = "toggle"    => t.at \in {"write", "find", "store", "show"}
  /\ t.op = "propagate" => t.at \in {"find", "store", "show"}
  /\ t.op = "settings"  => t.at \in {"apply", "write", "find", "both", "all", "refill"}
  /\ t.op = "asset"     => t.at \in {"both", "all", "refill"}
  /\ t.op = "currency"  => t.at = "show"
  /\ t.op = "migrate"   => t.at = "migrated"

(* What it writes is the wallet it has read, with an edit made for that wallet. *)
WritesWhatItRead(made, t) ==
  t.at \in {"apply", "write"} =>
    /\ Sound(made, t.snap) /\ t.snap.wallet = t.wallet
    /\ t.op = "settings" => t.value \in 1 .. Len(made) /\ made[t.value] = t.wallet

Fits(made, t) ==
  /\ t \in Tasks /\ (t.op # "start" => t.wallet \in Wallets)
  /\ PhaseOf(t) /\ WritesWhatItRead(made, t)
  /\ SoundOrNone(made, t.snap) /\ SoundList(made, t.list)

SessionInv ==
  /\ SoundStore(edits, walletStore)
  /\ SoundOrNone(edits, sessionStore) /\ SoundOrNone(edits, page) /\ SoundList(edits, walletList)
  /\ edits \in Seq(Wallets) /\ Len(edits) <= MaxEdits
  /\ handler = [h \in Handlers |-> handler[h]]
  /\ \A h \in Handlers: handler[h] = Idle \/ Fits(edits, handler[h])

(* A wallet that is found. *)
LEMMA FoundSession ==
  ASSUME SessionInv, NEW w
  PROVE  /\ w \in Stored => Found(w) = Of(walletStore, w) /\ Sound(edits, Found(w)) /\ Found(w).wallet = w
         /\ w \notin Stored => Found(w) = NoSession
         /\ SoundOrNone(edits, Found(w))
BY DEF Found, SessionInv, SoundStore, Stored, SoundOrNone, Of

(* The list of all wallets holds the stored ones, as they are stored. *)
LEMMA AllWalletsFound ==
  ASSUME SessionInv
  PROVE  /\ AllWallets \in Seq(Sessions)
         /\ \A s \in Range(AllWallets): s.wallet \in Stored /\ s = Found(s.wallet) /\ Sound(edits, s)
         /\ \A i, j \in DOMAIN AllWallets: AllWallets[i].wallet = AllWallets[j].wallet => i = j
         /\ Stored # {} => AllWallets # <<>>
<1> DEFINE places == {i \in DOMAIN Order: Order[i] \in Stored}
           rank   == [i \in places |-> Cardinality({j \in places: j <= i})]
           n      == Cardinality(places)
<1>1. /\ places \subseteq 1 .. Len(Order) /\ IsFiniteSet(1 .. Len(Order)) /\ IsFiniteSet(places)
      /\ n \in Nat /\ places \subseteq Nat
  <2>1. DOMAIN Order = 1 .. Len(Order) /\ Len(Order) \in Nat
    BY SessionAssumption
  <2>2. IsFiniteSet(1 .. Len(Order)) /\ places \in SUBSET (1 .. Len(Order))
    BY <2>1, FS_Interval
  <2> QED
    BY <2>1, <2>2, FS_Subset, FS_CardinalityType
<1> HIDE DEF places
<1>2. \A i \in places: /\ IsFiniteSet({j \in places: j <= i})
                       /\ Cardinality({j \in places: j <= i}) \in 1 .. n
  <2> SUFFICES ASSUME NEW i \in places
               PROVE  LET T == {j \in places: j <= i} IN IsFiniteSet(T) /\ Cardinality(T) \in 1 .. n
    OBVIOUS
  <2> DEFINE T == {j \in places: j <= i}
  <2>1. T \in SUBSET places /\ i \in T
    BY <1>1
  <2> HIDE DEF T
  <2>2. IsFiniteSet(T) /\ Cardinality(T) <= n
    BY <1>1, <2>1, FS_Subset
  <2>3. Cardinality(T) \in Nat /\ Cardinality(T) # 0
    BY <2>1, <2>2, FS_CardinalityType, FS_EmptySet
  <2>4. Cardinality(T) \in 1 .. n
    BY <1>1, <2>2, <2>3
  <2> QED
    BY <2>2, <2>4 DEF T
<1>3. ASSUME NEW i \in places, NEW k \in places, i < k PROVE rank[i] # rank[k]
  <2> DEFINE S == {j \in places: j <= i}
             T == {j \in places: j <= k}
  <2>1. i \in Nat /\ k \in Nat /\ \A j \in places: j \in Nat /\ (j <= i => j <= k)
    BY <1>1, <1>3
  <2>a. S \in SUBSET T /\ k \in T /\ k \notin S
    <3>1. k <= k /\ ~(k <= i)
      BY <1>3, <2>1
    <3>2. \A j: j \in S <=> j \in places /\ j <= i
      BY Zenon
    <3>3. \A j: j \in T <=> j \in places /\ j <= k
      BY Zenon
    <3> HIDE DEF S, T
    <3> QED
      BY <2>1, <3>1, <3>2, <3>3
  <2>2. IsFiniteSet(T) /\ rank[i] = Cardinality(S) /\ rank[k] = Cardinality(T)
    BY <1>2
  <2> HIDE DEF S, T
  <2> QED
    BY <2>a, <2>2, FS_Subset
<1>4. rank \in Surjection(places, 1 .. n)
  <2>1. rank \in [places -> 1 .. n]
    BY <1>2
  <2>2. \A i, k \in places: rank[i] = rank[k] => i = k
    BY <1>1, <1>3
  <2>3. rank \in Injection(places, 1 .. n)
    BY <2>1, <2>2 DEF Injection, IsInjective
  <2>4. IsFiniteSet(1 .. n) /\ Cardinality(1 .. n) = n
    BY <1>1, FS_Interval
  <2> QED
    BY <2>3, <2>4, FS_Injection
<1>5. \A k \in 1 .. n: \E i \in places: rank[i] = k
  BY <1>4 DEF Surjection
<1> HIDE DEF rank, n
<1> DEFINE at(k) == CHOOSE i \in places: rank[i] = k
<1>6. \A k \in 1 .. n: at(k) \in places
  BY <1>5
<1>7. \A i \in places: Order[i] \in Stored
  BY DEF places
<1>8. AllWallets = [k \in 1 .. n |-> Found(Order[at(k)])]
  BY DEF AllWallets, places, rank, n
<1> HIDE DEF at
<1>9. \A k \in 1 .. n: LET s == Found(Order[at(k)]) IN
        s \in Sessions /\ Sound(edits, s) /\ s.wallet \in Stored /\ s = Found(s.wallet)
  BY <1>6, <1>7, FoundSession DEF Sound
<1>10. AllWallets \in Seq(Sessions)
  BY <1>1, <1>8, <1>9 DEF n
<1>11. \A s \in Range(AllWallets): \E k \in 1 .. n: s = Found(Order[at(k)])
  BY <1>8 DEF Range
<1>12. ASSUME NEW i \in DOMAIN AllWallets, NEW j \in DOMAIN AllWallets,
              AllWallets[i].wallet = AllWallets[j].wallet
       PROVE  i = j
  <2>1. i \in 1 .. n /\ j \in 1 .. n /\ AllWallets[i] = Found(Order[at(i)]) /\ AllWallets[j] = Found(Order[at(j)])
    BY <1>8
  <2>2. Order[at(i)] = Order[at(j)]
    BY <1>6, <1>7, <1>12, <2>1, FoundSession
  <2>3. at(i) = at(j)
    BY <1>6, <2>1, <2>2, SessionAssumption DEF places
  <2>4. rank[at(i)] = i /\ rank[at(j)] = j
    BY <1>5, <2>1 DEF at
  <2> QED
    BY <2>3, <2>4
<1>13. ASSUME Stored # {} PROVE AllWallets # <<>>
  <2>1. PICK w \in Stored: w \in Wallets
    BY <1>13 DEF SessionInv, SoundStore, Stored
  <2>2. places # {}
    BY <2>1 DEF places, Wallets, Range
  <2>3. n # 0
    BY <1>1, <2>2, FS_EmptySet DEF n
  <2>4. 1 \in DOMAIN AllWallets
    BY <1>1, <1>8, <2>3 DEF n
  <2> QED
    BY <2>4
<1> QED
  BY <1>9, <1>10, <1>11, <1>12, <1>13

(* A wallet that is saved, and the updates of all wallets of a network. *)
LEMMA UpsertedStore ==
  ASSUME NEW store, SoundStore(edits, store), NEW w \in Wallets, NEW s, Sound(edits, [wallet |-> w, settings |-> s])
  PROVE  SoundStore(edits, Upserted(store, w, s))
<1> DEFINE new == Upserted(store, w, s)
<1>1. /\ DOMAIN new = DOMAIN store \union {w}
      /\ new[w] = s /\ \A v \in DOMAIN store: v # w => new[v] = store[v]
  BY DEF Upserted
<1>2. s \in Settings /\ store \in [DOMAIN store -> Settings]
  BY DEF SoundStore, Sound, Sessions
<1>3. new \in [DOMAIN new -> Settings]
  BY <1>2 DEF Upserted
<1> HIDE DEF new
<1>4. SoundStore(edits, new)
  BY <1>1, <1>3 DEF SoundStore, Of
<1> QED
  BY <1>4 DEF new

(* A setting propagated to all wallets leaves the nodes of the store as they were given. *)
LEMMA PropagatedStore ==
  ASSUME NEW store, SoundStore(edits, store), NEW w, NEW on \in BOOLEAN
  PROVE  SoundStore(edits, Propagated(store, w, on)) /\ DOMAIN Propagated(store, w, on) = DOMAIN store
<1> DEFINE new == Propagated(store, w, on)
<1>1. DOMAIN new = DOMAIN store
  BY DEF Propagated
<1>2. ASSUME NEW v \in DOMAIN store PROVE v \in Wallets /\ Sound(edits, Of(new, v)) /\ new[v] \in Settings
  <2>1. v \in Wallets /\ Sound(edits, Of(store, v)) /\ store[v] \in Settings
    BY <1>2 DEF SoundStore, Of, Sound, Sessions
  <2>2. new[v] \in {store[v], [store[v] EXCEPT !.general = on]}
    BY <1>2 DEF Propagated
  <2>3. new[v] \in Settings /\ new[v].node = store[v].node
    BY <2>1, <2>2 DEF Settings
  <2> QED
    BY <2>1, <2>3 DEF Sound, Of, Sessions
<1>3. new \in [DOMAIN new -> Settings]
  BY <1>1, <1>2 DEF Propagated
<1> HIDE DEF new
<1>4. SoundStore(edits, new) /\ DOMAIN new = DOMAIN store
  BY <1>1, <1>2, <1>3 DEF SoundStore
<1> QED
  BY <1>4 DEF new

(* So does a node given to all wallets of the network it was chosen for. *)
LEMMA NodeForAllStore ==
  ASSUME SessionInv, NEW w \in Wallets, NEW n \in 1 .. Len(edits), edits[n] = w
  PROVE  SoundStore(edits, NodeForAll(walletStore, w, n)) /\ DOMAIN NodeForAll(walletStore, w, n) = Stored
<1> DEFINE new == NodeForAll(walletStore, w, n)
<1>1. DOMAIN new = Stored
  BY DEF NodeForAll, Stored
<1>n. Len(edits) \in Nat /\ MaxEdits \in Nat /\ n \in 0 .. MaxEdits /\ n <= Len(edits) /\ n # 0
  BY SessionAssumption DEF SessionInv
<1>2. ASSUME NEW v \in Stored PROVE v \in Wallets /\ Sound(edits, Of(new, v)) /\ new[v] \in Settings
  <2>1. v \in Wallets /\ Sound(edits, Of(walletStore, v)) /\ walletStore[v] \in Settings
    BY <1>2 DEF SessionInv, SoundStore, Of, Sound, Sessions, Stored
  <2>2. CASE NetworkOf[v] = NetworkOf[w]
    <3>1. new[v] = [walletStore[v] EXCEPT !.node = n]
      BY <1>2, <2>2 DEF NodeForAll, Stored
    <3>2. new[v] \in Settings /\ new[v].node = n
      BY <1>n, <2>1, <3>1 DEF Settings
    <3> QED
      BY <1>n, <2>1, <2>2, <3>2 DEF Sound, Of, Sessions
  <2>3. CASE NetworkOf[v] # NetworkOf[w]
    <3>1. new[v] = walletStore[v]
      BY <1>2, <2>3 DEF NodeForAll, Stored
    <3> QED
      BY <2>1, <3>1 DEF Sound, Of, Sessions
  <2> QED
    BY <2>2, <2>3
<1>3. new \in [DOMAIN new -> Settings]
  BY <1>1, <1>2 DEF NodeForAll, Stored
<1> HIDE DEF new
<1>4. SoundStore(edits, new) /\ DOMAIN new = Stored
  BY <1>1, <1>2, <1>3 DEF SoundStore
<1> QED
  BY <1>4 DEF new

(* One more edit. *)
LEMMA OneMoreEdit ==
  ASSUME NEW made \in Seq(Wallets), NEW w \in Wallets
  PROVE  LET more == Append(made, w) IN
         /\ more \in Seq(Wallets) /\ Len(more) = Len(made) + 1 /\ more[Len(made) + 1] = w
         /\ \A s: Sound(made, s) => Sound(more, s)
         /\ \A s: SoundOrNone(made, s) => SoundOrNone(more, s)
         /\ \A list: SoundList(made, list) => SoundList(more, list)
         /\ \A store: SoundStore(made, store) => SoundStore(more, store)
         /\ \A t: Fits(made, t) => Fits(more, t)
<1> DEFINE more == Append(made, w)
<1>1. /\ more \in Seq(Wallets) /\ Len(made) \in Nat /\ Len(more) = Len(made) + 1
      /\ more[Len(made) + 1] = w /\ \A n \in 1 .. Len(made): more[n] = made[n]
  OBVIOUS
<1> HIDE DEF more
<1>2. ASSUME NEW s, Sound(made, s) PROVE Sound(more, s)
  <2>1. s \in Sessions /\ s.settings.node \in Nat /\ s.settings.node <= Len(made)
    BY <1>2, SessionAssumption DEF Sound, Sessions, Settings
  <2>2. s.settings.node = 0 \/ s.settings.node \in 1 .. Len(made)
    BY <1>1, <2>1
  <2> QED
    BY <1>1, <1>2, <2>1, <2>2 DEF Sound
<1>3. \A s: SoundOrNone(made, s) => SoundOrNone(more, s)
  BY <1>2 DEF SoundOrNone
<1>4. \A list: SoundList(made, list) => SoundList(more, list)
  BY <1>2 DEF SoundList
<1>5. \A store: SoundStore(made, store) => SoundStore(more, store)
  BY <1>2 DEF SoundStore
<1>6. ASSUME NEW t, WritesWhatItRead(made, t) PROVE WritesWhatItRead(more, t)
  <2>1. \A n \in 1 .. Len(made): n \in 1 .. Len(more)
    BY <1>1
  <2> QED
    BY <1>1, <1>2, <1>6, <2>1 DEF WritesWhatItRead
<1>7. \A t: Fits(made, t) => Fits(more, t)
  BY <1>3, <1>4, <1>6 DEF Fits
<1> QED
  BY <1>1, <1>2, <1>3, <1>4, <1>5, <1>7 DEF more

(* A step is taken by one handler: what it does next has to fit. *)
LEMMA OneHandlerMoves ==
  ASSUME SessionInv, NEW h \in Handlers, NEW t, t = Idle \/ Fits(edits', t),
         handler' = [handler EXCEPT ![h] = t],
         edits' = edits \/ \E w \in Wallets: edits' = Append(edits, w), Len(edits') <= MaxEdits,
         SoundStore(edits', walletStore'), SoundOrNone(edits', sessionStore'),
         SoundOrNone(edits', page'), SoundList(edits', walletList')
  PROVE  SessionInv'
<1>1. edits' \in Seq(Wallets) /\ \A k: Fits(edits, k) => Fits(edits', k)
  <2>1. edits \in Seq(Wallets)
    BY DEF SessionInv
  <2>2. ASSUME NEW w \in Wallets, edits' = Append(edits, w)
        PROVE  edits' \in Seq(Wallets) /\ \A k: Fits(edits, k) => Fits(edits', k)
    BY <2>1, <2>2, OneMoreEdit
  <2> QED
    BY <2>1, <2>2
<1>2. handler' = [g \in Handlers |-> handler'[g]]
  BY DEF SessionInv
<1>3. \A g \in Handlers: handler'[g] = IF g = h THEN t ELSE handler[g]
  BY DEF SessionInv
<1> QED
  BY <1>1, <1>2, <1>3 DEF SessionInv

(* What a handler is doing, and what it does next. *)
LEMMA HandlerAt ==
  ASSUME SessionInv, NEW h \in Handlers, NEW step, At(h, step)
  PROVE  /\ h \in Busy /\ handler[h] # Idle /\ Fits(edits, handler[h]) /\ handler[h].at = step
         /\ handler[h] \in Tasks
         /\ \A next: Keep(h, next) =>
              handler' = [handler EXCEPT ![h] = [handler[h] EXCEPT !.at = next]]
         /\ \A next: Go(h, next) =>
              handler' = [handler EXCEPT ![h] = [handler[h] EXCEPT !.at = next, !.snap = NoSession,
                                                 !.list = <<>>, !.value = 0]]
         /\ Finish(h) => handler' = [handler EXCEPT ![h] = Idle]
<1>1. h \in Busy /\ handler[h] # Idle /\ handler[h].at = step
  BY DEF At, Busy
<1>2. Fits(edits, handler[h])
  BY <1>1 DEF SessionInv
<1> QED
  BY <1>1, <1>2 DEF Fits, Keep, Go, Finish

(* The values a task may take on. *)
LEMMA TaskFits ==
  ASSUME NEW made, NEW t, Fits(made, t), NEW next,
         next \in {"wallets", "mount", "seed", "session", "list", "select", "reload", "shown",
                   "write", "find", "store", "show", "both", "all", "refill", "migrated"}
  PROVE  /\ LET k == [t EXCEPT !.at = next, !.snap = NoSession, !.list = <<>>, !.value = 0]
            IN  next # "write" /\ PhaseOf(k) => Fits(made, k)
         /\ \A snap: LET k == [t EXCEPT !.snap = snap, !.at = next]
                     IN  next # "write" /\ SoundOrNone(made, snap) /\ PhaseOf(k) => Fits(made, k)
         /\ \A list: LET k == [t EXCEPT !.list = list, !.at = next]
                     IN  next # "write" /\ SoundList(made, list) /\ PhaseOf(k) => Fits(made, k)
         /\ LET k == [t EXCEPT !.at = next]
            IN  (t.at = "apply" \/ next # "write") /\ PhaseOf(k) => Fits(made, k)
<1>1. t \in Tasks /\ MaxEdits \in Nat /\ SoundList(made, <<>>) /\ <<>> \in Seq(Sessions)
  BY SessionAssumption DEF Fits, SoundList, Range
<1>2. next \in {"wallets", "mount", "seed", "session", "list", "select", "reload", "shown",
        "write", "apply", "find", "store", "show", "both", "all", "refill", "migrated"}
  OBVIOUS
<1>3. /\ NoSession \in Snapshots /\ \A snap: SoundOrNone(made, snap) => snap \in Snapshots
      /\ \A list: SoundList(made, list) => list \in Seq(Sessions)
  BY DEF Snapshots, SoundOrNone, Sound, SoundList
<1>4. LET k == [t EXCEPT !.at = next, !.snap = NoSession, !.list = <<>>, !.value = 0]
      IN  next # "write" /\ PhaseOf(k) => Fits(made, k)
  <2> DEFINE k == [t EXCEPT !.at = next, !.snap = NoSession, !.list = <<>>, !.value = 0]
  <2>1. /\ k \in Tasks /\ k.op = t.op /\ k.wallet = t.wallet /\ k.at = next
        /\ k.snap = NoSession /\ k.list = <<>>
    BY <1>1, <1>2, <1>3 DEF Tasks
  <2> HIDE DEF k
  <2>2. next # "write" /\ PhaseOf(k) => Fits(made, k)
    BY <1>1, <2>1 DEF Fits, WritesWhatItRead, SoundOrNone
  <2> QED
    BY <2>2 DEF k
<1>5. ASSUME NEW snap
      PROVE  LET k == [t EXCEPT !.snap = snap, !.at = next]
             IN  next # "write" /\ SoundOrNone(made, snap) /\ PhaseOf(k) => Fits(made, k)
  <2> DEFINE k == [t EXCEPT !.snap = snap, !.at = next]
  <2>1. SoundOrNone(made, snap) => 
          k \in Tasks /\ k.op = t.op /\ k.wallet = t.wallet /\ k.at = next /\ k.snap = snap /\ k.list = t.list
    BY <1>1, <1>2, <1>3 DEF Tasks
  <2> HIDE DEF k
  <2>2. next # "write" /\ SoundOrNone(made, snap) /\ PhaseOf(k) => Fits(made, k)
    BY <1>1, <2>1 DEF Fits, WritesWhatItRead
  <2> QED
    BY <2>2 DEF k
<1>6. ASSUME NEW list
      PROVE  LET k == [t EXCEPT !.list = list, !.at = next]
             IN  next # "write" /\ SoundList(made, list) /\ PhaseOf(k) => Fits(made, k)
  <2> DEFINE k == [t EXCEPT !.list = list, !.at = next]
  <2>1. SoundList(made, list) => 
          k \in Tasks /\ k.op = t.op /\ k.wallet = t.wallet /\ k.at = next /\ k.snap = t.snap /\ k.list = list
    BY <1>1, <1>2, <1>3 DEF Tasks
  <2> HIDE DEF k
  <2>2. next # "write" /\ SoundList(made, list) /\ PhaseOf(k) => Fits(made, k)
    BY <1>1, <2>1 DEF Fits, WritesWhatItRead
  <2> QED
    BY <2>2 DEF k
<1>7. LET k == [t EXCEPT !.at = next]
      IN  (t.at = "apply" \/ next # "write") /\ PhaseOf(k) => Fits(made, k)
  <2> DEFINE k == [t EXCEPT !.at = next]
  <2>1. /\ k \in Tasks /\ k.op = t.op /\ k.wallet = t.wallet /\ k.at = next /\ k.snap = t.snap /\ k.list = t.list
        /\ k.value = t.value
    BY <1>1, <1>2, <1>3 DEF Tasks
  <2> HIDE DEF k
  <2>2. (t.at = "apply" \/ next # "write") /\ PhaseOf(k) => Fits(made, k)
    BY <1>1, <2>1 DEF Fits, WritesWhatItRead
  <2> QED
    BY <2>2 DEF k
<1> QED
  BY <1>4, <1>5, <1>6, <1>7

(* The tasks that only read, from the wallet on the page. *)
LEMMA ReadersFit ==
  ASSUME NEW made \in Seq(Wallets), NEW w \in Wallets, NEW snap, SoundOrNone(made, snap)
  PROVE  /\ Fits(made, [Started("start", "wallets", NoWallet) EXCEPT !.snap = snap])
         /\ Fits(made, Started("create", "seed", w))
         /\ Fits(made, Started("delete", "list", w))
         /\ Fits(made, Started("propagate", "find", w))
         /\ \A v \in {0, 1}: Fits(made, [Started("switch", "reload", w) EXCEPT !.value = v])
         /\ Fits(made, [Started("asset", "both", w) EXCEPT !.snap = snap])
         /\ Fits(made, [Started("currency", "show", w) EXCEPT !.snap = snap])
         /\ Fits(made, [Started("migrate", "migrated", w) EXCEPT !.snap = snap])
<1>1. /\ NoSession \in Snapshots /\ snap \in Snapshots /\ <<>> \in Seq(Sessions)
      /\ SoundOrNone(made, NoSession) /\ SoundList(made, <<>>)
  BY DEF Snapshots, SoundOrNone, Sound, SoundList, Range
<1>a. \A v \in {0, 1}: v \in 0 .. MaxEdits \union {0, 1}
  OBVIOUS
<1>2. ASSUME NEW t \in Tasks, t.op # "start" => t.wallet \in Wallets, PhaseOf(t),
             t.at \notin {"apply", "write"}, SoundOrNone(made, t.snap), t.list = <<>>
      PROVE  Fits(made, t)
  BY <1>1, <1>2 DEF Fits, WritesWhatItRead
<1>3. Fits(made, [Started("start", "wallets", NoWallet) EXCEPT !.snap = snap])
  <2> DEFINE t == [Started("start", "wallets", NoWallet) EXCEPT !.snap = snap]
  <2>1. t \in Tasks /\ t.op = "start" /\ t.at = "wallets" /\ t.wallet = NoWallet /\ t.snap = snap /\ t.list = <<>>
    BY <1>1, <1>a DEF Started, Tasks
  <2> HIDE DEF t
  <2>2. Fits(made, t)
    BY <1>1, <1>2, <2>1 DEF PhaseOf
  <2> QED
    BY <2>2 DEF t
<1>4. Fits(made, Started("create", "seed", w))
  <2> DEFINE t == Started("create", "seed", w)
  <2>1. t \in Tasks /\ t.op = "create" /\ t.at = "seed" /\ t.wallet = w /\ t.snap = NoSession /\ t.list = <<>>
    BY <1>1, <1>a DEF Started, Tasks
  <2> HIDE DEF t
  <2>2. Fits(made, t)
    BY <1>1, <1>2, <2>1 DEF PhaseOf
  <2> QED
    BY <2>2 DEF t
<1>5. Fits(made, Started("delete", "list", w))
  <2> DEFINE t == Started("delete", "list", w)
  <2>1. t \in Tasks /\ t.op = "delete" /\ t.at = "list" /\ t.wallet = w /\ t.snap = NoSession /\ t.list = <<>>
    BY <1>1, <1>a DEF Started, Tasks
  <2> HIDE DEF t
  <2>2. Fits(made, t)
    BY <1>1, <1>2, <2>1 DEF PhaseOf
  <2> QED
    BY <2>2 DEF t
<1>6. Fits(made, Started("propagate", "find", w))
  <2> DEFINE t == Started("propagate", "find", w)
  <2>1. t \in Tasks /\ t.op = "propagate" /\ t.at = "find" /\ t.wallet = w /\ t.snap = NoSession /\ t.list = <<>>
    BY <1>1, <1>a DEF Started, Tasks
  <2> HIDE DEF t
  <2>2. Fits(made, t)
    BY <1>1, <1>2, <2>1 DEF PhaseOf
  <2> QED
    BY <2>2 DEF t
<1>7. ASSUME NEW v \in {0, 1} PROVE Fits(made, [Started("switch", "reload", w) EXCEPT !.value = v])
  <2> DEFINE t == [Started("switch", "reload", w) EXCEPT !.value = v]
  <2>1. t \in Tasks /\ t.op = "switch" /\ t.at = "reload" /\ t.wallet = w /\ t.snap = NoSession /\ t.list = <<>>
    BY <1>1, <1>a DEF Started, Tasks
  <2> HIDE DEF t
  <2>2. Fits(made, t)
    BY <1>1, <1>2, <2>1 DEF PhaseOf
  <2> QED
    BY <2>2 DEF t
<1>8. Fits(made, [Started("asset", "both", w) EXCEPT !.snap = snap])
  <2> DEFINE t == [Started("asset", "both", w) EXCEPT !.snap = snap]
  <2>1. t \in Tasks /\ t.op = "asset" /\ t.at = "both" /\ t.wallet = w /\ t.snap = snap /\ t.list = <<>>
    BY <1>1, <1>a DEF Started, Tasks
  <2> HIDE DEF t
  <2>2. Fits(made, t)
    BY <1>1, <1>2, <2>1 DEF PhaseOf
  <2> QED
    BY <2>2 DEF t
<1>9. Fits(made, [Started("currency", "show", w) EXCEPT !.snap = snap])
  <2> DEFINE t == [Started("currency", "show", w) EXCEPT !.snap = snap]
  <2>1. t \in Tasks /\ t.op = "currency" /\ t.at = "show" /\ t.wallet = w /\ t.snap = snap /\ t.list = <<>>
    BY <1>1, <1>a DEF Started, Tasks
  <2> HIDE DEF t
  <2>2. Fits(made, t)
    BY <1>1, <1>2, <2>1 DEF PhaseOf
  <2> QED
    BY <2>2 DEF t
<1>10. Fits(made, [Started("migrate", "migrated", w) EXCEPT !.snap = snap])
  <2> DEFINE t == [Started("migrate", "migrated", w) EXCEPT !.snap = snap]
  <2>1. t \in Tasks /\ t.op = "migrate" /\ t.at = "migrated" /\ t.wallet = w /\ t.snap = snap /\ t.list = <<>>
    BY <1>1, <1>a DEF Started, Tasks
  <2> HIDE DEF t
  <2>2. Fits(made, t)
    BY <1>1, <1>2, <2>1 DEF PhaseOf
  <2> QED
    BY <2>2 DEF t
<1> QED
  BY <1>3, <1>4, <1>5, <1>6, <1>7, <1>8, <1>9, <1>10

(* The tasks that write what they read. *)
LEMMA WritersFit ==
  ASSUME NEW made \in Seq(Wallets), NEW snap, Sound(made, snap)
  PROVE  /\ \A v \in {0, 1}:
              Fits(made, [Started("toggle", "write", snap.wallet) EXCEPT !.snap = snap, !.value = v])
         /\ \A v \in 1 .. Len(made): made[v] = snap.wallet /\ v <= MaxEdits =>
              Fits(made, [Started("settings", "apply", snap.wallet) EXCEPT !.snap = snap, !.value = v])
<1>1. /\ snap \in Snapshots /\ snap.wallet \in Wallets /\ <<>> \in Seq(Sessions)
      /\ SoundOrNone(made, snap) /\ SoundList(made, <<>>)
  BY DEF Snapshots, SoundOrNone, Sound, Sessions, SoundList, Range
<1>2. \A v \in 1 .. Len(made): v <= MaxEdits => v \in 0 .. MaxEdits
  BY SessionAssumption
<1>3. ASSUME NEW v \in {0, 1}
      PROVE  Fits(made, [Started("toggle", "write", snap.wallet) EXCEPT !.snap = snap, !.value = v])
  <2> DEFINE t == [Started("toggle", "write", snap.wallet) EXCEPT !.snap = snap, !.value = v]
  <2>1. /\ t \in Tasks /\ t.op = "toggle" /\ t.at = "write" /\ t.wallet = snap.wallet /\ t.snap = snap
        /\ t.list = <<>>
    BY <1>1 DEF Started, Tasks
  <2> HIDE DEF t
  <2>2. Fits(made, t)
    BY <1>1, <2>1 DEF Fits, PhaseOf, WritesWhatItRead
  <2> QED
    BY <2>2 DEF t
<1>4. ASSUME NEW v \in 1 .. Len(made), made[v] = snap.wallet, v <= MaxEdits
      PROVE  Fits(made, [Started("settings", "apply", snap.wallet) EXCEPT !.snap = snap, !.value = v])
  <2> DEFINE t == [Started("settings", "apply", snap.wallet) EXCEPT !.snap = snap, !.value = v]
  <2>1. /\ t \in Tasks /\ t.op = "settings" /\ t.at = "apply" /\ t.wallet = snap.wallet /\ t.snap = snap
        /\ t.list = <<>> /\ t.value = v
    BY <1>1, <1>2, <1>4 DEF Started, Tasks
  <2> HIDE DEF t
  <2>2. Fits(made, t)
    BY <1>1, <1>4, <2>1 DEF Fits, PhaseOf, WritesWhatItRead
  <2> QED
    BY <2>2 DEF t
<1> QED
  BY <1>3, <1>4

(* SessionInv is inductive. *)
LEMMA SessionStep ==
  ASSUME SessionInv, Next
  PROVE  SessionInv'
<1>1. /\ SoundStore(edits, walletStore) /\ SoundOrNone(edits, sessionStore)
      /\ SoundOrNone(edits, page) /\ SoundList(edits, walletList)
      /\ edits \in Seq(Wallets) /\ Len(edits) \in Nat /\ Len(edits) <= MaxEdits /\ MaxEdits \in Nat
      /\ SoundOrNone(edits, NoSession) /\ SoundList(edits, <<>>)
  BY SessionAssumption DEF SessionInv, SoundOrNone, SoundList, Range
<1>2. SoundList(edits, AllWallets)
  BY AllWalletsFound DEF SoundList
<1>3. \A w: SoundOrNone(edits, Found(w)) /\ (w \in Stored => Sound(edits, Found(w)) /\ Found(w).wallet = w)
  BY FoundSession
<1>4. page # NoSession => Sound(edits, page) /\ page.wallet \in Wallets
  BY <1>1 DEF SoundOrNone, Sound, Sessions
<1>5. \A w \in Wallets: Sound(edits, [wallet |-> w, settings |-> Fresh])
  BY <1>1 DEF Sound, Sessions, Settings, Fresh
<1>6. ASSUME NEW h \in Handlers, NEW t, t = Idle \/ Fits(edits, t), UNCHANGED edits,
             handler' = [handler EXCEPT ![h] = t],
             SoundStore(edits, walletStore'), SoundOrNone(edits, sessionStore'),
             SoundOrNone(edits, page'), SoundList(edits, walletList')
      PROVE  SessionInv'
  BY <1>1, <1>6, OneHandlerMoves
(* No handler moves. *)
<1>7. ASSUME UNCHANGED <<walletStore, edits, handler>>, SoundOrNone(edits, sessionStore'),
             SoundOrNone(edits, page'), SoundList(edits, walletList')
      PROVE  SessionInv'
  BY <1>7 DEF SessionInv
(* A handler that has only to go on. *)
<1>8. ASSUME NEW h \in Handlers, NEW step, At(h, step)
      PROVE  /\ Fits(edits, handler[h]) /\ handler[h].at = step
             /\ handler[h].op # "start" => handler[h].wallet \in Wallets
             /\ SoundOrNone(edits, handler[h].snap) /\ SoundList(edits, handler[h].list)
             /\ PhaseOf(handler[h]) /\ WritesWhatItRead(edits, handler[h]) /\ handler[h] \in Tasks
             /\ handler[h].op \in {"start", "create", "delete", "switch", "toggle", "propagate",
                                   "settings", "asset", "currency", "migrate"}
  BY <1>8, HandlerAt DEF Fits, Tasks
<1>9. ASSUME NEW h \in Handlers, NEW step, At(h, step), Finish(h), UNCHANGED edits,
             SoundStore(edits, walletStore'), SoundOrNone(edits, sessionStore'),
             SoundOrNone(edits, page'), SoundList(edits, walletList')
      PROVE  SessionInv'
  BY <1>6, <1>9, HandlerAt
<1>10. ASSUME NEW h \in Handlers, MountWallets(h) PROVE SessionInv'
  <2> DEFINE t == handler[h]
             k == [t EXCEPT !.list = AllWallets, !.at = "mount"]
  <2>1. /\ At(h, "wallets") /\ Fits(edits, t) /\ PhaseOf(t) /\ t.at = "wallets" /\ t \in Tasks
    BY <1>10, <1>8 DEF MountWallets
  <2>2. handler' = [handler EXCEPT ![h] = k]
    BY <1>10, <2>1, HandlerAt DEF MountWallets
  <2>3. /\ k.at = "mount" /\ k.op = t.op
    BY <2>1 DEF Tasks
  <2>4. PhaseOf(k)
    BY <1>10, <2>1, <2>3 DEF PhaseOf, Tasks, MountWallets
  <2>5. Fits(edits, k)
    BY <1>1, <1>2, <1>3, <2>1, <2>4, TaskFits
  <2> HIDE DEF k
  <2> QED
    BY <1>10, <1>1, <1>2, <1>6, <2>2, <2>5 DEF MountWallets, stores, pages, history
<1>11. ASSUME NEW h \in Handlers, MountShow(h) PROVE SessionInv'
  <2>1. At(h, "mount") /\ UNCHANGED <<stores, edits>> /\ page' = handler[h].snap /\ walletList' = handler[h].list
    BY <1>11 DEF MountShow, history
  <2> QED
    BY <1>11, <1>1, <1>8, <1>9, <2>1 DEF MountShow, stores
<1>12. ASSUME NEW h \in Handlers, PersistPhrase(h) PROVE SessionInv'
  <2> DEFINE t == handler[h]
             k == [t EXCEPT !.at = "session", !.snap = NoSession, !.list = <<>>, !.value = 0]
  <2>1. /\ At(h, "seed") /\ Fits(edits, t) /\ PhaseOf(t) /\ t.at = "seed" /\ t \in Tasks
    BY <1>12, <1>8 DEF PersistPhrase
  <2>2. handler' = [handler EXCEPT ![h] = k]
    BY <1>12, <2>1, HandlerAt DEF PersistPhrase
  <2>3. /\ k.at = "session" /\ k.op = t.op
    BY <2>1 DEF Tasks
  <2>4. PhaseOf(k)
    BY <1>12, <2>1, <2>3 DEF PhaseOf, Tasks, PersistPhrase
  <2>5. Fits(edits, k)
    BY <1>1, <1>2, <1>3, <2>1, <2>4, TaskFits
  <2> HIDE DEF k
  <2> QED
    BY <1>12, <1>1, <1>2, <1>6, <2>2, <2>5 DEF PersistPhrase, pages, history
<1>13. ASSUME NEW h \in Handlers, SetNewSession(h) PROVE SessionInv'
  <2>1. /\ At(h, "session") /\ UNCHANGED <<walletStore, page, walletList, edits>>
        /\ sessionStore' = [wallet |-> handler[h].wallet, settings |-> Fresh]
    BY <1>13 DEF SetNewSession, pages, history
  <2>2. handler[h].wallet \in Wallets
    BY <1>8, <2>1 DEF PhaseOf
  <2>3. SoundOrNone(edits, sessionStore')
    BY <1>5, <2>1, <2>2 DEF SoundOrNone
  <2> QED
    BY <1>13, <1>1, <1>9, <2>1, <2>3 DEF SetNewSession
<1>14. ASSUME NEW h \in Handlers, DeleteList(h) PROVE SessionInv'
  <2> DEFINE t == handler[h]
             k == [t EXCEPT !.list = AllWallets, !.at = "select"]
  <2>1. /\ At(h, "list") /\ Fits(edits, t) /\ PhaseOf(t) /\ t.at = "list" /\ t \in Tasks
    BY <1>14, <1>8 DEF DeleteList
  <2>2. handler' = [handler EXCEPT ![h] = k]
    BY <1>14, <2>1, HandlerAt DEF DeleteList
  <2>3. /\ k.at = "select" /\ k.op = t.op
    BY <2>1 DEF Tasks
  <2>4. PhaseOf(k)
    BY <1>14, <2>1, <2>3 DEF PhaseOf, Tasks, DeleteList
  <2>5. Fits(edits, k)
    BY <1>1, <1>2, <1>3, <2>1, <2>4, TaskFits
  <2> HIDE DEF k
  <2> QED
    BY <1>14, <1>1, <1>2, <1>6, <2>2, <2>5 DEF DeleteList, stores, pages, history
<1>15. ASSUME NEW h \in Handlers, SelectFirst(h) PROVE SessionInv'
  <2> DEFINE t == handler[h]
             k == [t EXCEPT !.at = "reload", !.snap = NoSession, !.list = <<>>, !.value = 0]
  <2>1. /\ At(h, "select") /\ Fits(edits, t) /\ PhaseOf(t) /\ t.at = "select" /\ t \in Tasks
    BY <1>15, <1>8 DEF SelectFirst
  <2>2. handler' = [handler EXCEPT ![h] = k]
    BY <1>15, <2>1, HandlerAt DEF SelectFirst
  <2>3. /\ k.at = "reload" /\ k.op = t.op
    BY <2>1 DEF Tasks
  <2>4. PhaseOf(k)
    BY <1>15, <2>1, <2>3 DEF PhaseOf, Tasks, SelectFirst
  <2>5. Fits(edits, k)
    BY <1>1, <1>2, <1>3, <2>1, <2>4, TaskFits
  <2>6. SoundList(edits, walletList') /\ SoundOrNone(edits, sessionStore')
    <3>1. SoundList(edits, t.list)
      BY <1>8, <2>1
    <3>2. t.list # <<>> => Head(t.list) \in Range(t.list)
      BY <3>1 DEF SoundList, Range
    <3> QED
      BY <1>15, <1>1, <3>1, <3>2 DEF SelectFirst, SoundOrNone, SoundList
  <2> HIDE DEF k
  <2> QED
    BY <1>15, <1>1, <1>2, <1>6, <2>2, <2>5, <2>6 DEF SelectFirst, history
<1>16. ASSUME NEW h \in Handlers, Reload(h) PROVE SessionInv'
  <2> DEFINE t == handler[h]
             k == [t EXCEPT !.snap = sessionStore, !.at = "shown"]
  <2>1. /\ At(h, "reload") /\ Fits(edits, t) /\ PhaseOf(t) /\ t.at = "reload" /\ t \in Tasks
        /\ UNCHANGED <<walletStore, sessionStore, page, walletList, edits>>
    BY <1>16, <1>8 DEF Reload, stores, pages, history
  <2>2. CASE sessionStore = NoSession
    BY <1>16, <1>1, <1>9, <2>1, <2>2 DEF Reload
  <2>3. CASE sessionStore # NoSession
    <3>1. handler' = [handler EXCEPT ![h] = k]
      BY <1>16, <2>3 DEF Reload
    <3>2. k.at = "shown" /\ k.op = t.op
      BY <2>1 DEF Tasks
    <3>3. PhaseOf(k)
      BY <2>1, <3>2 DEF PhaseOf, Tasks
    <3>4. Fits(edits, k)
      BY <1>1, <2>1, <3>3, TaskFits
    <3> HIDE DEF k
    <3> QED
      BY <1>1, <1>6, <2>1, <3>1, <3>4
  <2> QED
    BY <2>2, <2>3
<1>17. ASSUME NEW h \in Handlers, DeleteShow(h) PROVE SessionInv'
  <2>1. /\ At(h, "shown") /\ UNCHANGED <<walletStore, sessionStore, walletList, edits>>
        /\ page' = handler[h].snap
    BY <1>17 DEF DeleteShow, stores, history
  <2> QED
    BY <1>17, <1>1, <1>8, <1>9, <2>1 DEF DeleteShow
<1>18. ASSUME NEW h \in Handlers, SwitchShow(h) PROVE SessionInv'
  <2>1. /\ At(h, "shown") /\ UNCHANGED <<walletStore, sessionStore, walletList, edits>>
        /\ page' = handler[h].snap
    BY <1>18 DEF SwitchShow, stores, history
  <2> QED
    BY <1>18, <1>1, <1>8, <1>9, <2>1 DEF SwitchShow
<1>19. ASSUME NEW h \in Handlers, ShowSession(h) PROVE SessionInv'
  <2>1. /\ At(h, "show") /\ UNCHANGED <<walletStore, sessionStore, walletList, edits>>
        /\ page' = handler[h].snap
    BY <1>19 DEF ShowSession, stores, history
  <2> QED
    BY <1>19, <1>1, <1>8, <1>9, <2>1 DEF ShowSession
<1>20. ASSUME NEW h \in Handlers, ToggleWrite(h) PROVE SessionInv'
  <2> DEFINE t == handler[h]
             k == [t EXCEPT !.at = "find", !.snap = NoSession, !.list = <<>>, !.value = 0]
  <2>1. /\ At(h, "write") /\ Fits(edits, t) /\ PhaseOf(t) /\ t.at = "write" /\ t \in Tasks
    BY <1>20, <1>8 DEF ToggleWrite
  <2>2. handler' = [handler EXCEPT ![h] = k]
    BY <1>20, <2>1, HandlerAt DEF ToggleWrite
  <2>3. /\ k.at = "find" /\ k.op = t.op
    BY <2>1 DEF Tasks
  <2>4. PhaseOf(k)
    BY <1>20, <2>1, <2>3 DEF PhaseOf, Tasks, ToggleWrite
  <2>5. Fits(edits, k)
    BY <1>1, <1>2, <1>3, <2>1, <2>4, TaskFits
  <2>6. SoundStore(edits, walletStore')
    <3> DEFINE s == [t.snap.settings EXCEPT !.memo = (t.value = 1)]
    <3>1. Sound(edits, t.snap) /\ t.snap.wallet = t.wallet
      BY <1>8, <2>1 DEF WritesWhatItRead
    <3>2. t.wallet \in Wallets /\ t.snap.settings \in Settings
      BY <3>1 DEF Sound, Sessions
    <3>a. (t.value = 1) \in BOOLEAN
      OBVIOUS
    <3>3. s \in Settings /\ s.node = t.snap.settings.node
      BY <3>2, <3>a DEF Settings
    <3>4. walletStore' = Upserted(walletStore, t.wallet, s)
      BY <1>20 DEF ToggleWrite, SaveWallet
    <3> HIDE DEF s
    <3>5. Sound(edits, [wallet |-> t.wallet, settings |-> s])
      BY <3>1, <3>2, <3>3 DEF Sound, Sessions
    <3> QED
      BY <1>1, <3>2, <3>4, <3>5, UpsertedStore
  <2> HIDE DEF k
  <2> QED
    BY <1>20, <1>1, <1>2, <1>6, <2>2, <2>5, <2>6 DEF ToggleWrite, pages, history
<1>21. ASSUME NEW h \in Handlers, EditForAll(h) PROVE SessionInv'
  <2> DEFINE t == handler[h]
             k == [t EXCEPT !.at = "find", !.snap = NoSession, !.list = <<>>, !.value = 0]
  <2>1. /\ At(h, "apply") /\ Fits(edits, t) /\ PhaseOf(t) /\ t.at = "apply" /\ t \in Tasks
    BY <1>21, <1>8 DEF EditForAll
  <2>2. handler' = [handler EXCEPT ![h] = k]
    BY <1>21, <2>1, HandlerAt DEF EditForAll
  <2>3. /\ k.at = "find" /\ k.op = t.op
    BY <2>1 DEF Tasks
  <2>4. PhaseOf(k)
    BY <1>21, <2>1, <2>3 DEF PhaseOf, Tasks, EditForAll
  <2>5. Fits(edits, k)
    BY <1>1, <1>2, <1>3, <2>1, <2>4, TaskFits
  <2>6. SoundStore(edits, walletStore')
    <3>1. /\ t.op = "settings" /\ t.value \in 1 .. Len(edits) /\ edits[t.value] = t.wallet
          /\ t.wallet \in Wallets
      BY <1>8, <2>1 DEF WritesWhatItRead, PhaseOf
    <3> QED
      BY <1>21, <3>1, NodeForAllStore DEF EditForAll
  <2> HIDE DEF k
  <2> QED
    BY <1>21, <1>1, <1>2, <1>6, <2>2, <2>5, <2>6 DEF EditForAll, pages, history
<1>22. \A h \in Handlers: handler[h] \in Tasks /\ WritesWhatItRead(edits, handler[h]) /\ handler[h].at \in {"apply", "write"} /\ handler[h].op = "settings" =>
        Sound(edits, [wallet |-> handler[h].wallet, settings |-> EditedWallet(h)]) /\ handler[h].wallet \in Wallets
  <2> SUFFICES ASSUME NEW h \in Handlers, handler[h] \in Tasks, WritesWhatItRead(edits, handler[h]),
                      handler[h].at \in {"apply", "write"}, handler[h].op = "settings"
               PROVE  Sound(edits, [wallet |-> handler[h].wallet, settings |-> EditedWallet(h)])
                      /\ handler[h].wallet \in Wallets
    OBVIOUS
  <2> DEFINE t == handler[h]
             s == EditedWallet(h)
  <2>1. /\ Sound(edits, t.snap) /\ t.snap.wallet = t.wallet
        /\ t.value \in 1 .. Len(edits) /\ edits[t.value] = t.wallet
    BY DEF WritesWhatItRead
  <2>2. t.wallet \in Wallets /\ t.snap.settings \in Settings
    BY <2>1 DEF Sound, Sessions
  <2>3. t.value \in 0 .. MaxEdits /\ t.value <= Len(edits)
    BY <1>1, <2>1
  <2>4. s \in Settings /\ s.node = t.value
    BY <2>2, <2>3 DEF Settings, EditedWallet
  <2> HIDE DEF s
  <2>5. Sound(edits, [wallet |-> t.wallet, settings |-> s])
    BY <2>1, <2>2, <2>3, <2>4 DEF Sound, Sessions
  <2> QED
    BY <2>2, <2>5 DEF s
<1>23. ASSUME NEW h \in Handlers, EditSession(h) PROVE SessionInv'
  <2> DEFINE t == handler[h]
             k == [t EXCEPT !.at = "write"]
  <2>1. /\ At(h, "apply") /\ Fits(edits, t) /\ PhaseOf(t) /\ t.at = "apply" /\ t \in Tasks
    BY <1>23, <1>8 DEF EditSession
  <2>2. handler' = [handler EXCEPT ![h] = k]
    BY <1>23, <2>1, HandlerAt DEF EditSession
  <2>3. /\ k.at = "write" /\ k.op = t.op
    BY <2>1 DEF Tasks
  <2>4. PhaseOf(k)
    BY <1>23, <2>1, <2>3 DEF PhaseOf, Tasks, EditSession
  <2>5. Fits(edits, k)
    BY <1>1, <1>2, <1>3, <2>1, <2>4, TaskFits
  <2>6. SoundOrNone(edits, sessionStore')
    BY <1>23, <1>8, <2>1, <1>22 DEF EditSession, SoundOrNone, PhaseOf
  <2> HIDE DEF k
  <2> QED
    BY <1>23, <1>1, <1>2, <1>6, <2>2, <2>5, <2>6 DEF EditSession, pages, history
<1>24. ASSUME NEW h \in Handlers, EditWrite(h) PROVE SessionInv'
  <2> DEFINE t == handler[h]
             k == [t EXCEPT !.at = "find", !.snap = NoSession, !.list = <<>>, !.value = 0]
  <2>1. /\ At(h, "write") /\ Fits(edits, t) /\ PhaseOf(t) /\ t.at = "write" /\ t \in Tasks
    BY <1>24, <1>8 DEF EditWrite
  <2>2. handler' = [handler EXCEPT ![h] = k]
    BY <1>24, <2>1, HandlerAt DEF EditWrite
  <2>3. /\ k.at = "find" /\ k.op = t.op
    BY <2>1 DEF Tasks
  <2>4. PhaseOf(k)
    BY <1>24, <2>1, <2>3 DEF PhaseOf, Tasks, EditWrite
  <2>5. Fits(edits, k)
    BY <1>1, <1>2, <1>3, <2>1, <2>4, TaskFits
  <2>6. SoundStore(edits, walletStore')
    BY <1>24, <1>1, <1>8, <2>1, <1>22, UpsertedStore DEF EditWrite, SaveWallet
  <2> HIDE DEF k
  <2> QED
    BY <1>24, <1>1, <1>2, <1>6, <2>2, <2>5, <2>6 DEF EditWrite, pages, history
<1>25. ASSUME NEW h \in Handlers, FindUpdated(h) PROVE SessionInv'
  <2> DEFINE t == handler[h]
             next == IF t.op = "settings" THEN "both" ELSE "store"
             k == [t EXCEPT !.snap = Found(t.wallet), !.at = next]
  <2>1. /\ At(h, "find") /\ Fits(edits, t) /\ PhaseOf(t) /\ t.at = "find" /\ t \in Tasks
        /\ t.op \in {"toggle", "propagate", "settings"}
        /\ UNCHANGED <<walletStore, sessionStore, page, walletList, edits>>
    BY <1>25, <1>8 DEF FindUpdated, stores, pages, history, PhaseOf
  <2>2. handler' = [handler EXCEPT ![h] = k]
    BY <1>25 DEF FindUpdated
  <2>a. next \in {"both", "store"} /\ (next = "both" <=> t.op = "settings")
    OBVIOUS
  <2> HIDE DEF next
  <2>3. k.at = next /\ k.op = t.op
    BY <2>1 DEF Tasks
  <2>4. PhaseOf(k)
    BY <2>1, <2>3, <2>a DEF PhaseOf
  <2>5. Fits(edits, k)
    BY <1>3, <2>1, <2>4, <2>a, TaskFits
  <2> HIDE DEF k
  <2> QED
    BY <1>1, <1>6, <2>1, <2>2, <2>5
<1>26. ASSUME NEW h \in Handlers, StoreSession(h) PROVE SessionInv'
  <2> DEFINE t == handler[h]
             k == [t EXCEPT !.at = "show"]
  <2>1. /\ At(h, "store") /\ Fits(edits, t) /\ PhaseOf(t) /\ t.at = "store" /\ t \in Tasks
    BY <1>26, <1>8 DEF StoreSession
  <2>2. handler' = [handler EXCEPT ![h] = k]
    BY <1>26, <2>1, HandlerAt DEF StoreSession
  <2>3. /\ k.at = "show" /\ k.op = t.op
    BY <2>1 DEF Tasks
  <2>4. PhaseOf(k)
    BY <1>26, <2>1, <2>3 DEF PhaseOf, Tasks, StoreSession
  <2>5. Fits(edits, k)
    BY <1>1, <1>2, <1>3, <2>1, <2>4, TaskFits
  <2>6. SoundOrNone(edits, sessionStore')
    BY <1>26, <1>8, <2>1 DEF StoreSession
  <2> HIDE DEF k
  <2> QED
    BY <1>26, <1>1, <1>2, <1>6, <2>2, <2>5, <2>6 DEF StoreSession, pages, history
<1>27. ASSUME NEW h \in Handlers, ShowAndStore(h) PROVE SessionInv'
  <2> DEFINE t == handler[h]
             k == [t EXCEPT !.at = "all", !.snap = NoSession, !.list = <<>>, !.value = 0]
  <2>1. /\ At(h, "both") /\ Fits(edits, t) /\ PhaseOf(t) /\ t.at = "both" /\ t \in Tasks
    BY <1>27, <1>8 DEF ShowAndStore
  <2>2. handler' = [handler EXCEPT ![h] = k]
    BY <1>27, <2>1, HandlerAt DEF ShowAndStore
  <2>3. /\ k.at = "all" /\ k.op = t.op
    BY <2>1 DEF Tasks
  <2>4. PhaseOf(k)
    BY <1>27, <2>1, <2>3 DEF PhaseOf, Tasks, ShowAndStore
  <2>5. Fits(edits, k)
    BY <1>1, <1>2, <1>3, <2>1, <2>4, TaskFits
  <2>6. SoundOrNone(edits, sessionStore') /\ SoundOrNone(edits, page')
    BY <1>27, <1>8, <2>1 DEF ShowAndStore
  <2> HIDE DEF k
  <2> QED
    BY <1>27, <1>1, <1>2, <1>6, <2>2, <2>5, <2>6 DEF ShowAndStore, history
<1>28. ASSUME NEW h \in Handlers, ReadList(h) PROVE SessionInv'
  <2> DEFINE t == handler[h]
             k == [t EXCEPT !.list = AllWallets, !.at = "refill"]
  <2>1. /\ At(h, "all") /\ Fits(edits, t) /\ PhaseOf(t) /\ t.at = "all" /\ t \in Tasks
    BY <1>28, <1>8 DEF ReadList
  <2>2. handler' = [handler EXCEPT ![h] = k]
    BY <1>28, <2>1, HandlerAt DEF ReadList
  <2>3. /\ k.at = "refill" /\ k.op = t.op
    BY <2>1 DEF Tasks
  <2>4. PhaseOf(k)
    BY <1>28, <2>1, <2>3 DEF PhaseOf, Tasks, ReadList
  <2>5. Fits(edits, k)
    BY <1>1, <1>2, <1>3, <2>1, <2>4, TaskFits
  <2> HIDE DEF k
  <2> QED
    BY <1>28, <1>1, <1>2, <1>6, <2>2, <2>5 DEF ReadList, stores, pages, history
<1>29. ASSUME NEW h \in Handlers, ShowList(h) PROVE SessionInv'
  <2>1. /\ At(h, "refill") /\ UNCHANGED <<walletStore, sessionStore, page, edits>>
        /\ walletList' = handler[h].list
    BY <1>29 DEF ShowList, stores, history
  <2> QED
    BY <1>29, <1>1, <1>8, <1>9, <2>1 DEF ShowList
<1>30. ASSUME NEW h \in Handlers, MigratedSession(h) PROVE SessionInv'
  <2>1. /\ At(h, "migrated") /\ UNCHANGED <<walletStore, page, walletList, edits>>
        /\ sessionStore' \in {handler[h].snap, sessionStore}
    BY <1>30 DEF MigratedSession, pages, history
  <2> QED
    BY <1>30, <1>1, <1>8, <1>9, <2>1 DEF MigratedSession
<1>31. ASSUME NEW h \in Handlers, MountHome(h) PROVE SessionInv'
  <2>1. UNCHANGED <<walletStore, sessionStore, page, walletList, edits>>
    BY <1>31 DEF MountHome, stores
  <2>2. CASE sessionStore = NoSession
    BY <1>31, <1>1, <1>7, <2>1, <2>2 DEF MountHome
  <2>3. CASE sessionStore # NoSession
    <3>1. handler' = [handler EXCEPT ![h] = [Started("start", "wallets", NoWallet) EXCEPT !.snap = sessionStore]]
      BY <1>31, <2>3 DEF MountHome, Begin
    <3>2. sessionStore \in Sessions /\ sessionStore.wallet \in Wallets
      BY <1>1, <2>3 DEF SoundOrNone, Sound, Sessions
    <3>3. Fits(edits, [Started("start", "wallets", NoWallet) EXCEPT !.snap = sessionStore])
      BY <1>1, <3>2, ReadersFit
    <3> QED
      BY <1>1, <1>6, <2>1, <3>1, <3>3
  <2> QED
    BY <2>2, <2>3
<1>32. ASSUME NEW h \in Handlers, NEW w \in Wallets, CreateWallet(h, w) PROVE SessionInv'
  <2>1. /\ handler' = [handler EXCEPT ![h] = Started("create", "seed", w)]
        /\ walletStore' = Upserted(walletStore, w, Fresh)
        /\ UNCHANGED <<sessionStore, page, walletList, edits>>
    BY <1>32 DEF CreateWallet, Begin, SaveWallet
  <2>2. Fits(edits, Started("create", "seed", w))
    BY <1>1, ReadersFit
  <2>3. SoundStore(edits, walletStore')
    BY <1>1, <1>5, <2>1, UpsertedStore
  <2> QED
    BY <1>1, <1>6, <2>1, <2>2, <2>3
<1>33. ASSUME NEW h \in Handlers, SubmitDelete(h) PROVE SessionInv'
  <2>1. /\ handler' = [handler EXCEPT ![h] = Started("delete", "list", page.wallet)]
        /\ walletStore' = Restrict(walletStore, Stored \ {page.wallet})
        /\ UNCHANGED <<sessionStore, page, walletList, edits>> /\ page # NoSession
    BY <1>33 DEF SubmitDelete, Begin, pages, MayDelete
  <2>2. Fits(edits, Started("delete", "list", page.wallet))
    BY <1>1, <1>4, <2>1, ReadersFit
  <2>3. SoundStore(edits, walletStore')
    <3> DEFINE left == Stored \ {page.wallet}
    <3>1. /\ walletStore' = [w \in left |-> walletStore[w]] /\ left \subseteq DOMAIN walletStore
      BY <2>1 DEF Restrict, Stored
    <3>a. walletStore \in [DOMAIN walletStore -> Settings]
      BY <1>1 DEF SoundStore
    <3> HIDE DEF left
    <3>2. walletStore' \in [left -> Settings] /\ DOMAIN walletStore' = left
      BY <3>1, <3>a
    <3>3. \A w \in left: Of(walletStore', w) = Of(walletStore, w)
      BY <3>1 DEF Of
    <3> QED
      BY <1>1, <3>1, <3>2, <3>3 DEF SoundStore
  <2> QED
    BY <1>1, <1>6, <2>1, <2>2, <2>3
<1>34. ASSUME NEW h \in Handlers, NEW row \in DOMAIN walletList, NEW searched \in BOOLEAN, Switch(h, row, searched) PROVE SessionInv'
  <2> DEFINE v == IF searched THEN 1 ELSE 0
             w == walletList[row].wallet
  <2>1. /\ handler' = [handler EXCEPT ![h] = [Started("switch", "reload", w) EXCEPT !.value = v]]
        /\ sessionStore' = walletList[Key(row, searched)]
        /\ UNCHANGED <<walletStore, page, walletList, edits>>
    BY <1>34 DEF Switch, Begin, pages
  <2>2. 1 \in DOMAIN walletList /\ Key(row, searched) \in DOMAIN walletList
    <3>1. DOMAIN walletList = 1 .. Len(walletList) /\ Len(walletList) \in Nat
      BY <1>1 DEF SoundList
    <3> QED
      BY <3>1 DEF Key
  <2>3. \A i \in DOMAIN walletList: Sound(edits, walletList[i]) /\ walletList[i].wallet \in Wallets
    BY <1>1 DEF SoundList, Range, Sound, Sessions
  <2>4. v \in {0, 1} /\ w \in Wallets
    BY <2>3
  <2> HIDE DEF v, w
  <2>5. Fits(edits, [Started("switch", "reload", w) EXCEPT !.value = v])
    BY <1>1, <2>4, ReadersFit
  <2>6. SoundOrNone(edits, sessionStore')
    BY <2>1, <2>2, <2>3 DEF SoundOrNone
  <2> QED
    BY <1>1, <1>6, <2>1, <2>5, <2>6
<1>35. ASSUME NEW h \in Handlers, NEW on \in BOOLEAN, Toggle(h, on) PROVE SessionInv'
  <2> DEFINE v == IF on THEN 1 ELSE 0
             s == Found(page.wallet)
  <2>1. /\ handler' = [handler EXCEPT ![h] = [Started("toggle", "write", page.wallet) EXCEPT !.snap = s, !.value = v]]
        /\ UNCHANGED <<walletStore, sessionStore, page, walletList, edits>> /\ page.wallet \in Stored
    BY <1>35 DEF Toggle, Begin, EditUnchanged, pages
  <2>2. Sound(edits, s) /\ s.wallet = page.wallet /\ v \in {0, 1}
    BY <1>3, <2>1
  <2> HIDE DEF v, s
  <2>3. Fits(edits, [Started("toggle", "write", page.wallet) EXCEPT !.snap = s, !.value = v])
    BY <1>1, <2>2, WritersFit
  <2> QED
    BY <1>1, <1>6, <2>1, <2>3
<1>36. ASSUME NEW h \in Handlers, NEW on \in BOOLEAN, Propagate(h, on) PROVE SessionInv'
  <2>1. /\ handler' = [handler EXCEPT ![h] = Started("propagate", "find", page.wallet)]
        /\ walletStore' = Propagated(walletStore, page.wallet, on)
        /\ UNCHANGED <<sessionStore, page, walletList, edits>> /\ page # NoSession
    BY <1>36 DEF Propagate, Begin, EditUnchanged, pages, Click
  <2>2. Fits(edits, Started("propagate", "find", page.wallet))
    BY <1>1, <1>4, <2>1, ReadersFit
  <2>3. SoundStore(edits, walletStore')
    BY <1>1, <2>1, PropagatedStore
  <2> QED
    BY <1>1, <1>6, <2>1, <2>2, <2>3
<1>37. ASSUME NEW h \in Handlers, EditNode(h) PROVE SessionInv'
  <2> DEFINE s == Found(page.wallet)
             n == Len(edits) + 1
  <2>1. /\ handler' = [handler EXCEPT ![h] = [Started("settings", "apply", page.wallet) EXCEPT !.snap = s, !.value = n]]
        /\ UNCHANGED <<walletStore, sessionStore, page, walletList>> /\ page.wallet \in Stored
        /\ edits' = Append(edits, page.wallet) /\ Len(edits) < MaxEdits /\ page.wallet \in Wallets
    BY <1>37, <1>4 DEF EditNode, Begin, EditUnchanged, pages, Click
  <2>2. Sound(edits, s) /\ s.wallet = page.wallet
    BY <1>3, <2>1
  <2>3. /\ edits' \in Seq(Wallets) /\ Len(edits') = n /\ edits'[n] = page.wallet
        /\ n \in 1 .. n /\ n <= MaxEdits
    BY <1>1, <2>1, OneMoreEdit
  <2>4. /\ Sound(edits', s) /\ SoundStore(edits', walletStore') /\ SoundOrNone(edits', sessionStore')
        /\ SoundOrNone(edits', page') /\ SoundList(edits', walletList')
    BY <1>1, <2>1, <2>2, OneMoreEdit
  <2> HIDE DEF s, n
  <2>5. Fits(edits', [Started("settings", "apply", page.wallet) EXCEPT !.snap = s, !.value = n])
    BY <2>2, <2>3, <2>4, WritersFit
  <2> QED
    BY <2>1, <2>3, <2>4, <2>5, OneHandlerMoves
<1>38. ASSUME NEW h \in Handlers, EditAsset(h) PROVE SessionInv'
  <2> DEFINE t == [Started("asset", "both", page.wallet) EXCEPT !.snap = Found(page.wallet)]
  <2>1. /\ handler' = [handler EXCEPT ![h] = t] /\ page # NoSession
        /\ UNCHANGED <<walletStore, page, walletList, edits>> /\ sessionStore' \in {sessionStore, page}
    BY <1>38 DEF EditAsset, Begin, Click, stores, pages
  <2>2. Fits(edits, t)
    BY <1>1, <1>3, <1>4, <2>1, ReadersFit
  <2> HIDE DEF t
  <2> QED
    BY <1>1, <1>6, <2>1, <2>2
<1>39. ASSUME NEW h \in Handlers, SwitchCurrency(h) PROVE SessionInv'
  <2> DEFINE t == [Started("currency", "show", page.wallet) EXCEPT !.snap = page]
  <2>1. /\ handler' = [handler EXCEPT ![h] = t] /\ page # NoSession
        /\ UNCHANGED <<walletStore, page, walletList, edits>> /\ sessionStore' \in {sessionStore, page}
    BY <1>39 DEF SwitchCurrency, Begin, Click, pages
  <2>2. Fits(edits, t)
    BY <1>1, <1>3, <1>4, <2>1, ReadersFit
  <2> HIDE DEF t
  <2> QED
    BY <1>1, <1>6, <2>1, <2>2
<1>40. ASSUME NEW h \in Handlers, Migrate(h) PROVE SessionInv'
  <2> DEFINE t == [Started("migrate", "migrated", page.wallet) EXCEPT !.snap = page]
  <2>1. /\ handler' = [handler EXCEPT ![h] = t] /\ page # NoSession
        /\ UNCHANGED <<walletStore, page, walletList, edits>> /\ sessionStore' \in {sessionStore, page}
    BY <1>40 DEF Migrate, Begin, Click, stores, pages
  <2>2. Fits(edits, t)
    BY <1>1, <1>3, <1>4, <2>1, ReadersFit
  <2> HIDE DEF t
  <2> QED
    BY <1>1, <1>6, <2>1, <2>2
<1>41. CASE OpenDialog \/ TickDeletion \/ ConfirmDeletion \/ CancelDialog \/ CloseDeleted
  BY <1>41, <1>1, <1>7 DEF OpenDialog, TickDeletion, ConfirmDeletion, CancelDialog, CloseDeleted,
                        DialogUnchanged, stores
<1>42. CASE SelectAsset
  BY <1>42, <1>1, <1>7 DEF SelectAsset, pages
<1>43. CASE Crash
  <2>1. /\ handler' = [h \in Handlers |-> Idle] /\ page' = NoSession /\ walletList' = <<>>
        /\ UNCHANGED <<walletStore, sessionStore, edits>>
    BY <1>43 DEF Crash, stores
  <2> QED
    BY <1>1, <2>1 DEF SessionInv
<1> QED
  BY <1>10, <1>11, <1>12, <1>13, <1>14, <1>15, <1>16, <1>17, <1>18, <1>19, <1>20, <1>21, <1>23, <1>24, <1>25, <1>26, <1>27, <1>28,
     <1>29, <1>30, <1>31, <1>32, <1>33, <1>34, <1>35, <1>36, <1>37, <1>38, <1>39, <1>40, <1>41, <1>42, <1>43
     DEF Next, HandlerStep, UserStep

(* What a handler does to the phrases, the wallets stored and the deletion dialog. *)
Moves(h, t) ==
  /\ handler' = [handler EXCEPT ![h] = t]
  /\ t = Idle \/ (/\ t.op = handler[h].op /\ t.wallet = handler[h].wallet /\ t.at # "seed"
                  /\ t.at \in {"apply", "write"} => handler[h].at = "apply")
  /\ seedStore \subseteq seedStore'
  /\ handler[h].at = "seed" => handler[h].wallet \in seedStore'
  /\ \A w \in Stored': w \in Stored \/ (w = handler[h].wallet /\ handler[h].at = "write")
  /\ UNCHANGED <<interrupted, home>>
  /\ \/ /\ UNCHANGED <<dialog, deletion, quietDialog>>
        /\ UNCHANGED page \/ handler[h].op # "delete"
     \/ dialog' = NoWallet /\ deletion' = "done" /\ ~quietDialog'

(* The steps of the handlers are such moves. *)
LEMMA HandlerMoves ==
  ASSUME SessionInv, NEW h \in Handlers, HandlerStep(h)
  PROVE  h \in Busy /\ \E t: Moves(h, t)
<1> DEFINE k == handler[h]
<1>1. ASSUME NEW step, At(h, step)
      PROVE  h \in Busy /\ k \in Tasks /\ k.at = step /\ PhaseOf(k)
  BY <1>1, HandlerAt DEF Fits
(* A handler that is done, and one that goes on. *)
<1>2. ASSUME NEW step, At(h, step), step # "seed", Finish(h), seedStore \subseteq seedStore',
             UNCHANGED <<walletStore, interrupted, home>>,
             \/ /\ UNCHANGED <<dialog, deletion, quietDialog>>
                /\ UNCHANGED page \/ k.op # "delete"
             \/ dialog' = NoWallet /\ deletion' = "done" /\ ~quietDialog'
      PROVE  h \in Busy /\ \E t: Moves(h, t)
  <2>1. Moves(h, Idle)
    BY <1>1, <1>2, HandlerAt DEF Moves, Stored
  <2> QED
    BY <1>1, <1>2, <2>1
<1>3. ASSUME NEW t, NEW step, At(h, step),
             handler' = [handler EXCEPT ![h] = t], t.op = k.op, t.wallet = k.wallet,
             t.at \notin {"seed", "apply"}, t.at = "write" => step = "apply",
             seedStore \subseteq seedStore', step = "seed" => k.wallet \in seedStore',
             \A w \in Stored': w \in Stored \/ (w = k.wallet /\ step = "write"),
             UNCHANGED <<interrupted, home, dialog, deletion, quietDialog>>,
             UNCHANGED page \/ k.op # "delete"
      PROVE  h \in Busy /\ \E u: Moves(h, u)
  <2>1. Moves(h, t)
    BY <1>1, <1>3 DEF Moves
  <2> QED
    BY <1>1, <1>3, <2>1
<1>4. CASE MountWallets(h)
  <2> DEFINE t == [k EXCEPT !.list = AllWallets, !.at = "mount"]
  <2>1. At(h, "wallets") /\ k \in Tasks /\ k.at = "wallets" /\ PhaseOf(k) /\ handler' = [handler EXCEPT ![h] = t]
    BY <1>4, <1>1, HandlerAt DEF MountWallets
  <2>2. t.op = k.op /\ t.wallet = k.wallet /\ t.at = "mount"
    BY <2>1 DEF Tasks
  <2> HIDE DEF t
  <2> QED
    BY <1>4, <1>3, <2>1, <2>2 DEF MountWallets, stores, pages, history, Stored
<1>5. CASE MountShow(h)
  <2>1. At(h, "mount") /\ Finish(h)
    BY <1>5 DEF MountShow
  <2> QED
    BY <1>5, <1>1, <1>2, <2>1 DEF MountShow, stores, history, PhaseOf
<1>6. CASE PersistPhrase(h)
  <2> DEFINE t == [k EXCEPT !.at = "session", !.snap = NoSession, !.list = <<>>, !.value = 0]
  <2>1. At(h, "seed") /\ k \in Tasks /\ k.at = "seed" /\ PhaseOf(k) /\ handler' = [handler EXCEPT ![h] = t]
    BY <1>6, <1>1, HandlerAt DEF PersistPhrase
  <2>2. t.op = k.op /\ t.wallet = k.wallet /\ t.at = "session"
    BY <2>1 DEF Tasks
  <2> HIDE DEF t
  <2> QED
    BY <1>6, <1>3, <2>1, <2>2 DEF PersistPhrase, pages, history, Stored
<1>7. CASE SetNewSession(h)
  <2>1. At(h, "session") /\ Finish(h)
    BY <1>7 DEF SetNewSession
  <2> QED
    BY <1>7, <1>1, <1>2, <2>1 DEF SetNewSession, pages, history
<1>8. CASE DeleteList(h)
  <2> DEFINE t == [k EXCEPT !.list = AllWallets, !.at = "select"]
  <2>1. At(h, "list") /\ k \in Tasks /\ k.at = "list" /\ PhaseOf(k) /\ handler' = [handler EXCEPT ![h] = t]
    BY <1>8, <1>1, HandlerAt DEF DeleteList
  <2>2. t.op = k.op /\ t.wallet = k.wallet /\ t.at = "select"
    BY <2>1 DEF Tasks
  <2> HIDE DEF t
  <2> QED
    BY <1>8, <1>3, <2>1, <2>2 DEF DeleteList, stores, pages, history, Stored
<1>9. CASE SelectFirst(h)
  <2> DEFINE t == [k EXCEPT !.at = "reload", !.snap = NoSession, !.list = <<>>, !.value = 0]
  <2>1. At(h, "select") /\ k \in Tasks /\ k.at = "select" /\ PhaseOf(k) /\ handler' = [handler EXCEPT ![h] = t]
    BY <1>9, <1>1, HandlerAt DEF SelectFirst
  <2>2. t.op = k.op /\ t.wallet = k.wallet /\ t.at = "reload"
    BY <2>1 DEF Tasks
  <2> HIDE DEF t
  <2> QED
    BY <1>9, <1>3, <2>1, <2>2 DEF SelectFirst, history, Stored
<1>10. CASE Reload(h)
  <2> DEFINE t == [k EXCEPT !.snap = sessionStore, !.at = "shown"]
  <2>1. At(h, "reload") /\ k \in Tasks
    BY <1>10, <1>1 DEF Reload
  <2>2. CASE sessionStore = NoSession
    BY <1>10, <1>2, <2>1, <2>2 DEF Reload, stores, pages, history
  <2>3. CASE sessionStore # NoSession
    <3>1. t.op = k.op /\ t.wallet = k.wallet /\ t.at = "shown"
      BY <2>1 DEF Tasks
    <3>2. handler' = [handler EXCEPT ![h] = t]
      BY <1>10, <2>3 DEF Reload
    <3> HIDE DEF t
    <3> QED
      BY <1>10, <1>3, <2>1, <3>1, <3>2 DEF Reload, stores, pages, history, Stored
  <2> QED
    BY <2>2, <2>3
<1>11. CASE DeleteShow(h)
  <2>1. At(h, "shown") /\ Finish(h)
    BY <1>11 DEF DeleteShow
  <2> QED
    BY <1>11, <1>1, <1>2, <2>1 DEF DeleteShow, stores, history
<1>12. CASE SwitchShow(h)
  <2>1. At(h, "shown") /\ Finish(h)
    BY <1>12 DEF SwitchShow
  <2> QED
    BY <1>12, <1>1, <1>2, <2>1 DEF SwitchShow, stores, history
<1>13. CASE ToggleWrite(h)
  <2> DEFINE t == [k EXCEPT !.at = "find", !.snap = NoSession, !.list = <<>>, !.value = 0]
  <2>1. At(h, "write") /\ k \in Tasks /\ k.at = "write" /\ PhaseOf(k) /\ handler' = [handler EXCEPT ![h] = t]
    BY <1>13, <1>1, HandlerAt DEF ToggleWrite
  <2>2. t.op = k.op /\ t.wallet = k.wallet /\ t.at = "find"
    BY <2>1 DEF Tasks
  <2>3. \A w \in Stored': w \in Stored \/ w = k.wallet
    BY <1>13 DEF ToggleWrite, SaveWallet, Upserted, Stored
  <2> HIDE DEF t
  <2> QED
    BY <1>13, <1>3, <2>1, <2>2, <2>3 DEF ToggleWrite, pages, history
<1>14. CASE EditForAll(h)
  <2> DEFINE t == [k EXCEPT !.at = "find", !.snap = NoSession, !.list = <<>>, !.value = 0]
  <2>1. At(h, "apply") /\ k \in Tasks /\ k.at = "apply" /\ PhaseOf(k) /\ handler' = [handler EXCEPT ![h] = t]
    BY <1>14, <1>1, HandlerAt DEF EditForAll
  <2>2. t.op = k.op /\ t.wallet = k.wallet /\ t.at = "find"
    BY <2>1 DEF Tasks
  <2>3. Stored' = Stored
    BY <1>14 DEF EditForAll, NodeForAll, Stored
  <2> HIDE DEF t
  <2> QED
    BY <1>14, <1>3, <2>1, <2>2, <2>3 DEF EditForAll, pages, history
<1>15. CASE EditSession(h)
  <2> DEFINE t == [k EXCEPT !.at = "write"]
  <2>1. At(h, "apply") /\ k \in Tasks /\ k.at = "apply" /\ PhaseOf(k) /\ handler' = [handler EXCEPT ![h] = t]
    BY <1>15, <1>1, HandlerAt DEF EditSession
  <2>2. t.op = k.op /\ t.wallet = k.wallet /\ t.at = "write"
    BY <2>1 DEF Tasks
  <2> HIDE DEF t
  <2> QED
    BY <1>15, <1>3, <2>1, <2>2 DEF EditSession, pages, history, Stored
<1>16. CASE EditWrite(h)
  <2> DEFINE t == [k EXCEPT !.at = "find", !.snap = NoSession, !.list = <<>>, !.value = 0]
  <2>1. At(h, "write") /\ k \in Tasks /\ k.at = "write" /\ PhaseOf(k) /\ handler' = [handler EXCEPT ![h] = t]
    BY <1>16, <1>1, HandlerAt DEF EditWrite
  <2>2. t.op = k.op /\ t.wallet = k.wallet /\ t.at = "find"
    BY <2>1 DEF Tasks
  <2>3. \A w \in Stored': w \in Stored \/ w = k.wallet
    BY <1>16 DEF EditWrite, SaveWallet, Upserted, Stored
  <2> HIDE DEF t
  <2> QED
    BY <1>16, <1>3, <2>1, <2>2, <2>3 DEF EditWrite, pages, history
<1>17. CASE FindUpdated(h)
  <2> DEFINE next == IF k.op = "settings" THEN "both" ELSE "store"
             t == [k EXCEPT !.snap = Found(k.wallet), !.at = next]
  <2>1. At(h, "find") /\ k \in Tasks /\ handler' = [handler EXCEPT ![h] = t]
    BY <1>17, <1>1 DEF FindUpdated
  <2>2. next \in {"both", "store"}
    OBVIOUS
  <2> HIDE DEF next
  <2>3. t.op = k.op /\ t.wallet = k.wallet /\ t.at = next
    BY <2>1 DEF Tasks
  <2> HIDE DEF t
  <2> QED
    BY <1>17, <1>3, <2>1, <2>2, <2>3 DEF FindUpdated, stores, pages, history, Stored
<1>18. CASE StoreSession(h)
  <2> DEFINE t == [k EXCEPT !.at = "show"]
  <2>1. At(h, "store") /\ k \in Tasks /\ k.at = "store" /\ PhaseOf(k) /\ handler' = [handler EXCEPT ![h] = t]
    BY <1>18, <1>1, HandlerAt DEF StoreSession
  <2>2. t.op = k.op /\ t.wallet = k.wallet /\ t.at = "show"
    BY <2>1 DEF Tasks
  <2> HIDE DEF t
  <2> QED
    BY <1>18, <1>3, <2>1, <2>2 DEF StoreSession, pages, history, Stored
<1>19. CASE ShowSession(h)
  <2>1. At(h, "show") /\ Finish(h)
    BY <1>19 DEF ShowSession
  <2> QED
    BY <1>19, <1>1, <1>2, <2>1 DEF ShowSession, stores, history, PhaseOf
<1>20. CASE ShowAndStore(h)
  <2> DEFINE t == [k EXCEPT !.at = "all", !.snap = NoSession, !.list = <<>>, !.value = 0]
  <2>1. At(h, "both") /\ k \in Tasks /\ k.at = "both" /\ PhaseOf(k) /\ handler' = [handler EXCEPT ![h] = t]
    BY <1>20, <1>1, HandlerAt DEF ShowAndStore
  <2>2. t.op = k.op /\ t.wallet = k.wallet /\ t.at = "all"
    BY <2>1 DEF Tasks
  <2> HIDE DEF t
  <2> QED
    BY <1>20, <1>3, <2>1, <2>2 DEF ShowAndStore, history, Stored, PhaseOf
<1>21. CASE ReadList(h)
  <2> DEFINE t == [k EXCEPT !.list = AllWallets, !.at = "refill"]
  <2>1. At(h, "all") /\ k \in Tasks /\ k.at = "all" /\ PhaseOf(k) /\ handler' = [handler EXCEPT ![h] = t]
    BY <1>21, <1>1, HandlerAt DEF ReadList
  <2>2. t.op = k.op /\ t.wallet = k.wallet /\ t.at = "refill"
    BY <2>1 DEF Tasks
  <2> HIDE DEF t
  <2> QED
    BY <1>21, <1>3, <2>1, <2>2 DEF ReadList, stores, pages, history, Stored
<1>22. CASE ShowList(h)
  <2>1. At(h, "refill") /\ Finish(h)
    BY <1>22 DEF ShowList
  <2> QED
    BY <1>22, <1>1, <1>2, <2>1 DEF ShowList, stores, history
<1>23. CASE MigratedSession(h)
  <2>1. At(h, "migrated") /\ Finish(h)
    BY <1>23 DEF MigratedSession
  <2> QED
    BY <1>23, <1>1, <1>2, <2>1 DEF MigratedSession, pages, history
<1> QED
  BY <1>4, <1>5, <1>6, <1>7, <1>8, <1>9, <1>10, <1>11, <1>12, <1>13, <1>14, <1>15,
     <1>16, <1>17, <1>18, <1>19, <1>20, <1>21, <1>22, <1>23 DEF HandlerStep

(* What a task that is begun has to do with them. *)
Begins(h, t) ==
  /\ h \notin Busy /\ handler' = [handler EXCEPT ![h] = t] /\ t # Idle
  /\ t.at \in {"apply", "write"} => t.wallet \in Stored
  /\ \A w \in Stored': w \in Stored \/ (w = t.wallet /\ t.at = "seed")
  /\ t.op = "delete" \/ (home = "away" /\ home' = "mounted") \/ (deletion = "closed" /\ home' \in {home, "away"})
  /\ t.op = "delete" => UNCHANGED home
  /\ UNCHANGED <<seedStore, interrupted, dialog, deletion, quietDialog, page>>

(* A step of the user's begins one handler, or is made before the home page. *)
LEMMA UserBegins ==
  ASSUME SessionInv, NEW h \in Handlers, UserStep(h)
  PROVE  \/ \E t: Begins(h, t)
         \/ /\ UNCHANGED <<handler, walletStore, seedStore, interrupted, dialog, deletion, quietDialog, page>>
            /\ home = "away"
<1>3. CASE MountHome(h)
  <2>1. CASE sessionStore = NoSession
    BY <1>3, <2>1 DEF MountHome, stores
  <2>2. CASE sessionStore # NoSession
    <3> DEFINE t == [Started("start", "wallets", NoWallet) EXCEPT !.snap = sessionStore]
    <3>1. t.op = "start" /\ t.at = "wallets"
      BY DEF Started
    <3>2. Begin(h, t) /\ home = "away" /\ home' = "mounted"
      BY <1>3, <2>2 DEF MountHome
    <3>3. UNCHANGED <<walletStore, seedStore, interrupted, dialog, deletion, quietDialog, page>>
      BY <1>3 DEF MountHome, stores
    <3> HIDE DEF t
    <3>4. Begins(h, t)
      BY <3>1, <3>2, <3>3 DEF Begins, Begin, Idle, Stored
    <3> QED
      BY <3>4
  <2> QED
    BY <2>1, <2>2
<1>4. ASSUME NEW w \in Wallets, CreateWallet(h, w) PROVE \E t: Begins(h, t)
  <2> DEFINE t == Started("create", "seed", w)
  <2>1. t.op = "create" /\ t.at = "seed" /\ t.wallet = w
    BY DEF Started
  <2>2. Begin(h, t) /\ UNCHANGED <<seedStore, interrupted, dialog, deletion, quietDialog, page>>
    BY <1>4 DEF CreateWallet, SaveWallet, Upserted
  <2>3. (\A u \in Stored': u \in Stored \/ u = w) /\ deletion = "closed" /\ home' = "away"
    BY <1>4 DEF CreateWallet, SaveWallet, Upserted, Stored
  <2> HIDE DEF t
  <2>4. Begins(h, t)
    BY <2>1, <2>2, <2>3 DEF Begins, Begin, Idle
  <2> QED
    BY <2>4
<1>5. ASSUME SubmitDelete(h) PROVE \E t: Begins(h, t)
  <2> DEFINE t == Started("delete", "list", page.wallet)
  <2>1. t.op = "delete" /\ t.at = "list"
    BY DEF Started
  <2>2. Begin(h, t) /\ UNCHANGED <<seedStore, interrupted, dialog, deletion, quietDialog, page>>
    BY <1>5 DEF SubmitDelete, pages, Restrict
  <2>3. (\A u \in Stored': u \in Stored) /\ UNCHANGED home
    BY <1>5 DEF SubmitDelete, pages, Restrict, Stored
  <2> HIDE DEF t
  <2>4. Begins(h, t)
    BY <2>1, <2>2, <2>3 DEF Begins, Begin, Idle
  <2> QED
    BY <2>4
<1>6. ASSUME NEW row \in DOMAIN walletList, NEW searched \in BOOLEAN, Switch(h, row, searched) PROVE \E t: Begins(h, t)
  <2> DEFINE t == [Started("switch", "reload", walletList[row].wallet) EXCEPT !.value = IF searched THEN 1 ELSE 0]
  <2>1. t.op = "switch" /\ t.at = "reload"
    BY DEF Started
  <2>2. Begin(h, t) /\ UNCHANGED <<seedStore, interrupted, dialog, deletion, quietDialog, page>>
    BY <1>6 DEF Switch, pages, Click
  <2>3. (\A u \in Stored': u \in Stored) /\ deletion = "closed" /\ UNCHANGED home
    BY <1>6 DEF Switch, pages, Click, Stored
  <2> HIDE DEF t
  <2>4. Begins(h, t)
    BY <2>1, <2>2, <2>3 DEF Begins, Begin, Idle
  <2> QED
    BY <2>4
<1>7. ASSUME NEW on \in BOOLEAN, Toggle(h, on) PROVE \E t: Begins(h, t)
  <2> DEFINE t == [Started("toggle", "write", page.wallet) EXCEPT !.snap = Found(page.wallet), !.value = IF on THEN 1 ELSE 0]
  <2>1. t.op = "toggle" /\ t.at = "write" /\ t.wallet = page.wallet
    BY DEF Started
  <2>2. Begin(h, t) /\ UNCHANGED <<seedStore, interrupted, dialog, deletion, quietDialog, page>>
    BY <1>7 DEF Toggle, pages, Click, EditUnchanged
  <2>3. (\A u \in Stored': u \in Stored) /\ deletion = "closed" /\ UNCHANGED home /\ page.wallet \in Stored
    BY <1>7, FoundSession DEF Toggle, pages, Click, EditUnchanged, Stored
  <2> HIDE DEF t
  <2>4. Begins(h, t)
    BY <2>1, <2>2, <2>3 DEF Begins, Begin, Idle
  <2> QED
    BY <2>4
<1>8. ASSUME NEW on \in BOOLEAN, Propagate(h, on) PROVE \E t: Begins(h, t)
  <2> DEFINE t == Started("propagate", "find", page.wallet)
  <2>1. t.op = "propagate" /\ t.at = "find"
    BY DEF Started
  <2>2. Begin(h, t) /\ UNCHANGED <<seedStore, interrupted, dialog, deletion, quietDialog, page>>
    BY <1>8 DEF Propagate, Propagated, pages, Click, EditUnchanged
  <2>3. (\A u \in Stored': u \in Stored) /\ deletion = "closed" /\ UNCHANGED home
    BY <1>8 DEF Propagate, Propagated, pages, Click, EditUnchanged, Stored
  <2> HIDE DEF t
  <2>4. Begins(h, t)
    BY <2>1, <2>2, <2>3 DEF Begins, Begin, Idle
  <2> QED
    BY <2>4
<1>9. ASSUME EditNode(h) PROVE \E t: Begins(h, t)
  <2> DEFINE t == [Started("settings", "apply", page.wallet) EXCEPT !.snap = Found(page.wallet), !.value = Len(edits) + 1]
  <2>1. t.op = "settings" /\ t.at = "apply" /\ t.wallet = page.wallet
    BY DEF Started
  <2>2. Begin(h, t) /\ UNCHANGED <<seedStore, interrupted, dialog, deletion, quietDialog, page>>
    BY <1>9 DEF EditNode, pages, Click, EditUnchanged
  <2>3. (\A u \in Stored': u \in Stored) /\ deletion = "closed" /\ UNCHANGED home /\ page.wallet \in Stored
    BY <1>9, FoundSession DEF EditNode, pages, Click, EditUnchanged, Stored
  <2> HIDE DEF t
  <2>4. Begins(h, t)
    BY <2>1, <2>2, <2>3 DEF Begins, Begin, Idle
  <2> QED
    BY <2>4
<1>10. ASSUME EditAsset(h) PROVE \E t: Begins(h, t)
  <2> DEFINE t == [Started("asset", "both", page.wallet) EXCEPT !.snap = Found(page.wallet)]
  <2>1. t.op = "asset" /\ t.at = "both"
    BY DEF Started
  <2>2. Begin(h, t) /\ UNCHANGED <<seedStore, interrupted, dialog, deletion, quietDialog, page>>
    BY <1>10 DEF EditAsset, stores, pages, Click
  <2>3. (\A u \in Stored': u \in Stored) /\ deletion = "closed" /\ UNCHANGED home
    BY <1>10, FoundSession DEF EditAsset, stores, pages, Click, Stored
  <2> HIDE DEF t
  <2>4. Begins(h, t)
    BY <2>1, <2>2, <2>3 DEF Begins, Begin, Idle
  <2> QED
    BY <2>4
<1>11. ASSUME SwitchCurrency(h) PROVE \E t: Begins(h, t)
  <2> DEFINE t == [Started("currency", "show", page.wallet) EXCEPT !.snap = page]
  <2>1. t.op = "currency" /\ t.at = "show"
    BY DEF Started
  <2>2. Begin(h, t) /\ UNCHANGED <<seedStore, interrupted, dialog, deletion, quietDialog, page>>
    BY <1>11 DEF SwitchCurrency, pages, Click
  <2>3. (\A u \in Stored': u \in Stored) /\ deletion = "closed" /\ UNCHANGED home
    BY <1>11 DEF SwitchCurrency, pages, Click, Stored
  <2> HIDE DEF t
  <2>4. Begins(h, t)
    BY <2>1, <2>2, <2>3 DEF Begins, Begin, Idle
  <2> QED
    BY <2>4
<1>12. ASSUME Migrate(h) PROVE \E t: Begins(h, t)
  <2> DEFINE t == [Started("migrate", "migrated", page.wallet) EXCEPT !.snap = page]
  <2>1. t.op = "migrate" /\ t.at = "migrated"
    BY DEF Started
  <2>2. Begin(h, t) /\ UNCHANGED <<seedStore, interrupted, dialog, deletion, quietDialog, page>>
    BY <1>12 DEF Migrate, stores, pages, Click
  <2>3. (\A u \in Stored': u \in Stored) /\ deletion = "closed" /\ UNCHANGED home
    BY <1>12 DEF Migrate, stores, pages, Click, Stored
  <2> HIDE DEF t
  <2>4. Begins(h, t)
    BY <2>1, <2>2, <2>3 DEF Begins, Begin, Idle
  <2> QED
    BY <2>4
<1> QED
  BY <1>3, <1>4, <1>5, <1>6, <1>7, <1>8, <1>9, <1>10, <1>11, <1>12 DEF UserStep

(* A wallet without a phrase is one whose creation has been cut off or is under way, also
   if a handler is only about to write it back. *)
Seeded(w) ==
  \/ w \in seedStore \/ w \in interrupted
  \/ \E h \in Busy: handler[h].at = "seed" /\ handler[h].wallet = w

SeedInv ==
  /\ \A w \in Stored: Seeded(w)
  /\ \A h \in Busy: handler[h].at \in {"apply", "write"} => Seeded(handler[h].wallet)

(* The deletion dialog is open over the home page, and what goes on behind one that was
   opened in peace deletes. *)
DialogInv ==
  /\ dialog \in Wallets \union {NoWallet}
  /\ dialog # NoWallet <=> deletion \in {"asked", "ticked", "typing"}
  /\ dialog # NoWallet => home = "mounted"
  /\ dialog # NoWallet /\ quietDialog =>
       /\ page # NoSession /\ page.wallet = dialog
       /\ \A h \in Busy: handler[h].op = "delete"

(* The handlers that are in flight before and after a step of one of them. *)
LEMMA BusyAfter ==
  ASSUME SessionInv, NEW h \in Handlers, NEW t, handler' = [handler EXCEPT ![h] = t]
  PROVE  \A g \in Handlers: /\ g # h => handler'[g] = handler[g]
                            /\ g # h => (g \in Busy' <=> g \in Busy)
                            /\ handler'[h] = t /\ (h \in Busy' <=> t # Idle)
BY DEF SessionInv, Busy

(* Every step leaves a stored wallet with its phrase, or a handler about to store it. *)
LEMMA SeedStep ==
  ASSUME SessionInv, SeedInv, Next
  PROVE  SeedInv'
<1>1. Busy \subseteq Handlers /\ Busy' \subseteq Handlers
  BY DEF Busy
<1>2. ASSUME NEW h \in Handlers, HandlerStep(h) PROVE SeedInv'
  <2>1. h \in Busy
    BY <1>2, HandlerMoves
  <2>2. PICK t: Moves(h, t)
    BY <1>2, HandlerMoves
  <2>3. \A g \in Handlers: /\ g # h => handler'[g] = handler[g]
                           /\ g # h => (g \in Busy' <=> g \in Busy)
                           /\ handler'[h] = t /\ (h \in Busy' <=> t # Idle)
    BY <2>2, BusyAfter DEF Moves
  <2>4. ASSUME NEW w, Seeded(w) PROVE Seeded(w)'
    BY <1>1, <2>1, <2>2, <2>3, <2>4 DEF Seeded, Moves
  <2>5. ASSUME NEW w \in Stored' PROVE Seeded(w)
    BY <2>1, <2>2, <2>5 DEF Moves, SeedInv
  <2>6. ASSUME NEW g \in Busy', handler'[g].at \in {"apply", "write"} PROVE Seeded(handler'[g].wallet)
    BY <1>1, <2>1, <2>2, <2>3, <2>6 DEF Moves, SeedInv
  <2> HIDE DEF Seeded
  <2>7. (\A w \in Stored: Seeded(w))'
    BY <2>4, <2>5
  <2>8. ASSUME NEW g \in Busy', handler'[g].at \in {"apply", "write"} PROVE Seeded(handler[g].wallet)'
    <3> DEFINE w == handler'[g].wallet
    <3>1. Seeded(w)
      BY <2>6, <2>8
    <3>2. \A x: x = w => Seeded(x)'
      <4> SUFFICES ASSUME NEW x, x = w PROVE Seeded(x)'
        OBVIOUS
      <4>1. Seeded(x)
        BY <3>1
      <4> QED
        BY <2>4, <4>1
    <3> QED
      BY <3>2 DEF Seeded
  <2> QED
    BY <2>7, <2>8 DEF SeedInv
<1>3. ASSUME UNCHANGED <<handler, walletStore, seedStore, interrupted>> PROVE SeedInv'
  BY <1>3 DEF SeedInv, Seeded, Stored, Busy
<1>4. ASSUME NEW h \in Handlers, UserStep(h) PROVE SeedInv'
  <2>1. ASSUME NEW t, Begins(h, t) PROVE SeedInv'
    <3>1. \A g \in Handlers: /\ g # h => handler'[g] = handler[g]
                             /\ g # h => (g \in Busy' <=> g \in Busy)
                             /\ handler'[h] = t /\ h \in Busy'
      BY <2>1, BusyAfter DEF Begins
    <3>2. \A w: Seeded(w) => Seeded(w)'
      BY <1>1, <2>1, <3>1 DEF Seeded, Begins
    <3>3. \A w: t.at = "seed" /\ w = t.wallet => Seeded(w)'
      BY <3>1 DEF Seeded
    <3>4. \A w \in Stored': Seeded(w)'
      BY <2>1, <3>2, <3>3 DEF Begins, SeedInv
    <3>5. \A g \in Busy': handler'[g].at \in {"apply", "write"} =>
            \E w: w = handler'[g].wallet /\ Seeded(w)
      BY <1>1, <2>1, <3>1 DEF Begins, SeedInv
    <3>6. \A g \in Busy': handler'[g].at \in {"apply", "write"} => Seeded(handler[g].wallet)'
      BY <3>2, <3>5 DEF Seeded
    <3> QED
      BY <3>4, <3>6 DEF SeedInv
  <2> QED
    BY <1>3, <1>4, <2>1, UserBegins
<1>5. CASE OpenDialog \/ TickDeletion \/ ConfirmDeletion \/ CancelDialog \/ CloseDeleted
  BY <1>3, <1>5 DEF OpenDialog, TickDeletion, ConfirmDeletion, CancelDialog, CloseDeleted, DialogUnchanged, stores
<1>6. CASE SelectAsset
  BY <1>3, <1>6 DEF SelectAsset
<1>7. CASE Crash
  <2>1. /\ UNCHANGED <<walletStore, seedStore>> /\ handler' = [h \in Handlers |-> Idle]
        /\ interrupted' = interrupted \union
             {handler[h].wallet: h \in {g \in Busy: handler[g].op \in {"create", "delete"}}}
    BY <1>7 DEF Crash, stores
  <2>2. Busy' = {}
    BY <2>1 DEF Busy
  <2>3. ASSUME NEW h \in Busy, handler[h].at = "seed" PROVE handler[h].wallet \in interrupted'
    <3>1. Fits(edits, handler[h])
      BY <1>1, <2>3 DEF SessionInv, Busy
    <3>2. handler[h].op = "create"
      BY <2>3, <3>1 DEF Fits, PhaseOf, Tasks
    <3> QED
      BY <2>1, <3>2
  <2>4. \A w \in Stored: w \in seedStore \/ w \in interrupted'
    BY <2>1, <2>3 DEF SeedInv, Seeded
  <2> QED
    BY <2>1, <2>2, <2>4 DEF SeedInv, Seeded, Stored
<1> QED
  BY <1>2, <1>4, <1>5, <1>6, <1>7 DEF Next

(* Every step leaves a dialog opened in peace over the page of its wallet. *)
LEMMA DeletionDialogStep ==
  ASSUME SessionInv, DialogInv, Next
  PROVE  DialogInv'
<1>1. Busy \subseteq Handlers /\ Busy' \subseteq Handlers
  BY DEF Busy
<1>2. ASSUME NEW h \in Handlers, HandlerStep(h) PROVE DialogInv'
  <2>1. h \in Busy
    BY <1>2, HandlerMoves
  <2>2. PICK t: Moves(h, t)
    BY <1>2, HandlerMoves
  <2>3. \A g \in Handlers: /\ g # h => handler'[g] = handler[g]
                           /\ g # h => (g \in Busy' <=> g \in Busy)
                           /\ handler'[h] = t /\ (h \in Busy' <=> t # Idle)
    BY <2>2, BusyAfter DEF Moves
  <2>4. CASE dialog' = NoWallet /\ deletion' = "done" /\ ~quietDialog'
    BY <2>4 DEF DialogInv
  <2>5. CASE UNCHANGED <<dialog, deletion, quietDialog>> /\ (UNCHANGED page \/ handler[h].op # "delete")
    BY <1>1, <2>1, <2>2, <2>3, <2>5 DEF DialogInv, Moves
  <2> QED
    BY <2>2, <2>4, <2>5 DEF Moves
<1>3. ASSUME NEW h \in Handlers, UserStep(h) PROVE DialogInv'
  <2>1. ASSUME NEW t, Begins(h, t) PROVE DialogInv'
    <3>1. \A g \in Handlers: /\ g # h => handler'[g] = handler[g]
                             /\ g # h => (g \in Busy' <=> g \in Busy)
                             /\ handler'[h] = t /\ h \in Busy'
      BY <2>1, BusyAfter DEF Begins
    <3>2. dialog # NoWallet => t.op = "delete" /\ home' = home
      BY <2>1 DEF Begins, DialogInv
    <3> QED
      BY <1>1, <2>1, <3>1, <3>2 DEF Begins, DialogInv
  <2>2. CASE UNCHANGED <<handler, dialog, deletion, quietDialog, page>> /\ home = "away"
    BY <2>2 DEF DialogInv
  <2> QED
    BY <1>3, <2>1, <2>2, UserBegins
<1>4. CASE OpenDialog
  <2>1. /\ page # NoSession /\ dialog' = page.wallet /\ deletion' = "asked" /\ home = "mounted"
        /\ quietDialog' = (Busy = {}) /\ UNCHANGED <<page, home, handler>>
    BY <1>4 DEF OpenDialog, Click, DialogUnchanged
  <2>2. page.wallet \in Wallets /\ page.wallet # NoWallet
    BY <2>1, SessionAssumption DEF SessionInv, SoundOrNone, Sound, Sessions
  <2> QED
    BY <2>1, <2>2 DEF DialogInv, Busy
<1>5. CASE TickDeletion \/ ConfirmDeletion
  BY <1>5 DEF TickDeletion, ConfirmDeletion, DialogUnchanged, DialogInv, Busy
<1>6. CASE CancelDialog \/ CloseDeleted
  BY <1>6 DEF CancelDialog, CloseDeleted, DialogUnchanged, DialogInv, Busy
<1>7. CASE SelectAsset
  BY <1>7 DEF SelectAsset, pages, DialogInv, Busy
<1>8. CASE Crash
  BY <1>8 DEF Crash, DialogInv
<1> QED
  BY <1>2, <1>3, <1>4, <1>5, <1>6, <1>7, <1>8 DEF Next

(* The three invariants hold at the start. *)
LEMMA SessionStarts == Init => SessionInv /\ SeedInv /\ DialogInv
<1> SUFFICES ASSUME Init PROVE SessionInv /\ SeedInv /\ DialogInv
  OBVIOUS
<1>1. PICK S \in Initial:
        /\ walletStore = [w \in S |-> Fresh] /\ seedStore = S
        /\ sessionStore = NoSession \/ \E w \in S: sessionStore = [wallet |-> w, settings |-> Fresh]
  BY DEF Init
<1>2. S \subseteq Wallets /\ MaxEdits \in Nat
  BY SessionAssumption
<1>3. /\ edits = <<>> /\ edits \in Seq(Wallets) /\ Len(edits) = 0
      /\ page = NoSession /\ walletList = <<>> /\ handler = [h \in Handlers |-> Idle]
      /\ dialog = NoWallet /\ deletion = "closed"
  BY DEF Init
<1>4. Fresh \in Settings /\ \A w \in S: Sound(edits, [wallet |-> w, settings |-> Fresh])
  <2>1. Fresh \in Settings /\ Fresh.node = 0
    BY <1>2 DEF Fresh, Settings
  <2> QED
    BY <1>2, <1>3, <2>1 DEF Sound, Sessions
<1>5. SoundStore(edits, walletStore)
  BY <1>1, <1>2, <1>4 DEF SoundStore, Of
<1>6. SoundOrNone(edits, sessionStore) /\ SoundOrNone(edits, page)
  BY <1>1, <1>3, <1>4 DEF SoundOrNone
<1>7. SoundList(edits, walletList)
  BY <1>3 DEF SoundList, Range
<1>8. SessionInv
  BY <1>2, <1>3, <1>5, <1>6, <1>7 DEF SessionInv
<1>9. Busy = {}
  BY <1>3 DEF Busy
<1>10. SeedInv
  BY <1>1, <1>9 DEF SeedInv, Seeded, Stored
<1>11. DialogInv
  BY <1>3 DEF DialogInv
<1> QED
  BY <1>8, <1>10, <1>11

(* The three invariants hold in every behaviour. *)
LEMMA SessionAlways == SettingsSpec => [](SessionInv /\ SeedInv /\ DialogInv)
<1>1. SettingsInit => SessionInv /\ SeedInv /\ DialogInv
  BY SessionStarts DEF SettingsInit
<1>2. SessionInv /\ SeedInv /\ DialogInv /\ [SettingsNext]_<<vars, bookVars, revokeVars>> =>
        SessionInv' /\ SeedInv' /\ DialogInv'
  <2> SUFFICES ASSUME SessionInv, SeedInv, DialogInv, [SettingsNext]_<<vars, bookVars, revokeVars>>
               PROVE  SessionInv' /\ SeedInv' /\ DialogInv'
    OBVIOUS
  <2>1. CASE Next
    BY <2>1, SessionStep, SeedStep, DeletionDialogStep
  <2>2. CASE UNCHANGED vars
    <3>1. UNCHANGED <<walletStore, sessionStore, seedStore, page, walletList, edits, handler>>
      BY <2>2 DEF vars, stores, pages, history
    <3>2. UNCHANGED <<home, dialog, deletion, quietDialog, interrupted>>
      BY <2>2 DEF vars, pages, history
    <3>3. SessionInv'
      BY <3>1 DEF SessionInv
    <3>4. SeedInv'
      BY <3>1, <3>2 DEF SeedInv, Seeded, Stored, Busy
    <3>5. DialogInv'
      BY <3>1, <3>2 DEF DialogInv, Busy
    <3> QED
      BY <3>3, <3>4, <3>5
  <2> QED
    BY <2>1, <2>2 DEF SettingsNext
<1> QED
  BY <1>1, <1>2, PTL DEF SettingsSpec

(* In every interleaving of any number of handlers and after every crash, the phrase of a
   stored wallet is stored, unless its creation has been cut off (SeedForEveryWallet). *)
THEOREM PhrasesAreKept == SettingsSpec => []SeedForEveryWallet
<1>1. SessionInv /\ SeedInv /\ DialogInv => SeedForEveryWallet
  BY DEF SeedInv, Seeded, SeedForEveryWallet
<1> QED
  BY <1>1, SessionAlways, PTL

(* Node settings never cross from one network to another, wherever they are copied to
   (NodesOfTheirNetwork). *)
THEOREM NodesStayInTheirNetwork == SettingsSpec => []NodesOfTheirNetwork
<1>1. SessionInv /\ SeedInv /\ DialogInv => NodesOfTheirNetwork
  <2> SUFFICES ASSUME SessionInv PROVE NodesOfTheirNetwork
    OBVIOUS
  <2>1. \A s: Sound(edits, s) => OfItsNetwork(s.wallet, s.settings)
    BY DEF Sound, OfItsNetwork
  <2>2. ASSUME NEW w \in Stored PROVE OfItsNetwork(w, walletStore[w])
    <3>1. Sound(edits, Of(walletStore, w))
      BY DEF SessionInv, SoundStore, Stored
    <3>2. Of(walletStore, w).wallet = w /\ Of(walletStore, w).settings = walletStore[w]
      BY DEF Of
    <3> QED
      BY <2>1, <3>1, <3>2
  <2>3. \A s \in {sessionStore, page} \union Range(walletList): s # NoSession => Sound(edits, s)
    BY DEF SessionInv, SoundOrNone, SoundList
  <2> QED
    BY <2>1, <2>2, <2>3 DEF NodesOfTheirNetwork
<1> QED
  BY <1>1, SessionAlways, PTL

(* The deletion dialog deletes the wallet whose address it shows, if nothing was in flight
   when it was opened (DeletesWhatItShows). *)
THEOREM DeletesTheShown == SettingsSpec => []DeletesWhatItShows
<1>1. SessionInv /\ SeedInv /\ DialogInv => DeletesWhatItShows
  BY DEF DialogInv, DeletesWhatItShows
<1> QED
  BY <1>1, SessionAlways, PTL

-----------------------------------------------------------------------------
(* As long as no two handlers meet. *)

(* A session whose wallet is stored, or has been cut off, with the node in force; ... *)
CurrentIn(store, gone, torn, s) ==
  /\ s # NoSession /\ s.wallet \in DOMAIN store \union gone
  /\ s.wallet \in DOMAIN store /\ ~torn => s.settings.node = store[s.wallet].node

(* ... a list of wallets that are stored, each once, ... *)
ListedIn(store, list) ==
  /\ \A i \in DOMAIN list: list[i].wallet \in DOMAIN store
  /\ \A i, j \in DOMAIN list: list[i].wallet = list[j].wallet => i = j

(* ... and with the nodes that are in force. *)
UpToDateIn(store, torn, list) ==
  ~torn => \A i \in DOMAIN list: list[i].settings.node = store[list[i].wallet].node

Current(s) == CurrentIn(walletStore, interrupted, cut, s)
CurrentOrNone(s) == s = NoSession \/ Current(s)
Listed(list) == ListedIn(walletStore, list)
UpToDate(list) == UpToDateIn(walletStore, cut, list)

(* What is to be stored yet of the edit a handler carries out. *)
Pending(t) ==
  /\ t.op = "toggle" /\ t.at = "write" =>
       intended = Upserted(walletStore, t.wallet, [t.snap.settings EXCEPT !.memo = (t.value = 1)])
  /\ t.op = "settings" /\ t.at = "apply" /\ t.snap.settings.general =>
       intended = NodeForAll(walletStore, t.wallet, t.value)
  /\ t.op = "settings" /\ (t.at = "write" \/ (t.at = "apply" /\ ~t.snap.settings.general)) =>
       intended = Upserted(walletStore, t.wallet, [t.snap.settings EXCEPT !.node = t.value])
  /\ t.at \notin {"apply", "write"} => intended = walletStore

(* An edit of the wallet the page shows, until the page shows what has become of it. *)
OfThePage(t) ==
  \/ t.op \in {"toggle", "propagate", "currency", "migrate"}
  \/ t.op \in {"settings", "asset"} /\ t.at \notin {"all", "refill"}

(* The handlers that read, of home and of the creation of a wallet, ... *)
QuietHome(t) ==
  /\ t.op = "start" => Current(sessionStore) /\ t.snap = sessionStore
  /\ t.op = "create" =>
       /\ t.wallet \in Stored /\ walletStore[t.wallet] = Fresh
       /\ CurrentOrNone(sessionStore)
       /\ page # NoSession => home = "away" /\ sessionStore # NoSession
  /\ t.op = "delete" /\ t.at \in {"list", "select"} =>
       /\ Stored # {}
       /\ sessionStore # NoSession => sessionStore.wallet \in Stored \union interrupted \union {t.wallet}
  /\ t.at \in {"reload", "shown"} =>
       Current(sessionStore) /\ Listed(walletList) /\ UpToDate(walletList)
  /\ t.at = "shown" => t.snap = sessionStore
  /\ t.at \in {"mount", "select", "refill"} => Listed(t.list) /\ UpToDate(t.list)
  /\ t.at = "select" => t.list # <<>>

(* ... and those of the settings. *)
QuietEdit(t) ==
  /\ OfThePage(t) =>
       /\ page # NoSession /\ page.wallet = t.wallet /\ t.wallet \in Stored \union interrupted
       /\ t.at # "show" => sessionStore # NoSession /\ sessionStore.wallet = t.wallet
  /\ t.op \in {"toggle", "propagate", "currency", "migrate"} => UpToDate(walletList)
  /\ t.at \in {"apply", "write"} => t.wallet \in Stored
  /\ t.at \in {"apply", "write", "store", "both"} => t.snap = Found(t.wallet)
  /\ t.at = "show" => t.snap = sessionStore
  /\ t.at = "migrated" => t.snap = page /\ Current(page) /\ Current(sessionStore)
  /\ t.at \in {"all", "refill"} => page = sessionStore
  /\ t.at \in {"show", "all", "refill"} => CurrentOrNone(sessionStore)

(* Between two handlers. *)
AtRest ==
  /\ CurrentOrNone(sessionStore) /\ (page # NoSession => sessionStore # NoSession)
  /\ page # NoSession /\ home = "mounted" =>
       sessionStore.wallet = page.wallet /\ Current(page) /\ UpToDate(walletList)

(* What the dialog and the pages' list rely on at all times. *)
QuietPages ==
  /\ Stored \union interrupted \subseteq used
  /\ dialog # NoWallet /\ Deleting = {} => \E u, v \in Stored: u # v
  /\ page # NoSession /\ Deleting = {} => Listed(walletList)

QuietInv ==
  ~met =>
    /\ QuietPages
    /\ \A g, h \in Busy: g = h
    /\ Busy = {} => walletStore = intended /\ AtRest
    /\ \A h \in Busy: /\ Pending(handler[h]) /\ QuietHome(handler[h]) /\ QuietEdit(handler[h])
                      /\ handler[h].op \in {"create", "delete"} => handler[h].wallet \in used

(* Stores that have the same wallets with the same nodes. *)
SameNodes(store, other) ==
  DOMAIN other = DOMAIN store /\ \A w \in DOMAIN store: other[w].node = store[w].node

(* What is current stays so while wallets and nodes stay the same. *)
LEMMA SameNodesKept ==
  ASSUME NEW store, NEW other, SameNodes(store, other), NEW gone, NEW torn
  PROVE  /\ \A s: CurrentIn(store, gone, torn, s) => CurrentIn(other, gone, torn, s)
         /\ \A list: ListedIn(store, list) => ListedIn(other, list)
         /\ \A list: ListedIn(store, list) /\ UpToDateIn(store, torn, list) => UpToDateIn(other, torn, list)
BY DEF SameNodes, CurrentIn, ListedIn, UpToDateIn

(* A wallet of such a list is a current session. *)
LEMMA ListedIsCurrent ==
  ASSUME NEW store, NEW gone, NEW torn, NEW list \in Seq(Sessions),
         ListedIn(store, list), UpToDateIn(store, torn, list), NEW i \in DOMAIN list
  PROVE  CurrentIn(store, gone, torn, list[i])
<1>1. list[i] \in Sessions
  OBVIOUS
<1> QED
  BY <1>1, SessionAssumption DEF CurrentIn, ListedIn, UpToDateIn

(* The list of all wallets is up to date when it is read, and a wallet when it is found. *)
LEMMA ReadIsCurrent ==
  ASSUME SessionInv
  PROVE  /\ Listed(AllWallets) /\ UpToDate(AllWallets)
         /\ \A w: CurrentOrNone(Found(w))
<1>1. AllWallets \in Seq(Sessions) /\ \A i \in DOMAIN AllWallets: AllWallets[i] \in Range(AllWallets)
  BY AllWalletsFound DEF Range
<1>2. ASSUME NEW i \in DOMAIN AllWallets
      PROVE  /\ AllWallets[i].wallet \in Stored
             /\ AllWallets[i].settings.node = walletStore[AllWallets[i].wallet].node
  <2> DEFINE s == AllWallets[i]
  <2>1. s.wallet \in Stored /\ s = Found(s.wallet)
    BY <1>1, AllWalletsFound
  <2>2. Found(s.wallet) = Of(walletStore, s.wallet)
    BY <2>1, FoundSession
  <2> QED
    BY <2>1, <2>2 DEF Of
<1>3. Listed(AllWallets)
  BY <1>2, AllWalletsFound DEF Listed, ListedIn, Stored
<1>4. UpToDate(AllWallets)
  BY <1>2 DEF UpToDate, UpToDateIn
<1>5. ASSUME NEW w PROVE CurrentOrNone(Found(w))
  <2>1. CASE w \in Stored
    <3>1. Found(w) = Of(walletStore, w) /\ Sound(edits, Found(w))
      BY <2>1, FoundSession
    <3>2. Found(w) # NoSession
      BY <3>1, SessionAssumption DEF Sound
    <3> QED
      BY <2>1, <3>1, <3>2 DEF Of, CurrentOrNone, Current, CurrentIn, Stored
  <2>2. CASE w \notin Stored
    BY <2>2, FoundSession DEF CurrentOrNone
  <2> QED
    BY <2>1, <2>2
<1> QED
  BY <1>3, <1>4, <1>5

(* The only handler in flight goes on. *)
LEMMA GoesOn ==
  ASSUME SessionInv, QuietInv, ~met, UNCHANGED <<met, used, interrupted>>,
         NEW h \in Busy, NEW k, k = handler[h], NEW t, handler' = [handler EXCEPT ![h] = t],
         t # Idle => t.op = k.op /\ t.wallet = k.wallet,
         Stored \subseteq Stored', Stored' \subseteq used,
         dialog' = NoWallet \/ (dialog' = dialog /\ (t = Idle => k.op # "delete")),
         page' # NoSession /\ (t = Idle \/ k.op # "delete") => Listed(walletList)',
         t = Idle => walletStore' = intended' /\ AtRest',
         t # Idle => Pending(t)' /\ QuietHome(t)' /\ QuietEdit(t)'
  PROVE  QuietInv'
<1>1. h \in Handlers /\ k # Idle /\ \A g \in Busy: g = h
  BY DEF Busy, QuietInv
<1>2. \A g \in Handlers: /\ g # h => g \notin Busy'
                         /\ handler'[h] = t /\ (h \in Busy' <=> t # Idle)
  BY <1>1, BusyAfter
<1>3. Busy' \subseteq Handlers
  BY DEF Busy
<1>4. /\ Deleting = {} <=> k.op # "delete"
      /\ Deleting' = {} <=> (t = Idle \/ k.op # "delete")
  BY <1>1, <1>2, <1>3 DEF Deleting
<1>5. QuietPages'
  <2>1. Stored' \union interrupted' \subseteq used'
    BY DEF QuietInv, QuietPages
  <2>2. dialog' # NoWallet /\ Deleting' = {} => \E u, v \in Stored': u # v
    BY <1>4 DEF QuietInv, QuietPages
  <2> QED
    BY <1>4, <2>1, <2>2 DEF QuietPages
<1>6. \A g \in Busy': g = h /\ t # Idle /\ handler'[g] = t
  BY <1>2, <1>3
<1>7. \A g \in Busy': /\ Pending(handler[g])' /\ QuietHome(handler[g])' /\ QuietEdit(handler[g])'
                      /\ handler'[g].op \in {"create", "delete"} => handler'[g].wallet \in used'
  <2>1. t # Idle => (t.op \in {"create", "delete"} => t.wallet \in used')
    BY <1>1 DEF QuietInv
  <2>2. \A x: x = t /\ t # Idle => Pending(x)' /\ QuietHome(x)' /\ QuietEdit(x)'
    OBVIOUS
  <2> QED
    BY <1>6, <2>1, <2>2 DEF Pending, QuietHome, QuietEdit, OfThePage
<1>8. Busy' = {} => t = Idle
  BY <1>1, <1>2
<1> QED
  BY <1>5, <1>6, <1>7, <1>8 DEF QuietInv

(* Every step of the only handler in flight keeps what is quiet. *)
LEMMA QuietHandler ==
  ASSUME SessionInv, QuietInv, NEW h \in Handlers, HandlerStep(h)
  PROVE  QuietInv'
<1>1. CASE met'
  BY <1>1 DEF QuietInv
<1> PICK k: k = handler[h]
  OBVIOUS
<1>2. ASSUME ~met, NEW step, At(h, step)
      PROVE  /\ h \in Busy /\ k \in Tasks /\ k.at = step /\ PhaseOf(k) /\ Fits(edits, k)
             /\ Pending(k) /\ QuietHome(k) /\ QuietEdit(k)
             /\ Stored \subseteq used /\ (page # NoSession /\ k.op # "delete" => Listed(walletList))
             /\ k.op \in {"create", "delete"} => k.wallet \in used
             /\ SoundList(edits, k.list) /\ SoundStore(edits, walletStore)
  <2>1. h \in Busy /\ k \in Tasks /\ k.at = step /\ Fits(edits, k)
    BY <1>2, HandlerAt
  <2>2. \A x: x = handler[h] => Pending(x) /\ QuietHome(x) /\ QuietEdit(x)
    <3>1. Pending(handler[h]) /\ QuietHome(handler[h]) /\ QuietEdit(handler[h])
      BY <1>2, <2>1 DEF QuietInv
    <3> QED
      BY <3>1
  <2>3. k.op # "delete" => Deleting = {}
    BY <1>2, <2>1 DEF QuietInv, Deleting
  <2>4. PhaseOf(k) /\ SoundList(edits, k.list)
    BY <2>1 DEF Fits
  <2> QED
    BY <1>2, <2>1, <2>2, <2>3, <2>4 DEF QuietInv, QuietPages, SessionInv
<1>3. CASE ~met /\ MountWallets(h)
  <2>1. At(h, "wallets")
    BY <1>3 DEF MountWallets
  <2>2. /\ h \in Busy /\ k \in Tasks /\ k.at = "wallets" /\ PhaseOf(k) /\ Fits(edits, k)
        /\ Pending(k) /\ QuietHome(k) /\ QuietEdit(k)
        /\ Stored \subseteq used /\ (page # NoSession /\ k.op # "delete" => Listed(walletList))
        /\ k.op \in {"create", "delete"} => k.wallet \in used
        /\ SoundList(edits, k.list) /\ SoundStore(edits, walletStore)
    BY <1>2, <1>3, <2>1
  <2>3. k.op = "start"
    BY <2>1, <2>2 DEF PhaseOf, Tasks
  <2>4. PICK t: t = [k EXCEPT !.list = AllWallets, !.at = "mount"]
    OBVIOUS
  <2>5. t # Idle /\ t.op = k.op /\ t.wallet = k.wallet /\ t.list = AllWallets /\ t.at = "mount" /\ t.snap = k.snap
    BY <2>2, <2>4 DEF Tasks, Idle
  <2>6. handler' = [handler EXCEPT ![h] = t]
    BY <1>3, <2>1, <2>2, <2>4, HandlerAt DEF MountWallets
  <2>7. /\ UNCHANGED <<met, used, interrupted>> /\ UNCHANGED <<walletStore, sessionStore, home, page, walletList, intended, cut, dialog>>
    BY <1>3, <2>2 DEF MountWallets, stores, pages, history
  <2>8. ListedIn(walletStore, t.list) /\ UpToDateIn(walletStore, cut, t.list)
    BY <2>5, ReadIsCurrent DEF Listed, UpToDate
  <2>9. Pending(t)' /\ QuietHome(t)' /\ QuietEdit(t)'
    BY <2>2, <2>3, <2>5, <2>7, <2>8
       DEF Pending, QuietHome, QuietEdit, OfThePage, Current, CurrentOrNone, Listed, UpToDate, Stored, Found
  <2>10. page' # NoSession /\ k.op # "delete" => Listed(walletList)'
    BY <2>2, <2>3, <2>5, <2>7, <2>8 DEF Pending, QuietHome, QuietEdit, OfThePage, Current, CurrentOrNone, Listed, UpToDate, Stored, Found
  <2>11. Stored \subseteq Stored' /\ Stored' \subseteq used
    BY <2>2, <2>3, <2>7, <2>8 DEF Stored
  <2>12. UNCHANGED <<met, used, interrupted>> /\ dialog' \in {dialog, NoWallet}
    BY <2>7
  <2>13. ~met /\ h \in Busy /\ t # Idle /\ t.op = k.op /\ t.wallet = k.wallet
    BY <1>3, <2>2, <2>5
  <2> QED
    BY <2>6, <2>9, <2>10, <2>11, <2>12, <2>13, GoesOn
<1>4. CASE ~met /\ MountShow(h)
  <2>1. At(h, "mount")
    BY <1>4 DEF MountShow
  <2>2. /\ h \in Busy /\ k \in Tasks /\ k.at = "mount" /\ PhaseOf(k) /\ Fits(edits, k)
        /\ Pending(k) /\ QuietHome(k) /\ QuietEdit(k)
        /\ Stored \subseteq used /\ (page # NoSession /\ k.op # "delete" => Listed(walletList))
        /\ k.op \in {"create", "delete"} => k.wallet \in used
        /\ SoundList(edits, k.list) /\ SoundStore(edits, walletStore)
    BY <1>2, <1>4, <2>1
  <2>3. k.op = "start"
    BY <2>1, <2>2 DEF PhaseOf, Tasks
  <2>6. handler' = [handler EXCEPT ![h] = Idle]
    BY <1>4, <2>1, HandlerAt DEF MountShow
  <2>7. /\ UNCHANGED <<met, used, interrupted>> /\ UNCHANGED <<walletStore, sessionStore, home, intended, cut, dialog>> /\ page' = k.snap /\ walletList' = k.list
    BY <1>4, <2>2 DEF MountShow, stores, pages, history
  <2>9. walletStore' = intended' /\ AtRest'
    BY <2>2, <2>3, <2>7
       DEF Pending, QuietHome, QuietEdit, OfThePage, Current, CurrentOrNone, Listed, UpToDate, Stored, Found, AtRest, CurrentIn
  <2>10. page' # NoSession => Listed(walletList)'
    BY <2>2, <2>3, <2>7 DEF Pending, QuietHome, QuietEdit, OfThePage, Current, CurrentOrNone, Listed, UpToDate, Stored, Found, CurrentIn
  <2>11. Stored \subseteq Stored' /\ Stored' \subseteq used
    BY <2>2, <2>3, <2>7 DEF Stored, CurrentIn
  <2>12. UNCHANGED <<met, used, interrupted>> /\ dialog' \in {dialog, NoWallet}
    BY <2>7
  <2> QED
    BY <1>4, <2>2, <2>3, <2>6, <2>9, <2>10, <2>11, <2>12, GoesOn
<1>5. CASE ~met /\ PersistPhrase(h)
  <2>1. At(h, "seed")
    BY <1>5 DEF PersistPhrase
  <2>2. /\ h \in Busy /\ k \in Tasks /\ k.at = "seed" /\ PhaseOf(k) /\ Fits(edits, k)
        /\ Pending(k) /\ QuietHome(k) /\ QuietEdit(k)
        /\ Stored \subseteq used /\ (page # NoSession /\ k.op # "delete" => Listed(walletList))
        /\ k.op \in {"create", "delete"} => k.wallet \in used
        /\ SoundList(edits, k.list) /\ SoundStore(edits, walletStore)
    BY <1>2, <1>5, <2>1
  <2>3. k.op = "create"
    BY <2>1, <2>2 DEF PhaseOf, Tasks
  <2>4. PICK t: t = [k EXCEPT !.at = "session", !.snap = NoSession, !.list = <<>>, !.value = 0]
    OBVIOUS
  <2>5. t # Idle /\ t.op = k.op /\ t.wallet = k.wallet /\ t.at = "session"
    BY <2>2, <2>4 DEF Tasks, Idle
  <2>6. handler' = [handler EXCEPT ![h] = t]
    BY <1>5, <2>1, <2>2, <2>4, HandlerAt DEF PersistPhrase
  <2>7. /\ UNCHANGED <<met, used, interrupted>> /\ UNCHANGED <<walletStore, sessionStore, home, page, walletList, intended, cut, dialog>>
    BY <1>5, <2>2 DEF PersistPhrase, stores, pages, history
  <2>9. Pending(t)' /\ QuietHome(t)' /\ QuietEdit(t)'
    BY <2>2, <2>3, <2>5, <2>7
       DEF Pending, QuietHome, QuietEdit, OfThePage, Current, CurrentOrNone, Listed, UpToDate, Stored, Found
  <2>10. page' # NoSession /\ k.op # "delete" => Listed(walletList)'
    BY <2>2, <2>3, <2>5, <2>7 DEF Pending, QuietHome, QuietEdit, OfThePage, Current, CurrentOrNone, Listed, UpToDate, Stored, Found
  <2>11. Stored \subseteq Stored' /\ Stored' \subseteq used
    BY <2>2, <2>3, <2>7 DEF Stored
  <2>12. UNCHANGED <<met, used, interrupted>> /\ dialog' \in {dialog, NoWallet}
    BY <2>7
  <2>13. ~met /\ h \in Busy /\ t # Idle /\ t.op = k.op /\ t.wallet = k.wallet
    BY <1>5, <2>2, <2>5
  <2> QED
    BY <2>6, <2>9, <2>10, <2>11, <2>12, <2>13, GoesOn
<1>6. CASE ~met /\ SetNewSession(h)
  <2>1. At(h, "session")
    BY <1>6 DEF SetNewSession
  <2>2. /\ h \in Busy /\ k \in Tasks /\ k.at = "session" /\ PhaseOf(k) /\ Fits(edits, k)
        /\ Pending(k) /\ QuietHome(k) /\ QuietEdit(k)
        /\ Stored \subseteq used /\ (page # NoSession /\ k.op # "delete" => Listed(walletList))
        /\ k.op \in {"create", "delete"} => k.wallet \in used
        /\ SoundList(edits, k.list) /\ SoundStore(edits, walletStore)
    BY <1>2, <1>6, <2>1
  <2>3. k.op = "create"
    BY <2>1, <2>2 DEF PhaseOf, Tasks
  <2>6. handler' = [handler EXCEPT ![h] = Idle]
    BY <1>6, <2>1, HandlerAt DEF SetNewSession
  <2>7. /\ UNCHANGED <<met, used, interrupted>> /\ UNCHANGED <<walletStore, home, page, walletList, intended, cut, dialog>> /\ sessionStore' = [wallet |-> k.wallet, settings |-> Fresh]
    BY <1>6, <2>2 DEF SetNewSession, stores, pages, history
  <2>8. CurrentIn(walletStore, interrupted, cut, sessionStore') /\ sessionStore' # NoSession
    <3>1. Fresh \in Settings /\ k.wallet \in Wallets
      BY <2>2, <2>3 DEF SoundStore, QuietHome, Stored
    <3>2. sessionStore' \in Sessions
      BY <2>7, <3>1 DEF Sessions
    <3> QED
      BY <2>2, <2>3, <2>7, <3>2, SessionAssumption DEF QuietHome, CurrentIn, Stored
  <2>9. walletStore' = intended' /\ AtRest'
    BY <2>2, <2>3, <2>7, <2>8
       DEF Pending, QuietHome, QuietEdit, OfThePage, Current, CurrentOrNone, Listed, UpToDate, Stored, Found, AtRest
  <2>10. page' # NoSession => Listed(walletList)'
    BY <2>2, <2>3, <2>7, <2>8 DEF Pending, QuietHome, QuietEdit, OfThePage, Current, CurrentOrNone, Listed, UpToDate, Stored, Found
  <2>11. Stored \subseteq Stored' /\ Stored' \subseteq used
    BY <2>2, <2>3, <2>7, <2>8 DEF Stored
  <2>12. UNCHANGED <<met, used, interrupted>> /\ dialog' \in {dialog, NoWallet}
    BY <2>7
  <2> QED
    BY <1>6, <2>2, <2>3, <2>6, <2>9, <2>10, <2>11, <2>12, GoesOn
<1>7. CASE ~met /\ DeleteList(h)
  <2>1. At(h, "list")
    BY <1>7 DEF DeleteList
  <2>2. /\ h \in Busy /\ k \in Tasks /\ k.at = "list" /\ PhaseOf(k) /\ Fits(edits, k)
        /\ Pending(k) /\ QuietHome(k) /\ QuietEdit(k)
        /\ Stored \subseteq used /\ (page # NoSession /\ k.op # "delete" => Listed(walletList))
        /\ k.op \in {"create", "delete"} => k.wallet \in used
        /\ SoundList(edits, k.list) /\ SoundStore(edits, walletStore)
    BY <1>2, <1>7, <2>1
  <2>3. k.op = "delete"
    BY <2>1, <2>2 DEF PhaseOf, Tasks
  <2>4. PICK t: t = [k EXCEPT !.list = AllWallets, !.at = "select"]
    OBVIOUS
  <2>5. t # Idle /\ t.op = k.op /\ t.wallet = k.wallet /\ t.list = AllWallets /\ t.at = "select"
    BY <2>2, <2>4 DEF Tasks, Idle
  <2>6. handler' = [handler EXCEPT ![h] = t]
    BY <1>7, <2>1, <2>2, <2>4, HandlerAt DEF DeleteList
  <2>7. /\ UNCHANGED <<met, used, interrupted>> /\ UNCHANGED <<walletStore, sessionStore, home, page, walletList, intended, cut, dialog>>
    BY <1>7, <2>2 DEF DeleteList, stores, pages, history
  <2>8. ListedIn(walletStore, t.list) /\ UpToDateIn(walletStore, cut, t.list) /\ t.list # <<>>
    BY <2>2, <2>3, <2>5, ReadIsCurrent, AllWalletsFound DEF Listed, UpToDate, QuietHome
  <2>9. Pending(t)' /\ QuietHome(t)' /\ QuietEdit(t)'
    BY <2>2, <2>3, <2>5, <2>7, <2>8
       DEF Pending, QuietHome, QuietEdit, OfThePage, Current, CurrentOrNone, Listed, UpToDate, Stored, Found
  <2>10. page' # NoSession /\ k.op # "delete" => Listed(walletList)'
    BY <2>2, <2>3, <2>5, <2>7, <2>8 DEF Pending, QuietHome, QuietEdit, OfThePage, Current, CurrentOrNone, Listed, UpToDate, Stored, Found
  <2>11. Stored \subseteq Stored' /\ Stored' \subseteq used
    BY <2>2, <2>3, <2>7, <2>8 DEF Stored
  <2>12. UNCHANGED <<met, used, interrupted>> /\ dialog' \in {dialog, NoWallet}
    BY <2>7
  <2>13. ~met /\ h \in Busy /\ t # Idle /\ t.op = k.op /\ t.wallet = k.wallet
    BY <1>7, <2>2, <2>5
  <2> QED
    BY <2>6, <2>9, <2>10, <2>11, <2>12, <2>13, GoesOn
<1>8. CASE ~met /\ SelectFirst(h)
  <2>1. At(h, "select")
    BY <1>8 DEF SelectFirst
  <2>2. /\ h \in Busy /\ k \in Tasks /\ k.at = "select" /\ PhaseOf(k) /\ Fits(edits, k)
        /\ Pending(k) /\ QuietHome(k) /\ QuietEdit(k)
        /\ Stored \subseteq used /\ (page # NoSession /\ k.op # "delete" => Listed(walletList))
        /\ k.op \in {"create", "delete"} => k.wallet \in used
        /\ SoundList(edits, k.list) /\ SoundStore(edits, walletStore)
    BY <1>2, <1>8, <2>1
  <2>3. k.op = "delete"
    BY <2>1, <2>2 DEF PhaseOf, Tasks
  <2>4. PICK t: t = [k EXCEPT !.at = "reload", !.snap = NoSession, !.list = <<>>, !.value = 0]
    OBVIOUS
  <2>5. t # Idle /\ t.op = k.op /\ t.wallet = k.wallet /\ t.at = "reload"
    BY <2>2, <2>4 DEF Tasks, Idle
  <2>6. handler' = [handler EXCEPT ![h] = t]
    BY <1>8, <2>1, <2>2, <2>4, HandlerAt DEF SelectFirst
  <2>7. /\ UNCHANGED <<met, used, interrupted>> /\ UNCHANGED <<walletStore, home, page, intended, cut, dialog>> /\ walletList' = k.list /\ sessionStore' = (IF k.list = <<>> THEN NoSession ELSE Head(k.list))
    BY <1>8, <2>2 DEF SelectFirst, stores, pages, history
  <2>8. CurrentIn(walletStore, interrupted, cut, sessionStore')
    <3>1. k.list \in Seq(Sessions) /\ k.list # <<>>
      BY <2>2, <2>3 DEF SoundList, QuietHome
    <3>2. 1 \in DOMAIN k.list /\ sessionStore' = k.list[1]
      BY <2>7, <3>1
    <3> QED
      BY <2>2, <3>1, <3>2, ListedIsCurrent DEF QuietHome, Listed, UpToDate
  <2>9. Pending(t)' /\ QuietHome(t)' /\ QuietEdit(t)'
    BY <2>2, <2>3, <2>5, <2>7, <2>8
       DEF Pending, QuietHome, QuietEdit, OfThePage, Current, CurrentOrNone, Listed, UpToDate, Stored, Found
  <2>10. page' # NoSession /\ k.op # "delete" => Listed(walletList)'
    BY <2>2, <2>3, <2>5, <2>7, <2>8 DEF Pending, QuietHome, QuietEdit, OfThePage, Current, CurrentOrNone, Listed, UpToDate, Stored, Found
  <2>11. Stored \subseteq Stored' /\ Stored' \subseteq used
    BY <2>2, <2>3, <2>7, <2>8 DEF Stored
  <2>12. UNCHANGED <<met, used, interrupted>> /\ dialog' \in {dialog, NoWallet}
    BY <2>7
  <2>13. ~met /\ h \in Busy /\ t # Idle /\ t.op = k.op /\ t.wallet = k.wallet
    BY <1>8, <2>2, <2>5
  <2> QED
    BY <2>6, <2>9, <2>10, <2>11, <2>12, <2>13, GoesOn
<1>9. CASE ~met /\ Reload(h)
  <2>1. At(h, "reload")
    BY <1>9 DEF Reload
  <2>2. /\ h \in Busy /\ k \in Tasks /\ k.at = "reload" /\ PhaseOf(k) /\ Fits(edits, k)
        /\ Pending(k) /\ QuietHome(k) /\ QuietEdit(k)
        /\ Stored \subseteq used /\ (page # NoSession /\ k.op # "delete" => Listed(walletList))
        /\ k.op \in {"create", "delete"} => k.wallet \in used
        /\ SoundList(edits, k.list) /\ SoundStore(edits, walletStore)
    BY <1>2, <1>9, <2>1
  <2>3. k.op \in {"delete", "switch"}
    BY <2>1, <2>2 DEF PhaseOf, Tasks
  <2>a. sessionStore # NoSession
    BY <2>2 DEF QuietHome, Current, CurrentIn
  <2>4. PICK t: t = [k EXCEPT !.snap = sessionStore, !.at = "shown"]
    OBVIOUS
  <2>5. t # Idle /\ t.op = k.op /\ t.wallet = k.wallet /\ t.snap = sessionStore /\ t.at = "shown"
    BY <2>2, <2>4 DEF Tasks, Idle
  <2>6. handler' = [handler EXCEPT ![h] = t]
    BY <1>9, <2>1, <2>2, <2>4, HandlerAt, <2>a DEF Reload
  <2>7. /\ UNCHANGED <<met, used, interrupted>> /\ UNCHANGED <<walletStore, sessionStore, home, page, walletList, intended, cut, dialog>>
    BY <1>9, <2>2 DEF Reload, stores, pages, history
  <2>9. Pending(t)' /\ QuietHome(t)' /\ QuietEdit(t)'
    BY <2>2, <2>3, <2>5, <2>7
       DEF Pending, QuietHome, QuietEdit, OfThePage, Current, CurrentOrNone, Listed, UpToDate, Stored, Found
  <2>10. page' # NoSession /\ k.op # "delete" => Listed(walletList)'
    BY <2>2, <2>3, <2>5, <2>7 DEF Pending, QuietHome, QuietEdit, OfThePage, Current, CurrentOrNone, Listed, UpToDate, Stored, Found
  <2>11. Stored \subseteq Stored' /\ Stored' \subseteq used
    BY <2>2, <2>3, <2>7 DEF Stored
  <2>12. UNCHANGED <<met, used, interrupted>> /\ dialog' \in {dialog, NoWallet}
    BY <2>7
  <2>13. ~met /\ h \in Busy /\ t # Idle /\ t.op = k.op /\ t.wallet = k.wallet
    BY <1>9, <2>2, <2>5
  <2> QED
    BY <2>6, <2>9, <2>10, <2>11, <2>12, <2>13, GoesOn
<1>10. CASE ~met /\ DeleteShow(h)
  <2>1. At(h, "shown") /\ k.op = "delete"
    BY <1>10 DEF DeleteShow
  <2>2. /\ h \in Busy /\ k \in Tasks /\ k.at = "shown" /\ PhaseOf(k) /\ Fits(edits, k)
        /\ Pending(k) /\ QuietHome(k) /\ QuietEdit(k)
        /\ Stored \subseteq used /\ (page # NoSession /\ k.op # "delete" => Listed(walletList))
        /\ k.op \in {"create", "delete"} => k.wallet \in used
        /\ SoundList(edits, k.list) /\ SoundStore(edits, walletStore)
    BY <1>2, <1>10, <2>1
  <2>3. k.op = "delete"
    BY <2>1, <2>2 DEF PhaseOf, Tasks
  <2>6. handler' = [handler EXCEPT ![h] = Idle]
    BY <1>10, <2>1, HandlerAt DEF DeleteShow
  <2>7. /\ UNCHANGED <<met, used, interrupted>> /\ UNCHANGED <<walletStore, sessionStore, home, walletList, intended, cut>> /\ page' = k.snap /\ dialog' = NoWallet
    BY <1>10, <2>2 DEF DeleteShow, stores, pages, history
  <2>9. walletStore' = intended' /\ AtRest'
    BY <2>2, <2>3, <2>7
       DEF Pending, QuietHome, QuietEdit, OfThePage, Current, CurrentOrNone, Listed, UpToDate, Stored, Found, AtRest, CurrentIn
  <2>10. page' # NoSession => Listed(walletList)'
    BY <2>2, <2>3, <2>7 DEF Pending, QuietHome, QuietEdit, OfThePage, Current, CurrentOrNone, Listed, UpToDate, Stored, Found, CurrentIn
  <2>11. Stored \subseteq Stored' /\ Stored' \subseteq used
    BY <2>2, <2>3, <2>7 DEF Stored, CurrentIn
  <2>12. UNCHANGED <<met, used, interrupted>> /\ dialog' \in {dialog, NoWallet} /\ dialog' = NoWallet
    BY <2>7
  <2> QED
    BY <1>10, <2>2, <2>3, <2>6, <2>9, <2>10, <2>11, <2>12, GoesOn
<1>11. CASE ~met /\ SwitchShow(h)
  <2>1. At(h, "shown") /\ k.op = "switch"
    BY <1>11 DEF SwitchShow
  <2>2. /\ h \in Busy /\ k \in Tasks /\ k.at = "shown" /\ PhaseOf(k) /\ Fits(edits, k)
        /\ Pending(k) /\ QuietHome(k) /\ QuietEdit(k)
        /\ Stored \subseteq used /\ (page # NoSession /\ k.op # "delete" => Listed(walletList))
        /\ k.op \in {"create", "delete"} => k.wallet \in used
        /\ SoundList(edits, k.list) /\ SoundStore(edits, walletStore)
    BY <1>2, <1>11, <2>1
  <2>3. k.op = "switch"
    BY <2>1, <2>2 DEF PhaseOf, Tasks
  <2>6. handler' = [handler EXCEPT ![h] = Idle]
    BY <1>11, <2>1, HandlerAt DEF SwitchShow
  <2>7. /\ UNCHANGED <<met, used, interrupted>> /\ UNCHANGED <<walletStore, sessionStore, home, walletList, intended, cut, dialog>> /\ page' = k.snap
    BY <1>11, <2>2 DEF SwitchShow, stores, pages, history
  <2>9. walletStore' = intended' /\ AtRest'
    BY <2>2, <2>3, <2>7
       DEF Pending, QuietHome, QuietEdit, OfThePage, Current, CurrentOrNone, Listed, UpToDate, Stored, Found, AtRest, CurrentIn
  <2>10. page' # NoSession => Listed(walletList)'
    BY <2>2, <2>3, <2>7 DEF Pending, QuietHome, QuietEdit, OfThePage, Current, CurrentOrNone, Listed, UpToDate, Stored, Found, CurrentIn
  <2>11. Stored \subseteq Stored' /\ Stored' \subseteq used
    BY <2>2, <2>3, <2>7 DEF Stored, CurrentIn
  <2>12. UNCHANGED <<met, used, interrupted>> /\ dialog' \in {dialog, NoWallet}
    BY <2>7
  <2> QED
    BY <1>11, <2>2, <2>3, <2>6, <2>9, <2>10, <2>11, <2>12, GoesOn
<1>12. CASE ~met /\ ToggleWrite(h)
  <2>1. At(h, "write") /\ k.op = "toggle"
    BY <1>12 DEF ToggleWrite
  <2>2. /\ h \in Busy /\ k \in Tasks /\ k.at = "write" /\ PhaseOf(k) /\ Fits(edits, k)
        /\ Pending(k) /\ QuietHome(k) /\ QuietEdit(k)
        /\ Stored \subseteq used /\ (page # NoSession /\ k.op # "delete" => Listed(walletList))
        /\ k.op \in {"create", "delete"} => k.wallet \in used
        /\ SoundList(edits, k.list) /\ SoundStore(edits, walletStore)
    BY <1>2, <1>12, <2>1
  <2>3. k.op = "toggle"
    BY <2>1, <2>2 DEF PhaseOf, Tasks
  <2>4. PICK t: t = [k EXCEPT !.at = "find", !.snap = NoSession, !.list = <<>>, !.value = 0]
    OBVIOUS
  <2>5. t # Idle /\ t.op = k.op /\ t.wallet = k.wallet /\ t.at = "find"
    BY <2>2, <2>4 DEF Tasks, Idle
  <2>6. handler' = [handler EXCEPT ![h] = t]
    BY <1>12, <2>1, <2>2, <2>4, HandlerAt DEF ToggleWrite
  <2>7. /\ UNCHANGED <<met, used, interrupted>> /\ UNCHANGED <<sessionStore, home, page, walletList, intended, cut, dialog>> /\ walletStore' = Upserted(walletStore, k.wallet, [k.snap.settings EXCEPT !.memo = (k.value = 1)])
    BY <1>12, <2>2 DEF ToggleWrite, stores, pages, history, SaveWallet
  <2>s. SameNodes(walletStore, walletStore')
    <3>1. k.wallet \in Stored /\ k.snap = Found(k.wallet) /\ Sound(edits, Of(walletStore, k.wallet))
      BY <2>2, <2>3 DEF QuietEdit, SoundStore, Stored
    <3>2. k.snap.settings = walletStore[k.wallet] /\ walletStore[k.wallet] \in Settings
      BY <3>1 DEF Found, Of, Sound, Sessions
    <3>3. [k.snap.settings EXCEPT !.memo = (k.value = 1)].node = walletStore[k.wallet].node
      BY <3>2 DEF Settings
    <3> QED
      BY <2>7, <3>1, <3>3 DEF Upserted, SameNodes, Stored
  <2>8. /\ \A s: CurrentIn(walletStore, interrupted, cut, s) => CurrentIn(walletStore', interrupted, cut, s)
        /\ \A list: ListedIn(walletStore, list) => ListedIn(walletStore', list)
        /\ \A list: ListedIn(walletStore, list) /\ UpToDateIn(walletStore, cut, list) => UpToDateIn(walletStore', cut, list)
    BY <2>s, SameNodesKept
  <2>d. Stored' = Stored
    BY <2>s DEF SameNodes, Stored
  <2>9. Pending(t)' /\ QuietHome(t)' /\ QuietEdit(t)'
    BY <2>2, <2>3, <2>5, <2>7, <2>8, <2>d
       DEF Pending, QuietHome, QuietEdit, OfThePage, Current, CurrentOrNone, Listed, UpToDate, Stored, Found
  <2>10. page' # NoSession /\ k.op # "delete" => Listed(walletList)'
    BY <2>2, <2>3, <2>5, <2>7, <2>8, <2>d DEF Pending, QuietHome, QuietEdit, OfThePage, Current, CurrentOrNone, Listed, UpToDate, Stored, Found
  <2>11. Stored \subseteq Stored' /\ Stored' \subseteq used
    BY <2>2, <2>3, <2>7, <2>8, <2>d DEF Stored
  <2>12. UNCHANGED <<met, used, interrupted>> /\ dialog' \in {dialog, NoWallet}
    BY <2>7
  <2>13. ~met /\ h \in Busy /\ t # Idle /\ t.op = k.op /\ t.wallet = k.wallet
    BY <1>12, <2>2, <2>5
  <2> QED
    BY <2>6, <2>9, <2>10, <2>11, <2>12, <2>13, GoesOn
<1>13. CASE ~met /\ EditForAll(h)
  <2>1. At(h, "apply")
    BY <1>13 DEF EditForAll
  <2>2. /\ h \in Busy /\ k \in Tasks /\ k.at = "apply" /\ PhaseOf(k) /\ Fits(edits, k)
        /\ Pending(k) /\ QuietHome(k) /\ QuietEdit(k)
        /\ Stored \subseteq used /\ (page # NoSession /\ k.op # "delete" => Listed(walletList))
        /\ k.op \in {"create", "delete"} => k.wallet \in used
        /\ SoundList(edits, k.list) /\ SoundStore(edits, walletStore)
    BY <1>2, <1>13, <2>1
  <2>3. k.op = "settings"
    BY <2>1, <2>2 DEF PhaseOf, Tasks
  <2>4. PICK t: t = [k EXCEPT !.at = "find", !.snap = NoSession, !.list = <<>>, !.value = 0]
    OBVIOUS
  <2>5. t # Idle /\ t.op = k.op /\ t.wallet = k.wallet /\ t.at = "find"
    BY <2>2, <2>4 DEF Tasks, Idle
  <2>6. handler' = [handler EXCEPT ![h] = t]
    BY <1>13, <2>1, <2>2, <2>4, HandlerAt DEF EditForAll
  <2>7. /\ UNCHANGED <<met, used, interrupted>> /\ UNCHANGED <<sessionStore, home, page, walletList, intended, cut, dialog>> /\ walletStore' = NodeForAll(walletStore, k.wallet, k.value) /\ k.snap.settings.general
    BY <1>13, <2>2 DEF EditForAll, stores, pages, history
  <2>d. Stored' = Stored
    BY <2>7 DEF NodeForAll, Stored
  <2>8. \A list: ListedIn(walletStore, list) => ListedIn(walletStore', list)
    BY <2>d DEF ListedIn, Stored
  <2>9. Pending(t)' /\ QuietHome(t)' /\ QuietEdit(t)'
    BY <2>2, <2>3, <2>5, <2>7, <2>8, <2>d
       DEF Pending, QuietHome, QuietEdit, OfThePage, Current, CurrentOrNone, Listed, UpToDate, Stored, Found
  <2>10. page' # NoSession /\ k.op # "delete" => Listed(walletList)'
    BY <2>2, <2>3, <2>5, <2>7, <2>8, <2>d DEF Pending, QuietHome, QuietEdit, OfThePage, Current, CurrentOrNone, Listed, UpToDate, Stored, Found
  <2>11. Stored \subseteq Stored' /\ Stored' \subseteq used
    BY <2>2, <2>3, <2>7, <2>8, <2>d DEF Stored
  <2>12. UNCHANGED <<met, used, interrupted>> /\ dialog' \in {dialog, NoWallet}
    BY <2>7
  <2>13. ~met /\ h \in Busy /\ t # Idle /\ t.op = k.op /\ t.wallet = k.wallet
    BY <1>13, <2>2, <2>5
  <2> QED
    BY <2>6, <2>9, <2>10, <2>11, <2>12, <2>13, GoesOn
<1>14. CASE ~met /\ EditSession(h)
  <2>1. At(h, "apply")
    BY <1>14 DEF EditSession
  <2>2. /\ h \in Busy /\ k \in Tasks /\ k.at = "apply" /\ PhaseOf(k) /\ Fits(edits, k)
        /\ Pending(k) /\ QuietHome(k) /\ QuietEdit(k)
        /\ Stored \subseteq used /\ (page # NoSession /\ k.op # "delete" => Listed(walletList))
        /\ k.op \in {"create", "delete"} => k.wallet \in used
        /\ SoundList(edits, k.list) /\ SoundStore(edits, walletStore)
    BY <1>2, <1>14, <2>1
  <2>3. k.op = "settings"
    BY <2>1, <2>2 DEF PhaseOf, Tasks
  <2>4. PICK t: t = [k EXCEPT !.at = "write"]
    OBVIOUS
  <2>5. t # Idle /\ t.op = k.op /\ t.wallet = k.wallet /\ t.at = "write" /\ t.snap = k.snap /\ t.value = k.value
    BY <2>2, <2>4 DEF Tasks, Idle
  <2>6. handler' = [handler EXCEPT ![h] = t]
    BY <1>14, <2>1, <2>2, <2>4, HandlerAt DEF EditSession
  <2>7. /\ UNCHANGED <<met, used, interrupted>> /\ UNCHANGED <<walletStore, home, page, walletList, intended, cut, dialog>> /\ sessionStore' = [wallet |-> k.wallet, settings |-> [k.snap.settings EXCEPT !.node = k.value]] /\ ~k.snap.settings.general
    BY <1>14, <2>2 DEF EditSession, stores, pages, history, EditedWallet
  <2>8. sessionStore' # NoSession /\ sessionStore'.wallet = k.wallet
    <3>1. Sound(edits, k.snap) /\ k.value \in 0 .. MaxEdits /\ k.wallet \in Wallets
      BY <2>2, <2>3, SessionAssumption DEF Fits, WritesWhatItRead, SessionInv, Tasks
    <3>2. [k.snap.settings EXCEPT !.node = k.value] \in Settings
      BY <3>1 DEF Sound, Sessions, Settings
    <3>3. sessionStore' \in Sessions
      BY <2>7, <3>1, <3>2 DEF Sessions
    <3> QED
      BY <2>7, <3>3, SessionAssumption
  <2>9. Pending(t)' /\ QuietHome(t)' /\ QuietEdit(t)'
    BY <2>2, <2>3, <2>5, <2>7, <2>8
       DEF Pending, QuietHome, QuietEdit, OfThePage, Current, CurrentOrNone, Listed, UpToDate, Stored, Found
  <2>10. page' # NoSession /\ k.op # "delete" => Listed(walletList)'
    BY <2>2, <2>3, <2>5, <2>7, <2>8 DEF Pending, QuietHome, QuietEdit, OfThePage, Current, CurrentOrNone, Listed, UpToDate, Stored, Found
  <2>11. Stored \subseteq Stored' /\ Stored' \subseteq used
    BY <2>2, <2>3, <2>7, <2>8 DEF Stored
  <2>12. UNCHANGED <<met, used, interrupted>> /\ dialog' \in {dialog, NoWallet}
    BY <2>7
  <2>13. ~met /\ h \in Busy /\ t # Idle /\ t.op = k.op /\ t.wallet = k.wallet
    BY <1>14, <2>2, <2>5
  <2> QED
    BY <2>6, <2>9, <2>10, <2>11, <2>12, <2>13, GoesOn
<1>15. CASE ~met /\ EditWrite(h)
  <2>1. At(h, "write") /\ k.op = "settings"
    BY <1>15 DEF EditWrite
  <2>2. /\ h \in Busy /\ k \in Tasks /\ k.at = "write" /\ PhaseOf(k) /\ Fits(edits, k)
        /\ Pending(k) /\ QuietHome(k) /\ QuietEdit(k)
        /\ Stored \subseteq used /\ (page # NoSession /\ k.op # "delete" => Listed(walletList))
        /\ k.op \in {"create", "delete"} => k.wallet \in used
        /\ SoundList(edits, k.list) /\ SoundStore(edits, walletStore)
    BY <1>2, <1>15, <2>1
  <2>3. k.op = "settings"
    BY <2>1, <2>2 DEF PhaseOf, Tasks
  <2>4. PICK t: t = [k EXCEPT !.at = "find", !.snap = NoSession, !.list = <<>>, !.value = 0]
    OBVIOUS
  <2>5. t # Idle /\ t.op = k.op /\ t.wallet = k.wallet /\ t.at = "find"
    BY <2>2, <2>4 DEF Tasks, Idle
  <2>6. handler' = [handler EXCEPT ![h] = t]
    BY <1>15, <2>1, <2>2, <2>4, HandlerAt DEF EditWrite
  <2>7. /\ UNCHANGED <<met, used, interrupted>> /\ UNCHANGED <<sessionStore, home, page, walletList, intended, cut, dialog>> /\ walletStore' = Upserted(walletStore, k.wallet, [k.snap.settings EXCEPT !.node = k.value])
    BY <1>15, <2>2 DEF EditWrite, stores, pages, history, SaveWallet, EditedWallet
  <2>d. Stored' = Stored
    BY <2>2, <2>3, <2>7 DEF QuietEdit, Upserted, Stored
  <2>8. \A list: ListedIn(walletStore, list) => ListedIn(walletStore', list)
    BY <2>d DEF ListedIn, Stored
  <2>9. Pending(t)' /\ QuietHome(t)' /\ QuietEdit(t)'
    BY <2>2, <2>3, <2>5, <2>7, <2>8, <2>d
       DEF Pending, QuietHome, QuietEdit, OfThePage, Current, CurrentOrNone, Listed, UpToDate, Stored, Found
  <2>10. page' # NoSession /\ k.op # "delete" => Listed(walletList)'
    BY <2>2, <2>3, <2>5, <2>7, <2>8, <2>d DEF Pending, QuietHome, QuietEdit, OfThePage, Current, CurrentOrNone, Listed, UpToDate, Stored, Found
  <2>11. Stored \subseteq Stored' /\ Stored' \subseteq used
    BY <2>2, <2>3, <2>7, <2>8, <2>d DEF Stored
  <2>12. UNCHANGED <<met, used, interrupted>> /\ dialog' \in {dialog, NoWallet}
    BY <2>7
  <2>13. ~met /\ h \in Busy /\ t # Idle /\ t.op = k.op /\ t.wallet = k.wallet
    BY <1>15, <2>2, <2>5
  <2> QED
    BY <2>6, <2>9, <2>10, <2>11, <2>12, <2>13, GoesOn
<1>16. CASE ~met /\ FindUpdated(h)
  <2>1. At(h, "find")
    BY <1>16 DEF FindUpdated
  <2>2. /\ h \in Busy /\ k \in Tasks /\ k.at = "find" /\ PhaseOf(k) /\ Fits(edits, k)
        /\ Pending(k) /\ QuietHome(k) /\ QuietEdit(k)
        /\ Stored \subseteq used /\ (page # NoSession /\ k.op # "delete" => Listed(walletList))
        /\ k.op \in {"create", "delete"} => k.wallet \in used
        /\ SoundList(edits, k.list) /\ SoundStore(edits, walletStore)
    BY <1>2, <1>16, <2>1
  <2>3. k.op \in {"toggle", "propagate", "settings"}
    BY <2>1, <2>2 DEF PhaseOf, Tasks
  <2>a. PICK next: next = IF k.op = "settings" THEN "both" ELSE "store"
    OBVIOUS
  <2>4. PICK t: t = [k EXCEPT !.snap = Found(k.wallet), !.at = next]
    OBVIOUS
  <2>5. t # Idle /\ t.op = k.op /\ t.wallet = k.wallet /\ t.snap = Found(k.wallet) /\ t.at = next
    BY <2>2, <2>4 DEF Tasks, Idle
  <2>6. handler' = [handler EXCEPT ![h] = t]
    BY <1>16, <2>2, <2>4, <2>a DEF FindUpdated
  <2>7. /\ UNCHANGED <<met, used, interrupted>> /\ UNCHANGED <<walletStore, sessionStore, home, page, walletList, intended, cut, dialog>>
    BY <1>16, <2>2 DEF FindUpdated, stores, pages, history
  <2>9. Pending(t)' /\ QuietHome(t)' /\ QuietEdit(t)'
    BY <2>2, <2>3, <2>5, <2>7, <2>a
       DEF Pending, QuietHome, QuietEdit, OfThePage, Current, CurrentOrNone, Listed, UpToDate, Stored, Found
  <2>10. page' # NoSession /\ k.op # "delete" => Listed(walletList)'
    BY <2>2, <2>3, <2>5, <2>7, <2>a DEF Pending, QuietHome, QuietEdit, OfThePage, Current, CurrentOrNone, Listed, UpToDate, Stored, Found
  <2>11. Stored \subseteq Stored' /\ Stored' \subseteq used
    BY <2>2, <2>3, <2>7, <2>a DEF Stored
  <2>12. UNCHANGED <<met, used, interrupted>> /\ dialog' \in {dialog, NoWallet}
    BY <2>7
  <2>13. ~met /\ h \in Busy /\ t # Idle /\ t.op = k.op /\ t.wallet = k.wallet
    BY <1>16, <2>2, <2>5
  <2> QED
    BY <2>6, <2>9, <2>10, <2>11, <2>12, <2>13, GoesOn
<1>17. CASE ~met /\ StoreSession(h)
  <2>1. At(h, "store")
    BY <1>17 DEF StoreSession
  <2>2. /\ h \in Busy /\ k \in Tasks /\ k.at = "store" /\ PhaseOf(k) /\ Fits(edits, k)
        /\ Pending(k) /\ QuietHome(k) /\ QuietEdit(k)
        /\ Stored \subseteq used /\ (page # NoSession /\ k.op # "delete" => Listed(walletList))
        /\ k.op \in {"create", "delete"} => k.wallet \in used
        /\ SoundList(edits, k.list) /\ SoundStore(edits, walletStore)
    BY <1>2, <1>17, <2>1
  <2>3. k.op \in {"toggle", "propagate"}
    BY <2>1, <2>2 DEF PhaseOf, Tasks
  <2>4. PICK t: t = [k EXCEPT !.at = "show"]
    OBVIOUS
  <2>5. t # Idle /\ t.op = k.op /\ t.wallet = k.wallet /\ t.at = "show" /\ t.snap = k.snap
    BY <2>2, <2>4 DEF Tasks, Idle
  <2>6. handler' = [handler EXCEPT ![h] = t]
    BY <1>17, <2>1, <2>2, <2>4, HandlerAt DEF StoreSession
  <2>7. /\ UNCHANGED <<met, used, interrupted>> /\ UNCHANGED <<walletStore, home, page, walletList, intended, cut, dialog>> /\ sessionStore' = k.snap
    BY <1>17, <2>2 DEF StoreSession, stores, pages, history
  <2>8. CurrentOrNone(k.snap)
    BY <2>2, ReadIsCurrent DEF QuietEdit
  <2>9. Pending(t)' /\ QuietHome(t)' /\ QuietEdit(t)'
    BY <2>2, <2>3, <2>5, <2>7, <2>8
       DEF Pending, QuietHome, QuietEdit, OfThePage, Current, CurrentOrNone, Listed, UpToDate, Stored, Found
  <2>10. page' # NoSession /\ k.op # "delete" => Listed(walletList)'
    BY <2>2, <2>3, <2>5, <2>7, <2>8 DEF Pending, QuietHome, QuietEdit, OfThePage, Current, CurrentOrNone, Listed, UpToDate, Stored, Found
  <2>11. Stored \subseteq Stored' /\ Stored' \subseteq used
    BY <2>2, <2>3, <2>7, <2>8 DEF Stored
  <2>12. UNCHANGED <<met, used, interrupted>> /\ dialog' \in {dialog, NoWallet}
    BY <2>7
  <2>13. ~met /\ h \in Busy /\ t # Idle /\ t.op = k.op /\ t.wallet = k.wallet
    BY <1>17, <2>2, <2>5
  <2> QED
    BY <2>6, <2>9, <2>10, <2>11, <2>12, <2>13, GoesOn
<1>18. CASE ~met /\ ShowSession(h)
  <2>1. At(h, "show")
    BY <1>18 DEF ShowSession
  <2>2. /\ h \in Busy /\ k \in Tasks /\ k.at = "show" /\ PhaseOf(k) /\ Fits(edits, k)
        /\ Pending(k) /\ QuietHome(k) /\ QuietEdit(k)
        /\ Stored \subseteq used /\ (page # NoSession /\ k.op # "delete" => Listed(walletList))
        /\ k.op \in {"create", "delete"} => k.wallet \in used
        /\ SoundList(edits, k.list) /\ SoundStore(edits, walletStore)
    BY <1>2, <1>18, <2>1
  <2>3. k.op \in {"toggle", "propagate", "currency"}
    BY <2>1, <2>2 DEF PhaseOf, Tasks
  <2>6. handler' = [handler EXCEPT ![h] = Idle]
    BY <1>18, <2>1, HandlerAt DEF ShowSession
  <2>7. /\ UNCHANGED <<met, used, interrupted>> /\ UNCHANGED <<walletStore, sessionStore, home, walletList, intended, cut, dialog>> /\ page' = k.snap
    BY <1>18, <2>2 DEF ShowSession, stores, pages, history
  <2>9. walletStore' = intended' /\ AtRest'
    BY <2>2, <2>3, <2>7
       DEF Pending, QuietHome, QuietEdit, OfThePage, Current, CurrentOrNone, Listed, UpToDate, Stored, Found, AtRest, CurrentIn
  <2>10. page' # NoSession => Listed(walletList)'
    BY <2>2, <2>3, <2>7 DEF Pending, QuietHome, QuietEdit, OfThePage, Current, CurrentOrNone, Listed, UpToDate, Stored, Found, CurrentIn
  <2>11. Stored \subseteq Stored' /\ Stored' \subseteq used
    BY <2>2, <2>3, <2>7 DEF Stored, CurrentIn
  <2>12. UNCHANGED <<met, used, interrupted>> /\ dialog' \in {dialog, NoWallet}
    BY <2>7
  <2> QED
    BY <1>18, <2>2, <2>3, <2>6, <2>9, <2>10, <2>11, <2>12, GoesOn
<1>19. CASE ~met /\ ShowAndStore(h)
  <2>1. At(h, "both")
    BY <1>19 DEF ShowAndStore
  <2>2. /\ h \in Busy /\ k \in Tasks /\ k.at = "both" /\ PhaseOf(k) /\ Fits(edits, k)
        /\ Pending(k) /\ QuietHome(k) /\ QuietEdit(k)
        /\ Stored \subseteq used /\ (page # NoSession /\ k.op # "delete" => Listed(walletList))
        /\ k.op \in {"create", "delete"} => k.wallet \in used
        /\ SoundList(edits, k.list) /\ SoundStore(edits, walletStore)
    BY <1>2, <1>19, <2>1
  <2>3. k.op \in {"settings", "asset"}
    BY <2>1, <2>2 DEF PhaseOf, Tasks
  <2>4. PICK t: t = [k EXCEPT !.at = "all", !.snap = NoSession, !.list = <<>>, !.value = 0]
    OBVIOUS
  <2>5. t # Idle /\ t.op = k.op /\ t.wallet = k.wallet /\ t.at = "all"
    BY <2>2, <2>4 DEF Tasks, Idle
  <2>6. handler' = [handler EXCEPT ![h] = t]
    BY <1>19, <2>1, <2>2, <2>4, HandlerAt DEF ShowAndStore
  <2>7. /\ UNCHANGED <<met, used, interrupted>> /\ UNCHANGED <<walletStore, home, walletList, intended, cut, dialog>> /\ page' = k.snap /\ sessionStore' = k.snap
    BY <1>19, <2>2 DEF ShowAndStore, stores, pages, history
  <2>8. CurrentOrNone(k.snap)
    BY <2>2, ReadIsCurrent DEF QuietEdit
  <2>9. Pending(t)' /\ QuietHome(t)' /\ QuietEdit(t)'
    BY <2>2, <2>3, <2>5, <2>7, <2>8
       DEF Pending, QuietHome, QuietEdit, OfThePage, Current, CurrentOrNone, Listed, UpToDate, Stored, Found
  <2>10. page' # NoSession /\ k.op # "delete" => Listed(walletList)'
    BY <2>2, <2>3, <2>5, <2>7, <2>8 DEF Pending, QuietHome, QuietEdit, OfThePage, Current, CurrentOrNone, Listed, UpToDate, Stored, Found
  <2>11. Stored \subseteq Stored' /\ Stored' \subseteq used
    BY <2>2, <2>3, <2>7, <2>8 DEF Stored
  <2>12. UNCHANGED <<met, used, interrupted>> /\ dialog' \in {dialog, NoWallet}
    BY <2>7
  <2>13. ~met /\ h \in Busy /\ t # Idle /\ t.op = k.op /\ t.wallet = k.wallet
    BY <1>19, <2>2, <2>5
  <2> QED
    BY <2>6, <2>9, <2>10, <2>11, <2>12, <2>13, GoesOn
<1>20. CASE ~met /\ ReadList(h)
  <2>1. At(h, "all")
    BY <1>20 DEF ReadList
  <2>2. /\ h \in Busy /\ k \in Tasks /\ k.at = "all" /\ PhaseOf(k) /\ Fits(edits, k)
        /\ Pending(k) /\ QuietHome(k) /\ QuietEdit(k)
        /\ Stored \subseteq used /\ (page # NoSession /\ k.op # "delete" => Listed(walletList))
        /\ k.op \in {"create", "delete"} => k.wallet \in used
        /\ SoundList(edits, k.list) /\ SoundStore(edits, walletStore)
    BY <1>2, <1>20, <2>1
  <2>3. k.op \in {"settings", "asset"}
    BY <2>1, <2>2 DEF PhaseOf, Tasks
  <2>4. PICK t: t = [k EXCEPT !.list = AllWallets, !.at = "refill"]
    OBVIOUS
  <2>5. t # Idle /\ t.op = k.op /\ t.wallet = k.wallet /\ t.list = AllWallets /\ t.at = "refill"
    BY <2>2, <2>4 DEF Tasks, Idle
  <2>6. handler' = [handler EXCEPT ![h] = t]
    BY <1>20, <2>1, <2>2, <2>4, HandlerAt DEF ReadList
  <2>7. /\ UNCHANGED <<met, used, interrupted>> /\ UNCHANGED <<walletStore, sessionStore, home, page, walletList, intended, cut, dialog>>
    BY <1>20, <2>2 DEF ReadList, stores, pages, history
  <2>8. ListedIn(walletStore, t.list) /\ UpToDateIn(walletStore, cut, t.list)
    BY <2>5, ReadIsCurrent DEF Listed, UpToDate
  <2>9. Pending(t)' /\ QuietHome(t)' /\ QuietEdit(t)'
    BY <2>2, <2>3, <2>5, <2>7, <2>8
       DEF Pending, QuietHome, QuietEdit, OfThePage, Current, CurrentOrNone, Listed, UpToDate, Stored, Found
  <2>10. page' # NoSession /\ k.op # "delete" => Listed(walletList)'
    BY <2>2, <2>3, <2>5, <2>7, <2>8 DEF Pending, QuietHome, QuietEdit, OfThePage, Current, CurrentOrNone, Listed, UpToDate, Stored, Found
  <2>11. Stored \subseteq Stored' /\ Stored' \subseteq used
    BY <2>2, <2>3, <2>7, <2>8 DEF Stored
  <2>12. UNCHANGED <<met, used, interrupted>> /\ dialog' \in {dialog, NoWallet}
    BY <2>7
  <2>13. ~met /\ h \in Busy /\ t # Idle /\ t.op = k.op /\ t.wallet = k.wallet
    BY <1>20, <2>2, <2>5
  <2> QED
    BY <2>6, <2>9, <2>10, <2>11, <2>12, <2>13, GoesOn
<1>21. CASE ~met /\ ShowList(h)
  <2>1. At(h, "refill")
    BY <1>21 DEF ShowList
  <2>2. /\ h \in Busy /\ k \in Tasks /\ k.at = "refill" /\ PhaseOf(k) /\ Fits(edits, k)
        /\ Pending(k) /\ QuietHome(k) /\ QuietEdit(k)
        /\ Stored \subseteq used /\ (page # NoSession /\ k.op # "delete" => Listed(walletList))
        /\ k.op \in {"create", "delete"} => k.wallet \in used
        /\ SoundList(edits, k.list) /\ SoundStore(edits, walletStore)
    BY <1>2, <1>21, <2>1
  <2>3. k.op \in {"settings", "asset"}
    BY <2>1, <2>2 DEF PhaseOf, Tasks
  <2>6. handler' = [handler EXCEPT ![h] = Idle]
    BY <1>21, <2>1, HandlerAt DEF ShowList
  <2>7. /\ UNCHANGED <<met, used, interrupted>> /\ UNCHANGED <<walletStore, sessionStore, home, page, intended, cut, dialog>> /\ walletList' = k.list
    BY <1>21, <2>2 DEF ShowList, stores, pages, history
  <2>9. walletStore' = intended' /\ AtRest'
    BY <2>2, <2>3, <2>7
       DEF Pending, QuietHome, QuietEdit, OfThePage, Current, CurrentOrNone, Listed, UpToDate, Stored, Found, AtRest
  <2>10. page' # NoSession => Listed(walletList)'
    BY <2>2, <2>3, <2>7 DEF Pending, QuietHome, QuietEdit, OfThePage, Current, CurrentOrNone, Listed, UpToDate, Stored, Found
  <2>11. Stored \subseteq Stored' /\ Stored' \subseteq used
    BY <2>2, <2>3, <2>7 DEF Stored
  <2>12. UNCHANGED <<met, used, interrupted>> /\ dialog' \in {dialog, NoWallet}
    BY <2>7
  <2> QED
    BY <1>21, <2>2, <2>3, <2>6, <2>9, <2>10, <2>11, <2>12, GoesOn
<1>22. CASE ~met /\ MigratedSession(h)
  <2>1. At(h, "migrated")
    BY <1>22 DEF MigratedSession
  <2>2. /\ h \in Busy /\ k \in Tasks /\ k.at = "migrated" /\ PhaseOf(k) /\ Fits(edits, k)
        /\ Pending(k) /\ QuietHome(k) /\ QuietEdit(k)
        /\ Stored \subseteq used /\ (page # NoSession /\ k.op # "delete" => Listed(walletList))
        /\ k.op \in {"create", "delete"} => k.wallet \in used
        /\ SoundList(edits, k.list) /\ SoundStore(edits, walletStore)
    BY <1>2, <1>22, <2>1
  <2>3. k.op = "migrate"
    BY <2>1, <2>2 DEF PhaseOf, Tasks
  <2>6. handler' = [handler EXCEPT ![h] = Idle]
    BY <1>22, <2>1, HandlerAt DEF MigratedSession
  <2>7. /\ UNCHANGED <<met, used, interrupted>> /\ UNCHANGED <<walletStore, home, page, walletList, intended, cut, dialog>> /\ sessionStore' \in {k.snap, sessionStore}
    BY <1>22, <2>2 DEF MigratedSession, stores, pages, history
  <2>9. walletStore' = intended' /\ AtRest'
    BY <2>2, <2>3, <2>7
       DEF Pending, QuietHome, QuietEdit, OfThePage, Current, CurrentOrNone, Listed, UpToDate, Stored, Found, AtRest, CurrentIn
  <2>10. page' # NoSession => Listed(walletList)'
    BY <2>2, <2>3, <2>7 DEF Pending, QuietHome, QuietEdit, OfThePage, Current, CurrentOrNone, Listed, UpToDate, Stored, Found, CurrentIn
  <2>11. Stored \subseteq Stored' /\ Stored' \subseteq used
    BY <2>2, <2>3, <2>7 DEF Stored, CurrentIn
  <2>12. UNCHANGED <<met, used, interrupted>> /\ dialog' \in {dialog, NoWallet}
    BY <2>7
  <2> QED
    BY <1>22, <2>2, <2>3, <2>6, <2>9, <2>10, <2>11, <2>12, GoesOn
<1>m. met' = met
  BY DEF HandlerStep, MountWallets, MountShow, PersistPhrase, SetNewSession, DeleteList, SelectFirst,
         Reload, DeleteShow, SwitchShow, ToggleWrite, EditForAll, EditSession, EditWrite, FindUpdated,
         StoreSession, ShowSession, ShowAndStore, ReadList, ShowList, MigratedSession, history
<1> QED
  BY <1>1, <1>m, <1>3, <1>4, <1>5, <1>6, <1>7, <1>8, <1>9, <1>10, <1>11, <1>12, <1>13, <1>14, <1>15, <1>16, <1>17, <1>18, <1>19, <1>20, <1>21, <1>22
     DEF HandlerStep

(* A handler is begun while none is in flight. *)
LEMMA GoesFrom ==
  ASSUME SessionInv, QuietInv, ~met', NEW h \in Handlers, NEW t, t # Idle, Begin(h, t),
         UNCHANGED <<interrupted, dialog>>, used \subseteq used', Stored' \subseteq used',
         t.op \in {"create", "delete"} => t.wallet \in used',
         t.op # "delete" => Stored \subseteq Stored' /\ (page' # NoSession => Listed(walletList)'),
         Pending(t)', QuietHome(t)', QuietEdit(t)'
  PROVE  QuietInv'
<1>1. ~met /\ Busy = {} /\ Deleting = {}
  BY DEF Begin, Deleting
<1>2. Busy' \subseteq Handlers /\ h \in Busy' /\ \A g \in Busy': g = h /\ handler'[g] = t
  <2>1. \A g \in Handlers: /\ g # h => g \notin Busy'
                           /\ handler'[h] = t /\ (h \in Busy' <=> t # Idle)
    BY <1>1, BusyAfter DEF Begin
  <2>2. Busy' \subseteq Handlers
    BY DEF Busy
  <2> QED
    BY <2>1, <2>2
<1>3. Deleting' = {} => t.op # "delete"
  BY <1>2 DEF Deleting
<1>4. QuietPages'
  <2>1. Stored' \union interrupted' \subseteq used'
    BY <1>1 DEF QuietInv, QuietPages
  <2>2. dialog' # NoWallet /\ Deleting' = {} => \E u, v \in Stored': u # v
    BY <1>1, <1>3 DEF QuietInv, QuietPages
  <2> QED
    BY <1>3, <2>1, <2>2 DEF QuietPages
<1>5. \A g \in Busy': /\ Pending(handler[g])' /\ QuietHome(handler[g])' /\ QuietEdit(handler[g])'
                      /\ handler'[g].op \in {"create", "delete"} => handler'[g].wallet \in used'
  <2>1. \A x: x = t => Pending(x)' /\ QuietHome(x)' /\ QuietEdit(x)'
    OBVIOUS
  <2> QED
    BY <1>2, <2>1 DEF Pending, QuietHome, QuietEdit, OfThePage
<1>6. \A g, j \in Busy': g = j
  BY <1>2
<1> QED
  BY <1>2, <1>4, <1>5, <1>6 DEF QuietInv

(* The operations of the user, and the mounting of home. *)
LEMMA QuietUser ==
  ASSUME SessionInv, DialogInv, QuietInv, NEW h \in Handlers, UserStep(h)
  PROVE  QuietInv'
<1>1. CASE met'
  BY <1>1 DEF QuietInv
<1>2. ASSUME ~met', NEW t, Begin(h, t)
      PROVE  /\ ~met /\ Busy = {} /\ walletStore = intended /\ AtRest
             /\ Stored \subseteq used /\ interrupted \subseteq used
             /\ (page # NoSession => Listed(walletList))
             /\ (dialog # NoWallet => \E u, v \in Stored: u # v)
  <2>1. ~met /\ Busy = {} /\ Deleting = {}
    BY <1>2 DEF Begin, Deleting
  <2> QED
    BY <2>1 DEF QuietInv, QuietPages
<1>3. /\ \A s: SoundOrNone(edits, s) /\ s # NoSession => s \in Sessions /\ s.wallet \in Wallets /\ s.settings \in Settings
      /\ SoundOrNone(edits, page) /\ SoundOrNone(edits, sessionStore) /\ SoundStore(edits, walletStore)
      /\ walletList \in Seq(Sessions) /\ NoSession \notin Sessions /\ Len(edits) \in Nat
  BY SessionAssumption DEF SessionInv, SoundOrNone, Sound, Sessions, SoundList
<1>4. ASSUME ~met', MountHome(h), sessionStore = NoSession PROVE QuietInv'
  <2>1. /\ UNCHANGED <<walletStore, sessionStore, handler, met, page, walletList, dialog, used, intended, interrupted, cut>>
    BY <1>4 DEF MountHome, stores
  <2>2. Busy' = Busy /\ Deleting' = Deleting
    BY <2>1 DEF Busy, Deleting
  <2>3. QuietPages'
    BY <1>4, <2>1, <2>2 DEF QuietInv, QuietPages, Listed, Stored
  <2>4. Busy = {} => walletStore' = intended' /\ AtRest'
    BY <1>4, <2>1 DEF QuietInv, AtRest, Current, CurrentOrNone, UpToDate
  <2>5. \A t: Pending(t) /\ QuietHome(t) /\ QuietEdit(t) => Pending(t)' /\ QuietHome(t)' /\ QuietEdit(t)'
    BY <1>4, <2>1 DEF Pending, QuietHome, QuietEdit, OfThePage, Current, CurrentOrNone, Listed, UpToDate, Stored, Found
  <2> QED
    BY <1>4, <2>1, <2>2, <2>3, <2>4, <2>5 DEF QuietInv, Pending, QuietHome, QuietEdit, OfThePage
<1>5. ASSUME ~met',  MountHome(h), sessionStore # NoSession PROVE QuietInv'
  <2>1. PICK t: t = [Started("start", "wallets", NoWallet) EXCEPT !.snap = sessionStore]
    OBVIOUS
  <2>2. t # Idle /\ t.op = "start" /\ t.at = "wallets" /\ t.snap = sessionStore
    BY <2>1 DEF Started, Idle
  <2>3. Begin(h, t)
    BY <1>5, <2>1 DEF MountHome
  <2>4. /\ ~met /\ Busy = {} /\ walletStore = intended /\ AtRest
        /\ Stored \subseteq used /\ interrupted \subseteq used
        /\ (page # NoSession => Listed(walletList))
        /\ (dialog # NoWallet => \E u, v \in Stored: u # v)
    BY <1>5, <1>2, <2>3
  <2>5. /\ UNCHANGED <<walletStore, sessionStore, page, walletList, interrupted, cut, dialog, used, intended>>
        /\ sessionStore # NoSession
    BY <1>5, <2>4 DEF MountHome, stores, pages, Click, EditUnchanged, Intend
  <2>8. Pending(t)' /\ QuietHome(t)' /\ QuietEdit(t)'
    BY <1>3, <2>2, <2>4, <2>5
       DEF Pending, QuietHome, QuietEdit, OfThePage, Current, CurrentOrNone, Listed, UpToDate, Stored, Found, AtRest
  <2>9. /\ UNCHANGED <<interrupted, dialog>> /\ used \subseteq used' /\ Stored' \subseteq used'
        /\ t.op \in {"create", "delete"} => t.wallet \in used'
    BY <2>2, <2>4, <2>5 DEF Stored, AtRest, Current, CurrentIn
  <2>10. t.op # "delete" => Stored \subseteq Stored' /\ (page' # NoSession => Listed(walletList)')
    BY <2>2, <2>4, <2>5 DEF Stored, Listed
  <2>11. ~met'
    BY <1>5
  <2> QED
    BY <2>2, <2>3, <2>8, <2>9, <2>10, <2>11, GoesFrom
<1>6. ASSUME ~met', NEW w \in Wallets, CreateWallet(h, w) PROVE QuietInv'
  <2>1. PICK t: t = Started("create", "seed", w)
    OBVIOUS
  <2>2. t # Idle /\ t.op = "create" /\ t.at = "seed" /\ t.wallet = w
    BY <2>1 DEF Started, Idle
  <2>3. Begin(h, t)
    BY <1>6, <2>1 DEF CreateWallet
  <2>4. /\ ~met /\ Busy = {} /\ walletStore = intended /\ AtRest
        /\ Stored \subseteq used /\ interrupted \subseteq used
        /\ (page # NoSession => Listed(walletList))
        /\ (dialog # NoWallet => \E u, v \in Stored: u # v)
    BY <1>6, <1>2, <2>3
  <2>5. UNCHANGED <<sessionStore, page, walletList, interrupted, cut, dialog>> /\ home' = "away" /\ walletStore' = Upserted(walletStore, w, Fresh) /\ used' = used \union {w} /\ w \notin used /\ intended' = Upserted(walletStore, w, Fresh)
    BY <1>6, <2>4 DEF CreateWallet, stores, pages, Click, EditUnchanged, Intend, SaveWallet
  <2>6. /\ DOMAIN walletStore' = Stored \union {w} /\ walletStore'[w] = Fresh
        /\ \A v \in Stored: walletStore'[v] = walletStore[v]
    BY <2>4, <2>5 DEF Upserted, Stored
  <2>7. /\ \A s: CurrentIn(walletStore, interrupted, cut, s) => CurrentIn(walletStore', interrupted, cut, s)
        /\ \A list: ListedIn(walletStore, list) => ListedIn(walletStore', list)
    BY <2>4, <2>5, <2>6 DEF CurrentIn, ListedIn, Stored
  <2>a. sessionStore' = NoSession \/ CurrentIn(walletStore', interrupted', cut', sessionStore')
    BY <2>4, <2>5, <2>7 DEF AtRest, CurrentOrNone, Current
  <2>b. Pending(t)' /\ QuietEdit(t)'
    BY <2>2, <2>4, <2>5 DEF Pending, QuietEdit, OfThePage
  <2>c. QuietHome(t)'
    <3>1. page' # NoSession => home' = "away" /\ sessionStore' # NoSession
      BY <2>4, <2>5 DEF AtRest
    <3>2. t.wallet \in Stored' /\ walletStore'[t.wallet] = Fresh
      BY <2>2, <2>6 DEF Stored
    <3> QED
      BY <2>2, <2>a, <3>1, <3>2 DEF QuietHome, CurrentOrNone, Current
  <2>8. Pending(t)' /\ QuietHome(t)' /\ QuietEdit(t)'
    BY <2>b, <2>c
  <2>9. /\ UNCHANGED <<interrupted, dialog>> /\ used \subseteq used' /\ Stored' \subseteq used'
        /\ t.op \in {"create", "delete"} => t.wallet \in used'
    BY <2>2, <2>4, <2>5, <2>6, <2>7 DEF Stored, AtRest, Current, CurrentIn
  <2>10. t.op # "delete" => Stored \subseteq Stored' /\ (page' # NoSession => Listed(walletList)')
    BY <2>2, <2>4, <2>5, <2>6, <2>7 DEF Stored, Listed
  <2>11. ~met'
    BY <1>6
  <2> QED
    BY <2>2, <2>3, <2>8, <2>9, <2>10, <2>11, GoesFrom
<1>7. ASSUME ~met',  SubmitDelete(h) PROVE QuietInv'
  <2>1. PICK t: t = Started("delete", "list", page.wallet)
    OBVIOUS
  <2>2. t # Idle /\ t.op = "delete" /\ t.at = "list" /\ t.wallet = page.wallet
    BY <2>1 DEF Started, Idle
  <2>3. Begin(h, t)
    BY <1>7, <2>1 DEF SubmitDelete
  <2>4. /\ ~met /\ Busy = {} /\ walletStore = intended /\ AtRest
        /\ Stored \subseteq used /\ interrupted \subseteq used
        /\ (page # NoSession => Listed(walletList))
        /\ (dialog # NoWallet => \E u, v \in Stored: u # v)
    BY <1>7, <1>2, <2>3
  <2>5. UNCHANGED <<sessionStore, home, page, walletList, interrupted, cut, dialog, used>> /\ page # NoSession /\ deletion = "typing" /\ walletStore' = Restrict(walletStore, Stored \ {page.wallet}) /\ intended' = Restrict(intended, DOMAIN intended \ {page.wallet})
    BY <1>7, <2>4 DEF SubmitDelete, stores, pages, Click, EditUnchanged, Intend, MayDelete
  <2>6. DOMAIN walletStore' = Stored \ {page.wallet} /\ walletStore' = intended'
    BY <2>4, <2>5 DEF Restrict, Stored
  <2>7. home = "mounted" /\ DOMAIN walletStore' # {} /\ sessionStore.wallet = page.wallet
        /\ page.wallet \in Stored \union interrupted
    BY <2>4, <2>5, <2>6 DEF DialogInv, AtRest, Current, CurrentIn, Stored
  <2>8. Pending(t)' /\ QuietHome(t)' /\ QuietEdit(t)'
    BY <1>3, <2>2, <2>4, <2>5, <2>6, <2>7
       DEF Pending, QuietHome, QuietEdit, OfThePage, Current, CurrentOrNone, Listed, UpToDate, Stored, Found, AtRest
  <2>9. /\ UNCHANGED <<interrupted, dialog>> /\ used \subseteq used' /\ Stored' \subseteq used'
        /\ t.op \in {"create", "delete"} => t.wallet \in used'
    BY <2>2, <2>4, <2>5, <2>6, <2>7 DEF Stored, AtRest, Current, CurrentIn
  <2>10. t.op # "delete" => Stored \subseteq Stored' /\ (page' # NoSession => Listed(walletList)')
    BY <2>2, <2>4, <2>5, <2>6, <2>7 DEF Stored, Listed
  <2>11. ~met'
    BY <1>7
  <2> QED
    BY <2>2, <2>3, <2>8, <2>9, <2>10, <2>11, GoesFrom
<1>8. ASSUME ~met', NEW row \in DOMAIN walletList, NEW searched \in BOOLEAN, Switch(h, row, searched) PROVE QuietInv'
  <2>1. PICK t: t = [Started("switch", "reload", walletList[row].wallet) EXCEPT !.value = IF searched THEN 1 ELSE 0]
    OBVIOUS
  <2>2. t # Idle /\ t.op = "switch" /\ t.at = "reload"
    BY <2>1 DEF Started, Idle
  <2>3. Begin(h, t)
    BY <1>8, <2>1 DEF Switch
  <2>4. /\ ~met /\ Busy = {} /\ walletStore = intended /\ AtRest
        /\ Stored \subseteq used /\ interrupted \subseteq used
        /\ (page # NoSession => Listed(walletList))
        /\ (dialog # NoWallet => \E u, v \in Stored: u # v)
    BY <1>8, <1>2, <2>3
  <2>5. UNCHANGED <<walletStore, home, page, walletList, interrupted, cut, dialog, used, intended>> /\ page # NoSession /\ home = "mounted" /\ sessionStore' = walletList[Key(row, searched)]
    BY <1>8, <2>4 DEF Switch, stores, pages, Click, EditUnchanged, Intend
  <2>6. Key(row, searched) \in DOMAIN walletList
    BY <1>3, <1>8 DEF Key
  <2>7. CurrentIn(walletStore, interrupted, cut, sessionStore')
    BY <1>3, <2>4, <2>5, <2>6, ListedIsCurrent DEF AtRest, Listed, UpToDate
  <2>8. Pending(t)' /\ QuietHome(t)' /\ QuietEdit(t)'
    BY <1>3, <2>2, <2>4, <2>5, <2>7
       DEF Pending, QuietHome, QuietEdit, OfThePage, Current, CurrentOrNone, Listed, UpToDate, Stored, Found, AtRest
  <2>9. /\ UNCHANGED <<interrupted, dialog>> /\ used \subseteq used' /\ Stored' \subseteq used'
        /\ t.op \in {"create", "delete"} => t.wallet \in used'
    BY <2>2, <2>4, <2>5, <2>7 DEF Stored, AtRest, Current, CurrentIn
  <2>10. t.op # "delete" => Stored \subseteq Stored' /\ (page' # NoSession => Listed(walletList)')
    BY <2>2, <2>4, <2>5, <2>7 DEF Stored, Listed
  <2>11. ~met'
    BY <1>8
  <2> QED
    BY <2>2, <2>3, <2>8, <2>9, <2>10, <2>11, GoesFrom
<1>9. ASSUME ~met', NEW on \in BOOLEAN, Toggle(h, on) PROVE QuietInv'
  <2>1. PICK t: t = [Started("toggle", "write", page.wallet) EXCEPT !.snap = Found(page.wallet), !.value = IF on THEN 1 ELSE 0]
    OBVIOUS
  <2>2. t # Idle /\ t.op = "toggle" /\ t.at = "write" /\ t.wallet = page.wallet /\ t.snap = Found(page.wallet) /\ t.value = (IF on THEN 1 ELSE 0)
    BY <2>1 DEF Started, Idle
  <2>3. Begin(h, t)
    BY <1>9, <2>1 DEF Toggle
  <2>4. /\ ~met /\ Busy = {} /\ walletStore = intended /\ AtRest
        /\ Stored \subseteq used /\ interrupted \subseteq used
        /\ (page # NoSession => Listed(walletList))
        /\ (dialog # NoWallet => \E u, v \in Stored: u # v)
    BY <1>9, <1>2, <2>3
  <2>5. UNCHANGED <<walletStore, sessionStore, home, page, walletList, interrupted, cut, dialog, used>> /\ page # NoSession /\ home = "mounted" /\ page.wallet \in Stored /\ intended' = [walletStore EXCEPT ![page.wallet].memo = on]
    BY <1>9, <2>4 DEF Toggle, stores, pages, Click, EditUnchanged, Intend
  <2>6. (t.value = 1) = on /\ t.snap.settings = walletStore[page.wallet]
    BY <1>9, <2>2, <2>5 DEF Found
  <2>7. intended' = Upserted(walletStore, page.wallet, [t.snap.settings EXCEPT !.memo = (t.value = 1)])
    BY <1>3, <2>5, <2>6 DEF Upserted, SoundStore, Stored
  <2>8. Pending(t)' /\ QuietHome(t)' /\ QuietEdit(t)'
    BY <1>3, <2>2, <2>4, <2>5, <2>7
       DEF Pending, QuietHome, QuietEdit, OfThePage, Current, CurrentOrNone, Listed, UpToDate, Stored, Found, AtRest, CurrentIn
  <2>9. /\ UNCHANGED <<interrupted, dialog>> /\ used \subseteq used' /\ Stored' \subseteq used'
        /\ t.op \in {"create", "delete"} => t.wallet \in used'
    BY <2>2, <2>4, <2>5, <2>7 DEF Stored, AtRest, Current, CurrentIn, CurrentIn
  <2>10. t.op # "delete" => Stored \subseteq Stored' /\ (page' # NoSession => Listed(walletList)')
    BY <2>2, <2>4, <2>5, <2>7 DEF Stored, Listed, CurrentIn
  <2>11. ~met'
    BY <1>9
  <2> QED
    BY <2>2, <2>3, <2>8, <2>9, <2>10, <2>11, GoesFrom
<1>10. ASSUME ~met', NEW on \in BOOLEAN, Propagate(h, on) PROVE QuietInv'
  <2>1. PICK t: t = Started("propagate", "find", page.wallet)
    OBVIOUS
  <2>2. t # Idle /\ t.op = "propagate" /\ t.at = "find" /\ t.wallet = page.wallet
    BY <2>1 DEF Started, Idle
  <2>3. Begin(h, t)
    BY <1>10, <2>1 DEF Propagate
  <2>4. /\ ~met /\ Busy = {} /\ walletStore = intended /\ AtRest
        /\ Stored \subseteq used /\ interrupted \subseteq used
        /\ (page # NoSession => Listed(walletList))
        /\ (dialog # NoWallet => \E u, v \in Stored: u # v)
    BY <1>10, <1>2, <2>3
  <2>5. UNCHANGED <<sessionStore, home, page, walletList, interrupted, cut, dialog, used>> /\ page # NoSession /\ home = "mounted" /\ walletStore' = Propagated(walletStore, page.wallet, on) /\ intended' = Propagated(walletStore, page.wallet, on)
    BY <1>10, <2>4 DEF Propagate, stores, pages, Click, EditUnchanged, Intend
  <2>6. DOMAIN walletStore' = DOMAIN walletStore
    BY <2>5 DEF Propagated
  <2>s. SameNodes(walletStore, walletStore')
    <3>1. ASSUME NEW v \in Stored PROVE walletStore'[v].node = walletStore[v].node
      <4>1. walletStore[v] \in Settings
        BY <1>3 DEF SoundStore, Stored
      <4>2. walletStore'[v] \in {walletStore[v], [walletStore[v] EXCEPT !.general = on]}
        BY <2>5 DEF Propagated, Stored
      <4> QED
        BY <4>1, <4>2 DEF Settings
    <3> QED
      BY <2>6, <3>1 DEF SameNodes, Stored
  <2>7. /\ \A s: CurrentIn(walletStore, interrupted, cut, s) => CurrentIn(walletStore', interrupted, cut, s)
        /\ \A list: ListedIn(walletStore, list) => ListedIn(walletStore', list)
        /\ \A list: ListedIn(walletStore, list) /\ UpToDateIn(walletStore, cut, list) => UpToDateIn(walletStore', cut, list)
    BY <2>s, SameNodesKept
  <2>8. Pending(t)' /\ QuietHome(t)' /\ QuietEdit(t)'
    BY <1>3, <2>2, <2>4, <2>5, <2>6, <2>7
       DEF Pending, QuietHome, QuietEdit, OfThePage, Current, CurrentOrNone, Listed, UpToDate, Stored, Found, AtRest, CurrentIn
  <2>9. /\ UNCHANGED <<interrupted, dialog>> /\ used \subseteq used' /\ Stored' \subseteq used'
        /\ t.op \in {"create", "delete"} => t.wallet \in used'
    BY <2>2, <2>4, <2>5, <2>6, <2>7 DEF Stored, AtRest, Current, CurrentIn, CurrentIn
  <2>10. t.op # "delete" => Stored \subseteq Stored' /\ (page' # NoSession => Listed(walletList)')
    BY <2>2, <2>4, <2>5, <2>6, <2>7 DEF Stored, Listed, CurrentIn
  <2>11. ~met'
    BY <1>10
  <2> QED
    BY <2>2, <2>3, <2>8, <2>9, <2>10, <2>11, GoesFrom
<1>11. ASSUME ~met',  EditNode(h) PROVE QuietInv'
  <2>1. PICK t: t = [Started("settings", "apply", page.wallet) EXCEPT !.snap = Found(page.wallet), !.value = Len(edits) + 1]
    OBVIOUS
  <2>2. t # Idle /\ t.op = "settings" /\ t.at = "apply" /\ t.wallet = page.wallet /\ t.snap = Found(page.wallet) /\ t.value = Len(edits) + 1
    BY <2>1 DEF Started, Idle
  <2>3. Begin(h, t)
    BY <1>11, <2>1 DEF EditNode
  <2>4. /\ ~met /\ Busy = {} /\ walletStore = intended /\ AtRest
        /\ Stored \subseteq used /\ interrupted \subseteq used
        /\ (page # NoSession => Listed(walletList))
        /\ (dialog # NoWallet => \E u, v \in Stored: u # v)
    BY <1>11, <1>2, <2>3
  <2>5. UNCHANGED <<walletStore, sessionStore, home, page, walletList, interrupted, cut, dialog, used>> /\ page # NoSession /\ home = "mounted" /\ page.wallet \in Stored /\ intended' = NodeEdited(walletStore, page.wallet, Len(edits) + 1)
    BY <1>11, <2>4 DEF EditNode, stores, pages, Click, EditUnchanged, Intend
  <2>6. t.snap.settings = walletStore[page.wallet]
    BY <2>2, <2>5 DEF Found
  <2>7. /\ t.snap.settings.general => intended' = NodeForAll(walletStore, page.wallet, t.value)
        /\ ~t.snap.settings.general => intended' = Upserted(walletStore, page.wallet, [t.snap.settings EXCEPT !.node = t.value])
    <3>1. CASE walletStore[page.wallet].general
      BY <2>2, <2>5, <2>6, <3>1 DEF NodeEdited
    <3>2. CASE ~walletStore[page.wallet].general
      <4>1. intended' = [walletStore EXCEPT ![page.wallet].node = t.value]
        BY <2>2, <2>5, <3>2 DEF NodeEdited
      <4>2. [walletStore EXCEPT ![page.wallet].node = t.value] = Upserted(walletStore, page.wallet, [t.snap.settings EXCEPT !.node = t.value])
        BY <1>3, <2>5, <2>6 DEF Upserted, SoundStore, Stored
      <4> QED
        BY <2>6, <3>2, <4>1, <4>2
    <3> QED
      BY <3>1, <3>2
  <2>8. Pending(t)' /\ QuietHome(t)' /\ QuietEdit(t)'
    BY <1>3, <2>2, <2>4, <2>5, <2>7
       DEF Pending, QuietHome, QuietEdit, OfThePage, Current, CurrentOrNone, Listed, UpToDate, Stored, Found, AtRest, CurrentIn
  <2>9. /\ UNCHANGED <<interrupted, dialog>> /\ used \subseteq used' /\ Stored' \subseteq used'
        /\ t.op \in {"create", "delete"} => t.wallet \in used'
    BY <2>2, <2>4, <2>5, <2>7 DEF Stored, AtRest, Current, CurrentIn, CurrentIn
  <2>10. t.op # "delete" => Stored \subseteq Stored' /\ (page' # NoSession => Listed(walletList)')
    BY <2>2, <2>4, <2>5, <2>7 DEF Stored, Listed, CurrentIn
  <2>11. ~met'
    BY <1>11
  <2> QED
    BY <2>2, <2>3, <2>8, <2>9, <2>10, <2>11, GoesFrom
<1>12. ASSUME ~met',  EditAsset(h) PROVE QuietInv'
  <2>1. PICK t: t = [Started("asset", "both", page.wallet) EXCEPT !.snap = Found(page.wallet)]
    OBVIOUS
  <2>2. t # Idle /\ t.op = "asset" /\ t.at = "both" /\ t.wallet = page.wallet /\ t.snap = Found(page.wallet)
    BY <2>1 DEF Started, Idle
  <2>3. Begin(h, t)
    BY <1>12, <2>1 DEF EditAsset
  <2>4. /\ ~met /\ Busy = {} /\ walletStore = intended /\ AtRest
        /\ Stored \subseteq used /\ interrupted \subseteq used
        /\ (page # NoSession => Listed(walletList))
        /\ (dialog # NoWallet => \E u, v \in Stored: u # v)
    BY <1>12, <1>2, <2>3
  <2>5. UNCHANGED <<walletStore, sessionStore, home, page, walletList, interrupted, cut, dialog, used, intended>> /\ page # NoSession /\ home = "mounted"
    BY <1>12, <2>4 DEF EditAsset, stores, pages, Click, EditUnchanged, Intend
  <2>8. Pending(t)' /\ QuietHome(t)' /\ QuietEdit(t)'
    BY <1>3, <2>2, <2>4, <2>5
       DEF Pending, QuietHome, QuietEdit, OfThePage, Current, CurrentOrNone, Listed, UpToDate, Stored, Found, AtRest, CurrentIn
  <2>9. /\ UNCHANGED <<interrupted, dialog>> /\ used \subseteq used' /\ Stored' \subseteq used'
        /\ t.op \in {"create", "delete"} => t.wallet \in used'
    BY <2>2, <2>4, <2>5 DEF Stored, AtRest, Current, CurrentIn, CurrentIn
  <2>10. t.op # "delete" => Stored \subseteq Stored' /\ (page' # NoSession => Listed(walletList)')
    BY <2>2, <2>4, <2>5 DEF Stored, Listed, CurrentIn
  <2>11. ~met'
    BY <1>12
  <2> QED
    BY <2>2, <2>3, <2>8, <2>9, <2>10, <2>11, GoesFrom
<1>13. ASSUME ~met',  SwitchCurrency(h) PROVE QuietInv'
  <2>1. PICK t: t = [Started("currency", "show", page.wallet) EXCEPT !.snap = page]
    OBVIOUS
  <2>2. t # Idle /\ t.op = "currency" /\ t.at = "show" /\ t.wallet = page.wallet /\ t.snap = page
    BY <2>1 DEF Started, Idle
  <2>3. Begin(h, t)
    BY <1>13, <2>1 DEF SwitchCurrency
  <2>4. /\ ~met /\ Busy = {} /\ walletStore = intended /\ AtRest
        /\ Stored \subseteq used /\ interrupted \subseteq used
        /\ (page # NoSession => Listed(walletList))
        /\ (dialog # NoWallet => \E u, v \in Stored: u # v)
    BY <1>13, <1>2, <2>3
  <2>5. UNCHANGED <<walletStore, home, page, walletList, interrupted, cut, dialog, used, intended>> /\ page # NoSession /\ home = "mounted" /\ sessionStore' = page
    BY <1>13, <2>4 DEF SwitchCurrency, stores, pages, Click, EditUnchanged, Intend
  <2>8. Pending(t)' /\ QuietHome(t)' /\ QuietEdit(t)'
    BY <1>3, <2>2, <2>4, <2>5
       DEF Pending, QuietHome, QuietEdit, OfThePage, Current, CurrentOrNone, Listed, UpToDate, Stored, Found, AtRest, CurrentIn
  <2>9. /\ UNCHANGED <<interrupted, dialog>> /\ used \subseteq used' /\ Stored' \subseteq used'
        /\ t.op \in {"create", "delete"} => t.wallet \in used'
    BY <2>2, <2>4, <2>5 DEF Stored, AtRest, Current, CurrentIn, CurrentIn
  <2>10. t.op # "delete" => Stored \subseteq Stored' /\ (page' # NoSession => Listed(walletList)')
    BY <2>2, <2>4, <2>5 DEF Stored, Listed, CurrentIn
  <2>11. ~met'
    BY <1>13
  <2> QED
    BY <2>2, <2>3, <2>8, <2>9, <2>10, <2>11, GoesFrom
<1>14. ASSUME ~met',  Migrate(h) PROVE QuietInv'
  <2>1. PICK t: t = [Started("migrate", "migrated", page.wallet) EXCEPT !.snap = page]
    OBVIOUS
  <2>2. t # Idle /\ t.op = "migrate" /\ t.at = "migrated" /\ t.wallet = page.wallet /\ t.snap = page
    BY <2>1 DEF Started, Idle
  <2>3. Begin(h, t)
    BY <1>14, <2>1 DEF Migrate
  <2>4. /\ ~met /\ Busy = {} /\ walletStore = intended /\ AtRest
        /\ Stored \subseteq used /\ interrupted \subseteq used
        /\ (page # NoSession => Listed(walletList))
        /\ (dialog # NoWallet => \E u, v \in Stored: u # v)
    BY <1>14, <1>2, <2>3
  <2>5. UNCHANGED <<walletStore, sessionStore, home, page, walletList, interrupted, cut, dialog, used, intended>> /\ page # NoSession /\ home = "mounted"
    BY <1>14, <2>4 DEF Migrate, stores, pages, Click, EditUnchanged, Intend
  <2>8. Pending(t)' /\ QuietHome(t)' /\ QuietEdit(t)'
    BY <1>3, <2>2, <2>4, <2>5
       DEF Pending, QuietHome, QuietEdit, OfThePage, Current, CurrentOrNone, Listed, UpToDate, Stored, Found, AtRest, CurrentIn
  <2>9. /\ UNCHANGED <<interrupted, dialog>> /\ used \subseteq used' /\ Stored' \subseteq used'
        /\ t.op \in {"create", "delete"} => t.wallet \in used'
    BY <2>2, <2>4, <2>5 DEF Stored, AtRest, Current, CurrentIn, CurrentIn
  <2>10. t.op # "delete" => Stored \subseteq Stored' /\ (page' # NoSession => Listed(walletList)')
    BY <2>2, <2>4, <2>5 DEF Stored, Listed, CurrentIn
  <2>11. ~met'
    BY <1>14
  <2> QED
    BY <2>2, <2>3, <2>8, <2>9, <2>10, <2>11, GoesFrom
<1> QED
  BY <1>1, <1>4, <1>5, <1>6, <1>7, <1>8, <1>9, <1>10, <1>11, <1>12, <1>13, <1>14 DEF UserStep

(* The deletion dialog, the selection of an asset, and a crash, which cuts off the handler
   in flight: what it has stored until then is what is intended from then on. *)
LEMMA QuietOthers ==
  ASSUME SessionInv, DialogInv, QuietInv,
         OpenDialog \/ TickDeletion \/ ConfirmDeletion \/ CancelDialog \/ CloseDeleted \/ SelectAsset \/ Crash
  PROVE  QuietInv'
<1>1. CASE met'
  BY <1>1 DEF QuietInv
<1>2. ASSUME ~met', UNCHANGED <<walletStore, sessionStore, home, page, walletList, handler, used,
                                intended, interrupted, met, cut>>,
             dialog' # NoWallet /\ Deleting = {} => \E u, v \in Stored: u # v
      PROVE  QuietInv'
  <2>1. Busy' = Busy /\ Deleting' = Deleting /\ Stored' = Stored /\ ~met
    BY <1>2 DEF Busy, Deleting, Stored
  <2>2. QuietPages'
    BY <1>2, <2>1 DEF QuietInv, QuietPages, Listed
  <2>3. Busy = {} => walletStore' = intended' /\ AtRest'
    BY <1>2, <2>1 DEF QuietInv, AtRest, Current, CurrentOrNone, UpToDate
  <2>5. \A h \in Busy': /\ Pending(handler[h])' /\ QuietHome(handler[h])' /\ QuietEdit(handler[h])'
                        /\ handler'[h].op \in {"create", "delete"} => handler'[h].wallet \in used'
    BY <1>2, <2>1 DEF QuietInv, Pending, QuietHome, QuietEdit, OfThePage, Current, CurrentOrNone, Listed,
                      UpToDate, Stored, Found
  <2>6. \A g, h \in Busy': g = h
    BY <2>1 DEF QuietInv
  <2> QED
    BY <2>1, <2>2, <2>3, <2>5, <2>6 DEF QuietInv
<1>3. CASE ~met' /\ OpenDialog
  <2>1. /\ UNCHANGED <<walletStore, sessionStore, home, page, walletList, handler, used,
                       intended, interrupted, met, cut>>
        /\ page # NoSession /\ Len(walletList) > 1
    BY <1>3 DEF OpenDialog, Click, DialogUnchanged, stores
  <2>2. ASSUME Deleting = {} PROVE \E u, v \in Stored: u # v
    <3>1. Listed(walletList) /\ walletList \in Seq(Sessions)
      BY <1>3, <2>1, <2>2 DEF QuietInv, QuietPages, SessionInv, SoundList
    <3>2. 1 \in DOMAIN walletList /\ 2 \in DOMAIN walletList
      BY <2>1, <3>1
    <3> QED
      BY <3>1, <3>2 DEF Listed, ListedIn, Stored
  <2> QED
    BY <1>2, <1>3, <2>1, <2>2
<1>4. CASE ~met' /\ (TickDeletion \/ ConfirmDeletion \/ CancelDialog \/ CloseDeleted)
  <2>1. /\ UNCHANGED <<walletStore, sessionStore, home, page, walletList, handler, used,
                       intended, interrupted, met, cut>>
        /\ dialog' \in {dialog, NoWallet}
    BY <1>4 DEF TickDeletion, ConfirmDeletion, CancelDialog, CloseDeleted, DialogUnchanged, stores
  <2>2. dialog' # NoWallet /\ Deleting = {} => \E u, v \in Stored: u # v
    BY <1>4, <2>1 DEF QuietInv, QuietPages
  <2> QED
    BY <1>2, <1>4, <2>1, <2>2
<1>5. CASE ~met' /\ SelectAsset
  <2>1. /\ UNCHANGED <<walletStore, home, page, walletList, dialog, handler, used, intended, interrupted, cut>>
        /\ sessionStore' = page /\ page # NoSession /\ home = "mounted" /\ ~met /\ Busy = {}
    BY <1>5 DEF SelectAsset, Click, pages
  <2>2. Busy' = {} /\ Deleting' = {} /\ Deleting = {} /\ Stored' = Stored
    BY <2>1 DEF Busy, Deleting, Stored
  <2>3. QuietPages'
    BY <2>1, <2>2 DEF QuietInv, QuietPages, Listed
  <2>4. walletStore' = intended' /\ AtRest'
    BY <2>1 DEF QuietInv, AtRest, Current, CurrentOrNone, UpToDate
  <2> QED
    BY <2>2, <2>3, <2>4 DEF QuietInv
<1>6. CASE ~met' /\ Crash
  <2>1. /\ UNCHANGED <<walletStore, sessionStore, used, met>> /\ ~met
        /\ page' = NoSession /\ dialog' = NoWallet /\ handler' = [h \in Handlers |-> Idle]
        /\ interrupted' = interrupted \union
             {handler[h].wallet: h \in {g \in Busy: handler[g].op \in {"create", "delete"}}}
        /\ cut' = (cut \/ Busy # {})
        /\ intended' = IF Busy = {} THEN intended ELSE walletStore
    BY <1>6 DEF Crash, stores
  <2>2. Busy' = {} /\ Stored' = Stored
    BY <2>1 DEF Busy, Stored
  <2>3. QuietPages'
    BY <2>1, <2>2 DEF QuietInv, QuietPages
  <2>4. CASE Busy = {}
    <3>1. interrupted' = interrupted /\ (cut' <=> cut)
      BY <2>1, <2>4
    <3>2. walletStore' = intended' /\ AtRest'
      BY <2>1, <2>4, <3>1 DEF QuietInv, AtRest, Current, CurrentOrNone, CurrentIn
    <3> QED
      BY <2>2, <2>3, <3>2 DEF QuietInv
  <2>5. ASSUME NEW h \in Busy PROVE QuietInv'
    <3> PICK t: t = handler[h]
      OBVIOUS
    <3>1. QuietHome(t) /\ QuietEdit(t) /\ Fits(edits, t)
      <4>1. QuietHome(handler[h]) /\ QuietEdit(handler[h]) /\ Fits(edits, handler[h])
        BY <2>1 DEF QuietInv, SessionInv, Busy
      <4> QED
        BY <4>1
    <3>2. t.op \in {"create", "delete"} => t.wallet \in interrupted'
      BY <2>1
    <3>3. cut' /\ walletStore' = intended' /\ interrupted \subseteq interrupted'
      BY <2>1
    <3>4. sessionStore # NoSession => sessionStore.wallet \in Stored \union interrupted'
      <4>1. CASE t.op = "start"
        BY <3>1, <3>3, <4>1 DEF QuietHome, Current, CurrentIn, Stored
      <4>2. CASE t.op = "create"
        BY <3>1, <3>3, <4>2 DEF QuietHome, Current, CurrentOrNone, CurrentIn, Stored
      <4>3. CASE t.op = "delete"
        BY <3>1, <3>2, <3>3, <4>3 DEF QuietHome, Current, CurrentIn, Stored, Fits, PhaseOf
      <4>4. CASE t.op = "switch"
        BY <3>1, <3>3, <4>4 DEF QuietHome, Current, CurrentIn, Stored, Fits, PhaseOf
      <4>5. CASE t.op \in {"toggle", "propagate", "settings", "asset", "currency", "migrate"}
        BY <3>1, <3>3, <4>5 DEF QuietEdit, OfThePage, Current, CurrentOrNone, CurrentIn, Stored
      <4> QED
        BY <3>1, <4>1, <4>2, <4>3, <4>4, <4>5 DEF Fits, Tasks
    <3>5. AtRest'
      BY <2>1, <2>2, <3>3, <3>4 DEF AtRest, CurrentOrNone, Current, CurrentIn, Stored
    <3> QED
      BY <2>2, <2>3, <3>3, <3>5 DEF QuietInv
  <2> QED
    BY <2>4, <2>5
<1> QED
  BY <1>1, <1>3, <1>4, <1>5, <1>6

(* The application starts in peace. *)
LEMMA QuietStarts == Init => QuietInv
<1> SUFFICES ASSUME Init PROVE QuietInv
  OBVIOUS
<1>1. PICK S \in Initial:
        /\ walletStore = [w \in S |-> Fresh] /\ intended = [w \in S |-> Fresh] /\ used = S
        /\ sessionStore = NoSession \/ \E w \in S: sessionStore = [wallet |-> w, settings |-> Fresh]
  BY DEF Init
<1>2. page = NoSession /\ dialog = NoWallet /\ interrupted = {} /\ Busy = {}
  BY DEF Init, Busy
<1>3. S \subseteq Wallets /\ Fresh \in Settings /\ NoSession \notin Sessions
  BY <1>1, SessionAssumption DEF Fresh, Settings
<1>4. QuietPages
  BY <1>1, <1>2 DEF QuietPages, Stored
<1>5. CurrentOrNone(sessionStore)
  <2>1. ASSUME NEW w \in S, sessionStore = [wallet |-> w, settings |-> Fresh] PROVE Current(sessionStore)
    <3>1. sessionStore \in Sessions /\ sessionStore.wallet = w /\ sessionStore.settings = Fresh
      BY <1>3, <2>1 DEF Sessions
    <3>2. sessionStore # NoSession
      BY <1>3, <3>1
    <3> QED
      BY <1>1, <3>1, <3>2 DEF Current, CurrentIn, Stored
  <2> QED
    BY <1>1, <2>1 DEF CurrentOrNone
<1> QED
  BY <1>1, <1>2, <1>4, <1>5 DEF QuietInv, AtRest

(* The invariant of the undisturbed stores holds in every behaviour. *)
LEMMA QuietAlways == SettingsSpec => [](SessionInv /\ QuietInv)
<1>1. SettingsInit => QuietInv
  BY QuietStarts DEF SettingsInit
<1>2. SessionInv /\ DialogInv /\ QuietInv /\ [SettingsNext]_<<vars, bookVars, revokeVars>> => QuietInv'
  <2> SUFFICES ASSUME SessionInv, DialogInv, QuietInv, [SettingsNext]_<<vars, bookVars, revokeVars>>
               PROVE  QuietInv'
    OBVIOUS
  <2>1. CASE Next
    BY <2>1, QuietHandler, QuietUser, QuietOthers DEF Next
  <2>2. CASE UNCHANGED vars
    <3>1. UNCHANGED <<walletStore, sessionStore, home, page, walletList, dialog, handler, used,
                      intended, interrupted, met, cut>>
      BY <2>2 DEF vars, stores, pages, history
    <3> QED
      BY <3>1 DEF QuietInv, QuietPages, AtRest, Pending, QuietHome, QuietEdit, OfThePage, Current, CurrentOrNone,
                  Listed, UpToDate, Busy, Deleting, Stored, Found
  <2> QED
    BY <2>1, <2>2 DEF SettingsNext
<1> QED
  BY <1>1, <1>2, SessionAlways, PTL DEF SettingsSpec

(* Operations that do not overlap are carried out as if each was one step, also by a program
   that is closed in the middle of one, and leave the pages and the stored session with the
   same wallet and its node (StoreIsAsIntended). *)
THEOREM StoresWhatIsIntended == SettingsSpec => []StoreIsAsIntended
<1>1. SessionInv /\ QuietInv => StoreIsAsIntended
  BY DEF QuietInv, AtRest, Current, CurrentOrNone, CurrentIn, StoreIsAsIntended, Settled, SessionNamesAWallet,
         NodeInForce, Stored
<1> QED
  BY <1>1, QuietAlways, PTL

=============================================================================
