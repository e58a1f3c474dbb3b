------------------------- MODULE BridgeTransferProofs -------------------------
(***************************************************************************)
(* What holds of every transfer over the bridge, however often the form is *)
(* opened, filled in and confirmed.                                        *)
(***************************************************************************)
EXTENDS BridgeTransfer, FiniteSetTheorems, TLAPS

(* The fields of the form belong together: the direction is that of the two chains, the
   asset is one of those offered, the address is the one that is shown. *)
FormSound ==
  /\ to # Nothing => /\ to \in Across(from) /\ direction = <<from, to>>
                     /\ options = Supported(<<from, to>>)
  /\ asset # Nothing => asset = current /\ asset \in options
  /\ shown = toAddress
  /\ custom = typing
  /\ ~custom /\ to # Nothing => toAddress = to

PageTyped ==
  /\ FormTypeOK
  /\ view \in {"away", "bridge", "history"} /\ step \in 0 .. 2
  /\ mount \in Nat /\ requests \in Nat
  /\ transfering \in BOOLEAN /\ failed \in BOOLEAN /\ pageLock \in BOOLEAN

(* From the first step to the end of the transfer the request is the one shown. *)
PageSound ==
  /\ view = "history" => step = 0
  /\ failed => step = 2
  /\ view = "bridge" /\ step # 0 => request # Nothing /\ requests # 0
  /\ step # 0 /\ request # Nothing =>
       Complete /\ request = Confirmation /\ request.asset \in Supported(request.direction)

FormInv == PageTyped /\ FormSound /\ PageSound

-----------------------------------------------------------------------------
RunsTyped ==
  /\ run \in [Runs -> RunSet]
  /\ tx \in [Runs -> {"none", "pool", "done", "failed", "dropped"}]
  /\ arrived \subseteq Runs

Before == {"load", "sign", "broadcast", "poll"}

NoOutcome(rows) == \A i \in DOMAIN rows: rows[i] \notin Outcomes

(* The rows of a run, whose transfer may have arrived. *)
RowsOf(x, hasArrived) ==
  CASE x.pc = "idle" -> x.rows = <<>>
    [] x.pc \in Before \cup {"refresh", "told"} -> x.rows = <<"pending">>
    [] x.pc = "wait" -> x.rows = <<"pending", "deposit">>
    [] x.pc = "over" -> x.rows = <<"pending", "failed">>
    [] x.pc = "follow" ->
         /\ Len(x.rows) >= 2 /\ x.rows[1] = "pending" /\ x.rows[2] = "deposit"
         /\ \A i \in 3 .. Len(x.rows): x.rows[i] \in {"initiated", "completed"}
                                       /\ (x.rows[i] = "completed" => hasArrived)
         /\ ~x.overlap => \/ Len(x.rows) = 2
                          \/ Len(x.rows) = 3 /\ ~x.ticking /\ x.flights = 0

(* What a run has got, for the state of its transaction. *)
ResultOf(x, t) ==
  /\ x.pc \in {"idle", "load", "sign", "broadcast"} => t = "none"
  /\ x.pc \in Before => x.result = "none"
  /\ x.pc \in {"refresh", "wait", "follow"} => x.result \in {"hash", "timeout"}
  /\ x.pc = "told" => x.result \in {"hash", "timeout", "error"}
  /\ x.pc = "over" => x.result = "error"
  /\ x.result = "error" => x.pc \in {"told", "over"} /\ (x.lost \/ t \in {"none", "failed"})
  /\ x.result = "hash" /\ ~x.evm => t = "done"

(* Requests for the other end are only under way after the timer has been started. *)
FlightsOf(x) ==
  /\ x.pc # "follow" => ~x.ticking /\ x.flights = 0 /\ ~x.overlap
  /\ ~x.overlap => x.flights <= 1
  /\ x.pc = "idle" => x.request = 0 /\ x.mount = 0
  /\ x.pc # "idle" => x.request # 0

RunSound(r) ==
  RowsOf(run[r], r \in arrived) /\ ResultOf(run[r], tx[r]) /\ FlightsOf(run[r])

RunsSound == \A r \in Runs: RunSound(r)

-----------------------------------------------------------------------------
Started(r) == run[r].pc # "idle"

InOrder == \A q, r \in Runs: q < r /\ Started(r) => Started(q)

(* A request is only confirmed again after the run of the first click has failed. *)
AgainAfterError ==
  \A q, r \in Runs: q < r /\ Started(r) /\ run[q].request = run[r].request =>
    run[q].result = "error"

(* The runs of the form that is open have failed, but for the last one. *)
OneOnThePage ==
  \A r \in Runs: Started(r) /\ Here(r) /\ run[r].pc # "over" =>
    /\ step = 2 /\ ~failed /\ run[r].request = requests
    /\ \A s \in Runs: r < s => ~Started(s)

OfThePage ==
  /\ \A r \in Runs: run[r].request <= requests
  /\ view = "bridge" /\ step # 0 => \A r \in Runs: run[r].request = requests => run[r].mount = mount
  /\ \A r \in Runs: Started(r) => run[r].mount <= mount

ConfirmedAlready == \E r \in Runs: run[r].request = requests

LockHeld ==
  /\ view = "bridge" /\ step = 1 => pageLock \/ ConfirmedAlready
  /\ view = "bridge" /\ step = 2 => ConfirmedAlready
  /\ \A r \in Runs: Started(r) /\ Here(r) /\ run[r].pc # "over" /\ NoOutcome(run[r].rows) =>
       pageLock \/ Again(r)

PagesOfRuns == InOrder /\ AgainAfterError /\ OneOnThePage /\ OfThePage /\ LockHeld

-----------------------------------------------------------------------------
(* The form *)

(* The assets that go over the bridge are assets. *)
LEMMA SupportedAssets == \A d: Supported(d) \subseteq Assets
BY DEF Supported

(* The bridge connects the chains in both directions. *)
LEMMA ThereAndBack ==
  ASSUME NEW a \in Chains, NEW b \in Across(a)
  PROVE  /\ b \in Chains /\ a \in Across(b) /\ b # Nothing /\ a # Nothing
         /\ Direction(a, b) = <<a, b>> /\ <<a, b>> \in Directions
<1>1. b \in Chains /\ a \in Across(b) BY DEF Chains, Across
<1>2. <<a, b>> \in Directions BY <1>1 DEF Directions
<1>3. Direction(a, b) = <<a, b>> BY DEF Direction
<1>4. a # Nothing /\ b # Nothing BY <1>1, NothingAssumption
<1> QED BY <1>1, <1>2, <1>3, <1>4

(* What is supported between two chains. *)
LEMMA SupportedBetween ==
  ASSUME NEW a \in Chains, NEW b \in Across(a)
  PROVE  Supported(<<a, b>>) = {x \in Assets : x.chain = a /\ x.token = (b = "COSMOS_HUB")}
<1>1. <<a, b>> # Nothing BY ThereAndBack, NothingAssumption
<1> QED BY <1>1 DEF Supported

(* A new form: the wallet's own coin, from the one chain to the other. *)
LEMMA NewFormIsSound ==
  /\ FormMounted => FormTypeOK' /\ FormSound'
  /\ FormInit => FormTypeOK /\ FormSound
<1> DEFINE T == "CRONOS_TENDERMINT"
           C == "CRONOS"
<1>1. T \in Chains /\ C \in Chains /\ C \in Across(T) BY DEF Chains, Across
<1>2. C # Nothing /\ <<T, C>> \in Directions BY <1>1, ThereAndBack
<1>3. Native(T) \in Assets BY <1>1 DEF Assets
<1>4. Supported(<<T, C>>) = {Native(T)}
  <2>1. Supported(<<T, C>>) = {x \in Assets : x.chain = T /\ x.token = (C = "COSMOS_HUB")}
    BY <1>1, SupportedBetween
  <2>2. \A x \in Assets: x.chain = T <=> x = Native(T) BY DEF Assets, Native
  <2>3. Native(T).token = FALSE BY DEF Native
  <2> QED BY <1>3, <2>1, <2>2, <2>3
<1>5. ASSUME FormMounted PROVE FormTypeOK' /\ FormSound'
  <2>1. FormTypeOK' BY <1>1, <1>2, <1>3, <1>5 DEF FormMounted, FormTypeOK
  <2>2. FormSound' BY <1>1, <1>2, <1>3, <1>4, <1>5 DEF FormMounted, FormSound
  <2> QED BY <2>1, <2>2
<1>6. ASSUME FormInit PROVE FormTypeOK /\ FormSound
  <2>1. FormTypeOK BY <1>1, <1>2, <1>3, <1>6 DEF FormInit, FormTypeOK
  <2>2. FormSound BY <1>1, <1>2, <1>3, <1>4, <1>6 DEF FormInit, FormSound
  <2> QED BY <2>1, <2>2
<1> QED BY <1>5, <1>6

(* Every way to fill it in leaves a sound form. *)
LEMMA FilledInSoundly == FormTypeOK /\ FormSound /\ FillIn => FormTypeOK' /\ FormSound'
<1> SUFFICES ASSUME FormTypeOK, FormSound, FillIn PROVE FormTypeOK' /\ FormSound' OBVIOUS
<1>0. /\ from \in Chains /\ to \in Chains \cup {Nothing} /\ Nothing \notin Chains
      /\ "CRONOS_TENDERMINT" \in Chains
  BY NothingAssumption DEF FormTypeOK, Chains
<1>1. \A c \in Chains \cup {Nothing}: OwnAddress(c) \in Chains /\ (c # Nothing => OwnAddress(c) = c)
  BY <1>0 DEF OwnAddress
<1>2. ASSUME NEW c \in Chains, ChooseFrom(c) PROVE FormTypeOK' /\ FormSound'
  <2>1. options' \subseteq Assets BY <1>2, SupportedAssets DEF ChooseFrom
  <2>2. Native(c) \in Assets BY DEF Assets
  <2>3. FormTypeOK' BY <1>0, <1>1, <1>2, <2>1, <2>2 DEF ChooseFrom, Recipient, FormTypeOK
  <2>4. FormSound' BY <1>0, <1>2 DEF ChooseFrom, Recipient, FormSound
  <2> QED BY <2>3, <2>4
<1>3. ASSUME NEW c \in Chains, ChooseTo(c) PROVE FormTypeOK' /\ FormSound'
  <2>1. c \in Across(from) BY <1>3 DEF ChooseTo
  <2>2. Direction(from, c) = <<from, c>> /\ <<from, c>> \in Directions
    BY <1>0, <2>1, ThereAndBack
  <2>3. Supported(<<from, c>>) \subseteq Assets /\ Native(from) \in Assets
    BY <1>0, SupportedAssets DEF Assets
  <2>4. FormTypeOK' BY <1>0, <1>1, <1>3, <2>2, <2>3 DEF ChooseTo, Recipient, FormTypeOK
  <2>5. FormSound' BY <1>0, <1>1, <1>3, <2>1, <2>2 DEF ChooseTo, Recipient, FormSound
  <2> QED BY <2>4, <2>5
<1>4. ASSUME NEW a \in Assets, ChooseAsset(a) PROVE FormTypeOK' /\ FormSound'
  <2>1. a \in options BY <1>4 DEF ChooseAsset, Offered
  <2>2. FormTypeOK' BY <1>4 DEF ChooseAsset, FormTypeOK
  <2>3. FormSound' BY <1>4, <2>1 DEF ChooseAsset, FormSound
  <2> QED BY <2>2, <2>3
<1>5. ASSUME Exchange PROVE FormTypeOK' /\ FormSound'
  <2>1. to # Nothing /\ to \in Chains /\ to \in Across(from)
    BY <1>0, <1>5 DEF Exchange, FormSound
  <2>2. from \in Across(to) /\ Direction(to, from) = <<to, from>> /\ <<to, from>> \in Directions
    BY <1>0, <2>1, ThereAndBack
  <2>3. Supported(<<to, from>>) \subseteq Assets BY SupportedAssets
  <2>4. FormTypeOK' BY <1>0, <1>1, <1>5, <2>1, <2>2, <2>3 DEF Exchange, ResetAsset, Recipient, FormTypeOK
  <2>5. FormSound' BY <1>0, <1>1, <1>5, <2>2 DEF Exchange, ResetAsset, Recipient, FormSound
  <2> QED BY <2>4, <2>5
<1>6. ASSUME TickBox PROVE FormTypeOK' /\ FormSound'
  <2>1. custom \in BOOLEAN /\ typing \in BOOLEAN BY DEF FormTypeOK
  <2>2. FormTypeOK' BY <1>0, <1>6, <2>1 DEF TickBox, FormTypeOK
  <2>3. FormSound' BY <1>0, <1>6, <2>1 DEF TickBox, FormSound
  <2> QED BY <2>2, <2>3
<1>7. ASSUME TypeAddress PROVE FormTypeOK' /\ FormSound'
  <2>1. FormTypeOK' BY <1>7 DEF TypeAddress, FormTypeOK
  <2>2. FormSound' BY <1>7 DEF TypeAddress, FormSound
  <2> QED BY <2>1, <2>2
<1> QED BY <1>2, <1>3, <1>4, <1>5, <1>6, <1>7 DEF FillIn

(* What is sent is what is shown, once the form is complete. *)
LEMMA SentAsShown ==
  FormTypeOK /\ FormSound /\ Complete =>
    /\ TheRequest = Confirmation /\ TheRequest # Nothing
    /\ TheRequest.asset \in Supported(TheRequest.direction)
<1> SUFFICES ASSUME FormTypeOK, FormSound, Complete
             PROVE  /\ TheRequest = Confirmation /\ TheRequest # Nothing
                    /\ TheRequest.asset \in Supported(TheRequest.direction)
  OBVIOUS
<1>1. to # Nothing /\ asset # Nothing /\ toAddress # Nothing BY DEF Complete
<1>2. /\ direction = <<from, to>> /\ options = Supported(<<from, to>>)
      /\ current = asset /\ asset \in options /\ shown = toAddress
      /\ ~custom => toAddress = to
  BY <1>1 DEF FormSound
<1>3. (IF custom THEN toAddress ELSE direction[2]) = shown BY <1>2
<1>4. TheRequest = Confirmation BY <1>2, <1>3 DEF TheRequest, Confirmation
<1>5. TheRequest.asset \in Supported(TheRequest.direction) BY <1>2 DEF TheRequest
<1>6. Confirmation \in Requests
  <2>1. direction \in Directions /\ current \in Assets /\ shown \in Chains \cup {"typed"}
    BY <1>1, <1>2 DEF FormTypeOK
  <2> QED BY <1>2, <2>1 DEF Confirmation, Requests
<1> QED BY <1>4, <1>5, <1>6, NothingAssumption

(* The fields a form is restored with are the ones it was left with. *)
LEMMA RestoredSoundly ==
  FormTypeOK /\ FormSound /\ to # Nothing /\ FormRestored => FormTypeOK' /\ FormSound'
<1> SUFFICES ASSUME FormTypeOK, FormSound, to # Nothing, FormRestored
             PROVE  FormTypeOK' /\ FormSound'
  OBVIOUS
<1>1. from \in Chains /\ to \in Across(from) BY DEF FormTypeOK, FormSound
<1>2. Direction(from, to) = <<from, to>> BY <1>1, ThereAndBack
<1>3. options' = options BY <1>2 DEF FormRestored, FormSound
<1>4. typing' = typing BY DEF FormRestored, FormSound
<1>5. FormTypeOK' BY <1>3, <1>4 DEF FormRestored, FormTypeOK
<1>6. FormSound' BY <1>3, <1>4 DEF FormRestored, FormSound
<1> QED BY <1>5, <1>6

BridgeInv == FormInv /\ RunsTyped /\ RunsSound /\ PagesOfRuns

-----------------------------------------------------------------------------
(* One step of a run *)

(* Run r becomes n and its transaction t: it is not over, and forgets nothing. *)
GoesOn(r, n, t) ==
  /\ n \in RunSet /\ run' = [run EXCEPT ![r] = n]
  /\ t \in {"none", "pool", "done", "failed", "dropped"} /\ tx' = [tx EXCEPT ![r] = t]
  /\ arrived' = arrived
  /\ Started(r) /\ run[r].pc # "over" /\ n.pc # "idle"
  /\ n.request = run[r].request /\ n.mount = run[r].mount
  /\ run[r].result = "error" => n.result = "error"
  /\ NoOutcome(n.rows) => NoOutcome(run[r].rows)
  /\ RowsOf(n, r \in arrived) /\ ResultOf(n, t) /\ FlightsOf(n)

(* The page stays, and is unlocked at most for an outcome of run r. *)
PageGoesOn(r) ==
  /\ UNCHANGED <<fields, view, mount, step, request, requests>>
  /\ transfering' \in BOOLEAN /\ pageLock' \in BOOLEAN /\ failed' \in BOOLEAN
  /\ \/ UNCHANGED <<failed, pageLock>>
     \/ Here(r) /\ run'[r].pc = "over"
     \/ Here(r) /\ failed' = failed /\ ~NoOutcome(run'[r].rows)

(* Such a step keeps the invariant. *)
LEMMA RunGoesOn ==
  ASSUME BridgeInv, NEW r \in Runs, NEW n, NEW t, GoesOn(r, n, t), PageGoesOn(r)
  PROVE  BridgeInv'
<1>1. /\ run'[r] = n /\ tx'[r] = t
      /\ \A s \in Runs \ {r}: run'[s] = run[s] /\ tx'[s] = tx[s]
  BY DEF GoesOn, BridgeInv, RunsTyped
<1>2. RunsTyped' BY DEF GoesOn, BridgeInv, RunsTyped
<1>3. RunsSound'
  <2>1. RunSound(r)' BY <1>1 DEF GoesOn, RunSound
  <2>2. ASSUME NEW s \in Runs \ {r} PROVE RunSound(s)'
    <3>1. RunSound(s) BY DEF BridgeInv, RunsSound
    <3>2. arrived' = arrived BY DEF GoesOn
    <3> QED BY <1>1, <3>1, <3>2 DEF RunSound
  <2> QED BY <2>1, <2>2 DEF RunsSound
<1>4. \A s \in Runs: /\ Started(s)' <=> Started(s)
                     /\ run'[s].request = run[s].request /\ run'[s].mount = run[s].mount
                     /\ run[s].result = "error" => run'[s].result = "error"
                     /\ run[s].pc = "over" => run'[s].pc = "over"
                     /\ NoOutcome(run'[s].rows) => NoOutcome(run[s].rows)
  BY <1>1 DEF GoesOn, Started
<1>5. \A s \in Runs: Here(s)' <=> Here(s) BY <1>4 DEF Here, PageGoesOn
<1>6. Here(r) => /\ step = 2 /\ run[r].request = requests
                 /\ \A s \in Runs: Started(s) /\ Here(s) /\ run[s].pc # "over" => s = r
  <2> SUFFICES ASSUME Here(r)
               PROVE  /\ step = 2 /\ run[r].request = requests
                      /\ \A s \in Runs: Started(s) /\ Here(s) /\ run[s].pc # "over" => s = r
    OBVIOUS
  <2>1. Started(r) /\ run[r].pc # "over" BY DEF GoesOn
  <2>2. /\ step = 2 /\ run[r].request = requests
        /\ \A s \in Runs: r < s => ~Started(s)
    BY <2>1 DEF BridgeInv, PagesOfRuns, OneOnThePage
  <2>3. ASSUME NEW s \in Runs, Started(s), Here(s), run[s].pc # "over" PROVE s = r
    <3>1. \A q \in Runs: s < q => ~Started(q) BY <2>3 DEF BridgeInv, PagesOfRuns, OneOnThePage
    <3>2. s \in Nat /\ r \in Nat BY DEF Runs
    <3> QED BY <2>1, <2>2, <2>3, <3>1, <3>2
  <2> QED BY <2>2, <2>3
<1>7. FormInv'
  <2>1. PageTyped' BY DEF BridgeInv, FormInv, PageTyped, PageGoesOn, FormTypeOK, fields
  <2>2. FormSound' BY DEF BridgeInv, FormInv, FormSound, PageGoesOn, fields
  <2>3. failed' => step = 2 BY <1>6 DEF BridgeInv, FormInv, PageSound, PageGoesOn
  <2>4. Confirmation' = Confirmation /\ (Complete' <=> Complete)
    BY DEF PageGoesOn, fields, Confirmation, Complete
  <2>5. PageSound' BY <2>3, <2>4 DEF BridgeInv, FormInv, PageSound, PageGoesOn
  <2> QED BY <2>1, <2>2, <2>5 DEF FormInv
<1>8. InOrder' BY <1>4 DEF BridgeInv, PagesOfRuns, InOrder
<1>9. AgainAfterError' BY <1>4 DEF BridgeInv, PagesOfRuns, AgainAfterError
<1>10. OneOnThePage'
  <2> SUFFICES ASSUME NEW s \in Runs, Started(s)', Here(s)', run'[s].pc # "over"
               PROVE  /\ step' = 2 /\ ~failed' /\ run'[s].request = requests'
                      /\ \A q \in Runs: s < q => ~Started(q)'
    BY DEF OneOnThePage
  <2>1. Started(s) /\ Here(s) /\ run[s].pc # "over" BY <1>4, <1>5
  <2>2. /\ step = 2 /\ ~failed /\ run[s].request = requests
        /\ \A q \in Runs: s < q => ~Started(q)
    BY <2>1 DEF BridgeInv, PagesOfRuns, OneOnThePage
  <2>3. ~failed'
    <3>1. Here(r) /\ run'[r].pc = "over" => s = r BY <1>6, <2>1
    <3> QED BY <2>2, <3>1 DEF PageGoesOn
  <2> QED BY <1>4, <2>2, <2>3 DEF PageGoesOn
<1>11. OfThePage' BY <1>4 DEF BridgeInv, PagesOfRuns, OfThePage, PageGoesOn
<1>12. LockHeld'
  <2>1. ConfirmedAlready' <=> ConfirmedAlready BY <1>4 DEF ConfirmedAlready, PageGoesOn
  <2>2. Here(r) => step # 1 BY <1>6
  <2>3. view' = "bridge" /\ step' = 1 => pageLock' \/ ConfirmedAlready'
    BY <2>1, <2>2 DEF BridgeInv, PagesOfRuns, LockHeld, PageGoesOn
  <2>4. view' = "bridge" /\ step' = 2 => ConfirmedAlready'
    BY <2>1 DEF BridgeInv, PagesOfRuns, LockHeld, PageGoesOn
  <2>5. ASSUME NEW s \in Runs, Started(s)', Here(s)', run'[s].pc # "over", NoOutcome(run'[s].rows)
        PROVE  pageLock' \/ Again(s)'
    <3>1. Started(s) /\ Here(s) /\ run[s].pc # "over" /\ NoOutcome(run[s].rows)
      BY <1>4, <1>5, <2>5
    <3>2. pageLock \/ Again(s) BY <3>1 DEF BridgeInv, PagesOfRuns, LockHeld
    <3>3. Again(s)' <=> Again(s) BY <1>4 DEF Again
    <3>4. UNCHANGED pageLock
      <4>1. Here(r) => s = r BY <1>6, <3>1
      <4> QED BY <2>5, <4>1 DEF PageGoesOn
    <3> QED BY <3>2, <3>3, <3>4
  <2> QED BY <2>3, <2>4, <2>5 DEF LockHeld
<1> QED BY <1>2, <1>3, <1>7, <1>8, <1>9, <1>10, <1>11, <1>12 DEF BridgeInv, PagesOfRuns

-----------------------------------------------------------------------------
(* The steps of a run *)

(* Stops is a step the page may take for an outcome. *)
LEMMA PageStops ==
  ASSUME BridgeInv
  PROVE  /\ Stops => transfering' \in BOOLEAN /\ pageLock' \in BOOLEAN
         /\ UNCHANGED <<transfering, pageLock>> => transfering' \in BOOLEAN /\ pageLock' \in BOOLEAN
         /\ failed \in BOOLEAN
BY DEF BridgeInv, FormInv, PageTyped, Stops

(* A step that leaves the page alone is one of the page for every run. *)
LEMMA NothingOnThePage ==
  ASSUME BridgeInv, NEW r \in Runs, UNCHANGED page
  PROVE  PageGoesOn(r)
BY PageStops DEF page, sending, PageGoesOn

(* What is known of a run that is about to take a step. *)
LEMMA RunNow ==
  ASSUME BridgeInv, NEW r \in Runs
  PROVE  /\ run[r] \in RunSet /\ tx[r] \in {"none", "pool", "done", "failed", "dropped"}
         /\ RowsOf(run[r], r \in arrived) /\ ResultOf(run[r], tx[r]) /\ FlightsOf(run[r])
         /\ tx = [tx EXCEPT ![r] = tx[r]]
BY DEF BridgeInv, RunsTyped, RunsSound, RunSound

(* The rows of a short run have no outcome. *)
LEMMA RowsWithoutOutcome ==
  /\ NoOutcome(<<>>) /\ NoOutcome(<<"pending">>) /\ NoOutcome(<<"pending", "deposit">>)
  /\ <<"pending">> \in Seq(Rows) /\ <<"pending", "deposit">> \in Seq(Rows)
  /\ <<"pending", "failed">> \in Seq(Rows) /\ ~NoOutcome(<<"pending", "failed">>)
<1>1. NoOutcome(<<>>) /\ NoOutcome(<<"pending">>) BY DEF NoOutcome, Outcomes
<1>2. NoOutcome(<<"pending", "deposit">>)
  <2>1. DOMAIN <<"pending", "deposit">> = 1 .. 2 OBVIOUS
  <2> QED BY <2>1 DEF NoOutcome, Outcomes
<1>3. ~NoOutcome(<<"pending", "failed">>)
  <2>1. 2 \in DOMAIN <<"pending", "failed">> /\ <<"pending", "failed">>[2] = "failed" OBVIOUS
  <2> QED BY <2>1 DEF NoOutcome, Outcomes
<1> QED BY <1>1, <1>2, <1>3 DEF Rows

(* The second row. *)
LEMMA SecondRow == ASSUME NEW y PROVE Append(<<"pending">>, y) = <<"pending", y>>
<1> DEFINE s == Append(<<"pending">>, y)
           t == <<"pending", y>>
<1>1. <<"pending">> \in Seq({"pending", y}) OBVIOUS
<1>2. s \in Seq({"pending", y}) /\ Len(s) = 2 /\ s[1] = "pending" /\ s[2] = y BY <1>1
<1>3. t \in Seq({"pending", y}) /\ Len(t) = 2 /\ t[1] = "pending" /\ t[2] = y OBVIOUS
<1> HIDE DEF s, t
<1>4. \A i \in 1 .. 2: s[i] = t[i]
  <2>1. \A i \in 1 .. 2: i = 1 \/ i = 2 OBVIOUS
  <2> QED BY <1>2, <1>3, <2>1
<1>5. s \in [1 .. 2 -> {"pending", y}] /\ t \in [1 .. 2 -> {"pending", y}] BY <1>2, <1>3
<1>6. s = t BY <1>4, <1>5
<1> QED BY <1>6 DEF s, t

(* The rows of a run that looks for the other end. *)
LEMMA RowsInFollow ==
  ASSUME NEW x, NEW a, x.pc = "follow", RowsOf(x, a)
  PROVE  /\ Len(x.rows) >= 2 /\ x.rows[1] = "pending" /\ x.rows[2] = "deposit"
         /\ \A i \in 3 .. Len(x.rows): x.rows[i] \in {"initiated", "completed"}
                                       /\ (x.rows[i] = "completed" => a)
         /\ ~x.overlap => Len(x.rows) = 2 \/ (Len(x.rows) = 3 /\ ~x.ticking /\ x.flights = 0)
BY DEF RowsOf, Before

(* A row more at the end. *)
LEMMA OneMoreRow ==
  ASSUME NEW rows \in Seq(Rows), NEW row \in Rows
  PROVE  /\ Append(rows, row) \in Seq(Rows) /\ Len(Append(rows, row)) = Len(rows) + 1
         /\ \A i \in 1 .. Len(rows): Append(rows, row)[i] = rows[i]
         /\ Append(rows, row)[Len(rows) + 1] = row
         /\ row \in Outcomes => ~NoOutcome(Append(rows, row))
<1>1. /\ Append(rows, row) \in Seq(Rows) /\ Len(Append(rows, row)) = Len(rows) + 1
      /\ \A i \in 1 .. Len(rows): Append(rows, row)[i] = rows[i]
      /\ Append(rows, row)[Len(rows) + 1] = row
  OBVIOUS
<1>2. Len(rows) + 1 \in DOMAIN Append(rows, row) BY <1>1
<1> QED BY <1>1, <1>2 DEF NoOutcome

(* The same transfer: only pc, result and lost differ. *)
SameTransfer(n, x) ==
  /\ n \in RunSet
  /\ n.rows = x.rows /\ n.request = x.request /\ n.mount = x.mount /\ n.evm = x.evm
  /\ n.ticking = x.ticking /\ n.flights = x.flights /\ n.overlap = x.overlap

(* A step before the result is told. *)
LEMMA OnTheWay ==
  ASSUME BridgeInv, NEW r \in Runs, NEW n, NEW t \in {"none", "pool", "done", "failed", "dropped"},
         SameTransfer(n, run[r]), n.pc \in {"sign", "broadcast", "poll", "refresh", "told"},
         run[r].pc \in Before \cup {"refresh"},
         run' = [run EXCEPT ![r] = n], tx' = [tx EXCEPT ![r] = t], UNCHANGED <<page, arrived>>,
         ResultOf(n, t)
  PROVE  BridgeInv'
<1> DEFINE x == run[r]
<1>1. x \in RunSet /\ RowsOf(x, r \in arrived) /\ ResultOf(x, tx[r]) /\ FlightsOf(x) BY RunNow
<1>4. x.pc # "idle" /\ x.pc # "over" /\ x.pc # "follow" BY DEF Before
<1>5. x.result # "error" BY <1>1 DEF ResultOf, Before
<1>6. x.rows = <<"pending">> BY <1>1 DEF RowsOf, Before
<1>7. RowsOf(n, r \in arrived) BY <1>6 DEF RowsOf, Before, SameTransfer
<1>8. FlightsOf(n) BY <1>1, <1>4 DEF FlightsOf, SameTransfer
<1>9. GoesOn(r, n, t) BY <1>4, <1>5, <1>7, <1>8 DEF GoesOn, Started, SameTransfer
<1> QED BY <1>9, RunGoesOn, NothingOnThePage

(* Every step of a transfer up to its outcome keeps the invariant. *)
LEMMA RunsOnTheWay ==
  ASSUME BridgeInv, NEW r \in Runs,
         \/ PrepareTransaction(r) \/ Sign(r) \/ TransferTaken(r) \/ CallTaken(r) \/ Refused(r)
         \/ Poll(r) \/ RefreshBalances(r)
  PROVE  BridgeInv'
<1> DEFINE x == run[r]
<1>1. /\ x \in RunSet /\ tx[r] \in {"none", "pool", "done", "failed", "dropped"}
      /\ ResultOf(x, tx[r]) /\ tx = [tx EXCEPT ![r] = tx[r]]
  BY RunNow
<1>2. x.lost \in BOOLEAN /\ x.result \in {"none", "hash", "timeout", "error"} BY <1>1 DEF RunSet
<1>3. run \in [Runs -> RunSet] BY DEF BridgeInv, RunsTyped
<1>4. ASSUME NEW pc \in {"sign", "broadcast", "poll", "refresh", "told"}, To(r, pc), UNCHANGED <<page, chain>>,
             x.pc \in Before \cup {"refresh"}, ResultOf([x EXCEPT !.pc = pc], tx[r])
      PROVE  BridgeInv'
  <2> DEFINE n == [x EXCEPT !.pc = pc]
  <2>1. SameTransfer(n, x) /\ n.pc = pc BY <1>1 DEF RunSet, SameTransfer
  <2>2. run' = [run EXCEPT ![r] = n] BY <1>3, <1>4 DEF To
  <2>3. tx' = [tx EXCEPT ![r] = tx[r]] /\ UNCHANGED <<page, arrived>> BY <1>1, <1>4 DEF chain
  <2>4. ResultOf(n, tx[r]) BY <1>4
  <2> HIDE DEF n
  <2> QED BY <1>1, <1>4, <2>1, <2>2, <2>3, <2>4, OnTheWay
<1>5. ASSUME Fails(r), UNCHANGED <<page, chain>>, x.pc \in Before,
             tx[r] \in {"none", "failed"}
      PROVE  BridgeInv'
  <2> DEFINE n == [x EXCEPT !.result = "error", !.pc = "told"]
  <2>1. SameTransfer(n, x) BY <1>1 DEF RunSet, SameTransfer
  <2>2. run' = [run EXCEPT ![r] = n] BY <1>3, <1>5 DEF Fails
  <2>3. tx' = [tx EXCEPT ![r] = tx[r]] /\ UNCHANGED <<page, arrived>> BY <1>1, <1>5 DEF chain
  <2>4. n.pc = "told" /\ n.result = "error" BY <1>1 DEF RunSet
  <2>5. ResultOf(n, tx[r]) BY <1>5, <2>4 DEF ResultOf, Before
  <2> HIDE DEF n
  <2> QED BY <1>1, <1>5, <2>1, <2>2, <2>3, <2>4, <2>5, OnTheWay
<1>6. CASE PrepareTransaction(r)
  <2>1. x.pc = "load" /\ UNCHANGED <<page, chain>> BY <1>6 DEF PrepareTransaction
  <2>2. tx[r] = "none" /\ x.result = "none" BY <1>1, <2>1 DEF ResultOf, Before
  <2>3. ResultOf([x EXCEPT !.pc = "sign"], tx[r]) BY <1>1, <2>2 DEF ResultOf, Before, RunSet
  <2> QED BY <1>4, <1>5, <1>6, <2>1, <2>2, <2>3 DEF PrepareTransaction, Before
<1>7. CASE Sign(r)
  <2>1. x.pc = "sign" /\ UNCHANGED <<page, chain>> BY <1>7 DEF Sign
  <2>2. tx[r] = "none" /\ x.result = "none" BY <1>1, <2>1 DEF ResultOf, Before
  <2>3. ResultOf([x EXCEPT !.pc = "broadcast"], tx[r]) BY <1>1, <2>2 DEF ResultOf, Before, RunSet
  <2> QED BY <1>4, <1>5, <1>7, <2>1, <2>2, <2>3 DEF Sign, Before
<1>8. CASE Refused(r)
  <2>1. x.pc = "broadcast" /\ UNCHANGED <<page, chain>> /\ Fails(r) BY <1>8 DEF Refused
  <2>2. tx[r] = "none" BY <1>1, <2>1 DEF ResultOf
  <2> QED BY <1>5, <2>1, <2>2 DEF Before
<1>9. ASSUME NEW result \in {"none", "hash"}, NEW pc \in {"poll", "refresh"},
             Taken(r, result, pc),
             result = "none" <=> pc = "poll", result = "hash" => x.evm
      PROVE  BridgeInv'
  <2>1. /\ x.pc = "broadcast" /\ tx' = [tx EXCEPT ![r] = "pool"] /\ UNCHANGED <<page, arrived>>
    BY <1>9 DEF Taken
  <2>2. CASE run' = [run EXCEPT ![r].result = result, ![r].pc = pc]
    <3> DEFINE n == [x EXCEPT !.result = result, !.pc = pc]
    <3>1. SameTransfer(n, x) BY <1>1 DEF RunSet, SameTransfer
    <3>2. run' = [run EXCEPT ![r] = n] BY <1>3, <2>2
    <3>3. n.pc = pc /\ n.result = result /\ n.evm = x.evm BY <1>1 DEF RunSet
    <3>4. ResultOf(n, "pool") BY <1>9, <3>3 DEF ResultOf, Before
    <3>5. n.pc \in {"sign", "broadcast", "poll", "refresh", "told"} BY <3>3
    <3>6. x.pc \in Before \cup {"refresh"} BY <2>1 DEF Before
    <3> HIDE DEF n
    <3> QED BY <2>1, <3>1, <3>2, <3>4, <3>5, <3>6, OnTheWay
  <2>3. CASE run' = [run EXCEPT ![r].lost = TRUE, ![r].result = "error", ![r].pc = "told"]
    <3> DEFINE n == [x EXCEPT !.lost = TRUE, !.result = "error", !.pc = "told"]
    <3>1. SameTransfer(n, x) BY <1>1 DEF RunSet, SameTransfer
    <3>2. run' = [run EXCEPT ![r] = n] BY <1>3, <2>3
    <3>3. n.pc = "told" /\ n.result = "error" /\ n.lost BY <1>1 DEF RunSet
    <3>4. ResultOf(n, "pool") BY <3>3 DEF ResultOf, Before
    <3>5. n.pc \in {"sign", "broadcast", "poll", "refresh", "told"} BY <3>3
    <3>6. x.pc \in Before \cup {"refresh"} BY <2>1 DEF Before
    <3> HIDE DEF n
    <3> QED BY <2>1, <3>1, <3>2, <3>4, <3>5, <3>6, OnTheWay
  <2>4. \/ run' = [run EXCEPT ![r].result = result, ![r].pc = pc]
        \/ run' = [run EXCEPT ![r].lost = TRUE, ![r].result = "error", ![r].pc = "told"]
    BY <1>9 DEF Taken
  <2> QED BY <2>2, <2>3, <2>4
<1>10. CASE TransferTaken(r)
  <2>1. Taken(r, "none", "poll") BY <1>10 DEF TransferTaken
  <2>2. "none" \in {"none", "hash"} /\ "poll" \in {"poll", "refresh"} OBVIOUS
  <2> QED BY <1>9, <2>1, <2>2
<1>11. CASE CallTaken(r)
  <2>1. Taken(r, "hash", "refresh") /\ x.evm BY <1>11 DEF CallTaken
  <2>2. "hash" \in {"none", "hash"} /\ "refresh" \in {"poll", "refresh"} OBVIOUS
  <2> QED BY <1>9, <2>1, <2>2
<1>12. CASE Poll(r)
  <2>1. x.pc = "poll" /\ UNCHANGED <<page, chain>> BY <1>12 DEF Poll
  <2>2. tx' = [tx EXCEPT ![r] = tx[r]] /\ UNCHANGED <<page, arrived>> BY <1>1, <2>1 DEF chain
  <2>3. ASSUME NEW n, SameTransfer(n, x), run' = [run EXCEPT ![r] = n],
               \/ n.pc = "refresh" /\ n.result = "hash" /\ tx[r] = "done"
               \/ n.pc = "refresh" /\ n.result = "timeout"
               \/ n.pc = "told" /\ n.result = "error" /\ n.lost
        PROVE  BridgeInv'
    <3>1. ResultOf(n, tx[r]) BY <2>3 DEF ResultOf, Before
    <3>2. n.pc \in {"sign", "broadcast", "poll", "refresh", "told"} BY <2>3
    <3>3. x.pc \in Before \cup {"refresh"} BY <2>1 DEF Before
    <3> QED BY <1>1, <2>2, <2>3, <3>1, <3>2, <3>3, OnTheWay
  <2>4. CASE HasRun(r) /\ run' = [run EXCEPT ![r].result = "hash", ![r].pc = "refresh"]
    <3> DEFINE n == [x EXCEPT !.result = "hash", !.pc = "refresh"]
    <3>1. SameTransfer(n, x) /\ n.pc = "refresh" /\ n.result = "hash"
      BY <1>1 DEF RunSet, SameTransfer
    <3>2. run' = [run EXCEPT ![r] = n] BY <1>3, <2>4
    <3>3. tx[r] = "done" BY <2>4 DEF HasRun
    <3> HIDE DEF n
    <3> QED BY <2>3, <3>1, <3>2, <3>3
  <2>5. CASE tx[r] = "failed" /\ Fails(r) BY <1>5, <2>1, <2>5 DEF Before
  <2>6. CASE run' = [run EXCEPT ![r].result = "timeout", ![r].lost = TRUE, ![r].pc = "refresh"]
    <3> DEFINE n == [x EXCEPT !.result = "timeout", !.lost = TRUE, !.pc = "refresh"]
    <3>1. SameTransfer(n, x) /\ n.pc = "refresh" /\ n.result = "timeout"
      BY <1>1 DEF RunSet, SameTransfer
    <3>2. run' = [run EXCEPT ![r] = n] BY <1>3, <2>6
    <3> HIDE DEF n
    <3> QED BY <2>3, <3>1, <3>2
  <2>7. CASE run' = [run EXCEPT ![r].result = "error", ![r].lost = TRUE, ![r].pc = "told"]
    <3> DEFINE n == [x EXCEPT !.result = "error", !.lost = TRUE, !.pc = "told"]
    <3>1. SameTransfer(n, x) /\ n.pc = "told" /\ n.result = "error" /\ n.lost
      BY <1>1 DEF RunSet, SameTransfer
    <3>2. run' = [run EXCEPT ![r] = n] BY <1>3, <2>7
    <3> HIDE DEF n
    <3> QED BY <2>3, <3>1, <3>2
  <2> QED BY <1>12, <2>4, <2>5, <2>6, <2>7 DEF Poll
<1>13. CASE RefreshBalances(r)
  <2>1. x.pc = "refresh" /\ To(r, "told") /\ UNCHANGED <<page, chain>>
    BY <1>13 DEF RefreshBalances
  <2>2. ResultOf([x EXCEPT !.pc = "told"], tx[r]) BY <1>1, <2>1 DEF ResultOf, Before, RunSet
  <2> QED BY <1>4, <2>1, <2>2
<1> QED BY <1>6, <1>7, <1>8, <1>10, <1>11, <1>12, <1>13

(* A run that is told the result of its transaction. *)
LEMMA RunsTold ==
  ASSUME BridgeInv, NEW r \in Runs, Deposited(r) \/ NotDeposited(r) \/ StartTimer(r)
  PROVE  BridgeInv'
<1> DEFINE x == run[r]
<1>1. /\ x \in RunSet /\ tx[r] \in {"none", "pool", "done", "failed", "dropped"}
      /\ RowsOf(x, r \in arrived) /\ ResultOf(x, tx[r]) /\ FlightsOf(x)
      /\ tx = [tx EXCEPT ![r] = tx[r]]
  BY RunNow
<1>2. run \in [Runs -> RunSet] BY DEF BridgeInv, RunsTyped
<1>3. CASE Deposited(r)
  <2> DEFINE n == [x EXCEPT !.rows = Row(r, "deposit"), !.pc = "wait"]
  <2>1. /\ x.pc = "told" /\ x.result # "error" /\ UNCHANGED chain
        /\ run' = [run EXCEPT ![r] = n]
    BY <1>2, <1>3 DEF Deposited
  <2>2. x.rows = <<"pending">> BY <1>1, <2>1 DEF RowsOf
  <2>3. Row(r, "deposit") = <<"pending", "deposit">> BY <2>2, SecondRow DEF Row
  <2>4. /\ n.rows = <<"pending", "deposit">> /\ n.pc = "wait" /\ n.request = x.request
        /\ n.mount = x.mount /\ n.result = x.result /\ n.evm = x.evm /\ n.lost = x.lost
        /\ n.ticking = x.ticking /\ n.flights = x.flights /\ n.overlap = x.overlap
    BY <1>1, <2>3 DEF RunSet
  <2>5. n \in RunSet BY <1>1, <2>3, RowsWithoutOutcome DEF RunSet
  <2>6. RowsOf(n, r \in arrived) BY <2>4 DEF RowsOf, Before
  <2>7. ResultOf(n, tx[r]) BY <1>1, <2>1, <2>4 DEF ResultOf, Before
  <2>8. FlightsOf(n) BY <1>1, <2>1, <2>4 DEF FlightsOf
  <2>9. NoOutcome(x.rows) BY <2>2, RowsWithoutOutcome
  <2>10. GoesOn(r, n, tx[r])
    BY <1>1, <2>1, <2>4, <2>5, <2>6, <2>7, <2>8, <2>9 DEF GoesOn, Started, chain
  <2>11. PageGoesOn(r) BY <1>3, PageStops DEF Deposited, LockAfterDeposit, PageGoesOn
  <2> HIDE DEF n
  <2> QED BY <1>1, <2>10, <2>11, RunGoesOn
<1>4. CASE NotDeposited(r)
  <2> DEFINE n == [x EXCEPT !.rows = Row(r, "failed"), !.pc = "over"]
  <2>1. /\ x.pc = "told" /\ x.result = "error" /\ UNCHANGED chain
        /\ run' = [run EXCEPT ![r] = n]
    BY <1>2, <1>4 DEF NotDeposited
  <2>2. x.rows = <<"pending">> BY <1>1, <2>1 DEF RowsOf
  <2>3. Row(r, "failed") = <<"pending", "failed">> BY <2>2, SecondRow DEF Row
  <2>4. /\ n.rows = <<"pending", "failed">> /\ n.pc = "over" /\ n.request = x.request
        /\ n.mount = x.mount /\ n.result = x.result /\ n.evm = x.evm /\ n.lost = x.lost
        /\ n.ticking = x.ticking /\ n.flights = x.flights /\ n.overlap = x.overlap
    BY <1>1, <2>3 DEF RunSet
  <2>5. n \in RunSet BY <1>1, <2>3, RowsWithoutOutcome DEF RunSet
  <2>6. RowsOf(n, r \in arrived) BY <2>4 DEF RowsOf, Before
  <2>7. ResultOf(n, tx[r]) BY <1>1, <2>1, <2>4 DEF ResultOf, Before
  <2>8. FlightsOf(n) BY <1>1, <2>1, <2>4 DEF FlightsOf
  <2>9. NoOutcome(x.rows) BY <2>2, RowsWithoutOutcome
  <2>10. GoesOn(r, n, tx[r])
    BY <1>1, <2>1, <2>4, <2>5, <2>6, <2>7, <2>8, <2>9 DEF GoesOn, Started, chain
  <2>11. run'[r].pc = "over" BY <1>2, <2>1, <2>4
  <2>12. PageGoesOn(r)
    <3>1. CASE Here(r) BY <1>4, <2>11, <3>1, PageStops DEF NotDeposited, PageGoesOn
    <3>2. CASE ~Here(r) BY <1>4, <3>2, PageStops DEF NotDeposited, PageGoesOn
    <3> QED BY <3>1, <3>2
  <2> HIDE DEF n
  <2> QED BY <1>1, <2>10, <2>12, RunGoesOn
<1>5. CASE StartTimer(r)
  <2> DEFINE n == [x EXCEPT !.pc = "follow", !.ticking = TRUE]
  <2>1. /\ x.pc = "wait" /\ UNCHANGED <<page, chain>> /\ run' = [run EXCEPT ![r] = n]
    BY <1>2, <1>5 DEF StartTimer
  <2>2. x.rows = <<"pending", "deposit">> BY <1>1, <2>1 DEF RowsOf, Before
  <2>3. /\ n.rows = <<"pending", "deposit">> /\ n.pc = "follow" /\ n.request = x.request
        /\ n.mount = x.mount /\ n.result = x.result /\ n.evm = x.evm /\ n.lost = x.lost
        /\ n.flights = x.flights /\ n.overlap = x.overlap
    BY <1>1, <2>2 DEF RunSet
  <2>4. n \in RunSet BY <1>1 DEF RunSet
  <2>5. RowsOf(n, r \in arrived)
    <3>1. Len(n.rows) = 2 /\ n.rows[1] = "pending" /\ n.rows[2] = "deposit" BY <2>3
    <3>2. 3 .. Len(n.rows) = {} BY <3>1
    <3> HIDE DEF n
    <3> QED BY <2>3, <3>1, <3>2 DEF RowsOf, Before
  <2>6. ResultOf(n, tx[r]) BY <1>1, <2>1, <2>3 DEF ResultOf, Before
  <2>7. FlightsOf(n) BY <1>1, <2>1, <2>3 DEF FlightsOf
  <2>8. NoOutcome(x.rows) BY <2>2, RowsWithoutOutcome
  <2>9. x.result # "error" BY <1>1, <2>1 DEF ResultOf
  <2>10. GoesOn(r, n, tx[r])
    BY <1>1, <2>1, <2>3, <2>4, <2>5, <2>6, <2>7, <2>8, <2>9 DEF GoesOn, Started, chain
  <2>11. PageGoesOn(r) BY <2>1, NothingOnThePage
  <2> HIDE DEF n
  <2> QED BY <1>1, <2>10, <2>11, RunGoesOn
<1> QED BY <1>3, <1>4, <1>5

(* A run that looks for the other end. *)
LEMMA RunsFollow ==
  ASSUME BridgeInv, NEW r \in Runs, Tick(r) \/ Found(r) \/ NotFound(r) \/ GivesUp(r)
  PROVE  BridgeInv'
<1> DEFINE x == run[r]
<1>1. /\ x \in RunSet /\ tx[r] \in {"none", "pool", "done", "failed", "dropped"}
      /\ RowsOf(x, r \in arrived) /\ ResultOf(x, tx[r]) /\ FlightsOf(x)
      /\ tx = [tx EXCEPT ![r] = tx[r]]
  BY RunNow
<1>2. run \in [Runs -> RunSet] BY DEF BridgeInv, RunsTyped
<1>3. x.ticking \/ x.flights > 0 BY <1>1 DEF Tick, Found, NotFound, GivesUp, RunSet
<1>4. x.pc = "follow" BY <1>1, <1>3 DEF FlightsOf
<1>5. /\ x.rows \in Seq(Rows) /\ x.flights \in 0 .. MaxFlights /\ x.failures \in Nat
      /\ x.overlap \in BOOLEAN /\ x.ticking \in BOOLEAN /\ MaxFlights \in Nat
  BY <1>1, ConstantsAssumption DEF RunSet
<1>6. /\ Len(x.rows) >= 2 /\ x.rows[1] = "pending" /\ x.rows[2] = "deposit"
      /\ \A i \in 3 .. Len(x.rows): x.rows[i] \in {"initiated", "completed"}
                                    /\ (x.rows[i] = "completed" => r \in arrived)
      /\ ~x.overlap => Len(x.rows) = 2 \/ (Len(x.rows) = 3 /\ ~x.ticking /\ x.flights = 0)
  BY <1>1, <1>4, RowsInFollow
<1>7. x.result # "error" BY <1>1, <1>4 DEF ResultOf
<1>8. ASSUME NEW n, n \in RunSet, run' = [run EXCEPT ![r] = n], UNCHANGED chain,
             n.pc = x.pc, n.request = x.request, n.mount = x.mount, n.result = x.result,
             n.evm = x.evm, n.lost = x.lost,
             NoOutcome(n.rows) => NoOutcome(x.rows), RowsOf(n, r \in arrived),
             ~n.overlap => n.flights <= 1,
             PageGoesOn(r)
      PROVE  BridgeInv'
  <2>1. ResultOf(n, tx[r]) BY <1>1, <1>4, <1>8 DEF ResultOf, Before
  <2>2. FlightsOf(n) BY <1>1, <1>4, <1>8 DEF FlightsOf
  <2>3. GoesOn(r, n, tx[r]) BY <1>1, <1>4, <1>7, <1>8, <2>1, <2>2 DEF GoesOn, Started, chain
  <2> QED BY <1>1, <1>8, <2>3, RunGoesOn
<1>9. ASSUME NEW n, NEW row \in {"initiated", "completed"}, n \in RunSet,
             run' = [run EXCEPT ![r] = n], UNCHANGED chain,
             n.pc = x.pc, n.request = x.request, n.mount = x.mount, n.result = x.result,
             n.evm = x.evm, n.lost = x.lost, n.overlap = x.overlap,
             n.rows = Append(x.rows, row), row = "completed" => r \in arrived,
             x.flights > 0, n.flights = x.flights - 1, ~n.ticking,
             Unlocks(r), UNCHANGED <<fields, view, mount, step, request, requests, failed>>
      PROVE  BridgeInv'
  <2>1. row \in Rows /\ row \in Outcomes BY DEF Rows, Outcomes
  <2>2. /\ Len(n.rows) = Len(x.rows) + 1 /\ n.rows[Len(x.rows) + 1] = row /\ ~NoOutcome(n.rows)
        /\ \A i \in 1 .. Len(x.rows): n.rows[i] = x.rows[i]
    BY <1>5, <1>9, <2>1, OneMoreRow
  <2>3. Len(x.rows) \in Nat BY <1>5
  <2>4. n.rows[1] = "pending" /\ n.rows[2] = "deposit" /\ Len(n.rows) >= 2
    BY <1>6, <2>2, <2>3
  <2>5. ASSUME NEW i \in 3 .. Len(n.rows)
        PROVE  n.rows[i] \in {"initiated", "completed"} /\ (n.rows[i] = "completed" => r \in arrived)
    <3>1. CASE i = Len(x.rows) + 1 BY <1>9, <2>2, <3>1
    <3>2. CASE i # Len(x.rows) + 1
      <4>1. i \in 3 .. Len(x.rows) /\ i \in 1 .. Len(x.rows) BY <2>2, <2>3, <2>5, <3>2
      <4> QED BY <1>6, <2>2, <4>1
    <3> QED BY <3>1, <3>2
  <2>6. ~n.overlap => n.flights = 0 /\ Len(n.rows) = 3
    <3> SUFFICES ASSUME ~n.overlap PROVE n.flights = 0 /\ Len(n.rows) = 3 OBVIOUS
    <3>1. x.flights <= 1 BY <1>1, <1>9 DEF FlightsOf
    <3>2. x.flights = 1 BY <1>5, <1>9, <3>1
    <3>3. Len(x.rows) = 2 BY <1>6, <1>9, <3>2
    <3> QED BY <1>9, <2>2, <3>2, <3>3
  <2>7. RowsOf(n, r \in arrived) BY <1>4, <1>9, <2>4, <2>5, <2>6 DEF RowsOf, Before
  <2>8. run'[r] = n BY <1>2, <1>9
  <2>9. PageGoesOn(r)
    <3>1. CASE Here(r) BY <1>9, <2>2, <2>8, <3>1, PageStops DEF Unlocks, PageGoesOn
    <3>2. CASE ~Here(r) BY <1>9, <3>2, PageStops DEF Unlocks, PageGoesOn
    <3> QED BY <3>1, <3>2
  <2>10. ~n.overlap => n.flights <= 1 BY <2>6
  <2> QED BY <1>8, <1>9, <2>2, <2>7, <2>9, <2>10
<1>10. CASE Tick(r)
  <2> DEFINE n == [x EXCEPT !.flights = x.flights + 1, !.overlap = x.overlap \/ x.flights > 0]
  <2>1. /\ x.ticking /\ x.flights < MaxFlights /\ run' = [run EXCEPT ![r] = n]
        /\ UNCHANGED <<page, chain>>
    BY <1>2, <1>10 DEF Tick
  <2>2. x.flights + 1 \in 0 .. MaxFlights /\ (x.overlap \/ x.flights > 0) \in BOOLEAN
    BY <1>5, <2>1
  <2>3. n \in RunSet BY <1>1, <2>2 DEF RunSet
  <2>4. /\ n.pc = x.pc /\ n.request = x.request /\ n.mount = x.mount /\ n.result = x.result
        /\ n.evm = x.evm /\ n.lost = x.lost /\ n.rows = x.rows /\ n.ticking = x.ticking
        /\ n.flights = x.flights + 1 /\ (n.overlap <=> x.overlap \/ x.flights > 0)
    BY <1>1 DEF RunSet
  <2> HIDE DEF n
  <2>5. ~n.overlap => x.flights = 0 /\ ~x.overlap BY <1>5, <2>4
  <2>6. ~n.overlap => Len(x.rows) = 2 BY <1>6, <2>1, <2>5
  <2>7. RowsOf(n, r \in arrived) BY <1>4, <1>6, <2>4, <2>6 DEF RowsOf, Before
  <2>8. ~n.overlap => n.flights <= 1 BY <1>5, <2>4, <2>5
  <2>9. PageGoesOn(r) BY <2>1, NothingOnThePage
  <2> QED BY <1>8, <2>1, <2>3, <2>4, <2>7, <2>8, <2>9
<1>11. CASE Found(r)
  <2> DEFINE n == [x EXCEPT !.flights = x.flights - 1, !.ticking = FALSE,
                            !.rows = Row(r, "completed")]
  <2>1. /\ x.flights > 0 /\ r \in arrived /\ run' = [run EXCEPT ![r] = n]
        /\ UNCHANGED <<chain, fields, view, mount, step, request, requests, failed>> /\ Unlocks(r)
    BY <1>2, <1>11 DEF Found
  <2>2. x.flights - 1 \in 0 .. MaxFlights BY <1>5, <2>1
  <2>3. Row(r, "completed") \in Seq(Rows) BY <1>5 DEF Row, Rows
  <2>4. n \in RunSet BY <1>1, <2>2, <2>3 DEF RunSet
  <2>5. /\ n.pc = x.pc /\ n.request = x.request /\ n.mount = x.mount /\ n.result = x.result
        /\ n.evm = x.evm /\ n.lost = x.lost /\ n.overlap = x.overlap
        /\ n.rows = Append(x.rows, "completed") /\ ~n.ticking /\ n.flights = x.flights - 1
    BY <1>1 DEF RunSet, Row
  <2> HIDE DEF n
  <2> QED BY <1>9, <2>1, <2>4, <2>5
<1>12. CASE NotFound(r)
  <2> DEFINE n == [x EXCEPT !.flights = x.flights - 1, !.failures = x.failures + 1]
  <2>1. /\ x.flights > 0 /\ run' = [run EXCEPT ![r] = n] /\ UNCHANGED <<page, chain>>
    BY <1>2, <1>12 DEF NotFound
  <2>2. x.flights - 1 \in 0 .. MaxFlights /\ x.failures + 1 \in Nat BY <1>5, <2>1
  <2>3. n \in RunSet BY <1>1, <2>2 DEF RunSet
  <2>4. /\ n.pc = x.pc /\ n.request = x.request /\ n.mount = x.mount /\ n.result = x.result
        /\ n.evm = x.evm /\ n.lost = x.lost /\ n.rows = x.rows /\ n.ticking = x.ticking
        /\ n.flights = x.flights - 1 /\ n.overlap = x.overlap
    BY <1>1 DEF RunSet
  <2> HIDE DEF n
  <2>5. ~n.overlap => x.flights = 1 /\ Len(x.rows) = 2
    <3>1. ~x.overlap => x.flights <= 1 BY <1>1 DEF FlightsOf
    <3> QED BY <1>5, <1>6, <2>1, <2>4, <3>1
  <2>6. RowsOf(n, r \in arrived) BY <1>4, <1>6, <2>4, <2>5 DEF RowsOf, Before
  <2>7. ~n.overlap => n.flights <= 1 BY <2>4, <2>5
  <2>8. PageGoesOn(r) BY <2>1, NothingOnThePage
  <2> QED BY <1>8, <2>1, <2>3, <2>4, <2>6, <2>7, <2>8
<1>13. CASE GivesUp(r)
  <2> DEFINE n == [x EXCEPT !.flights = x.flights - 1, !.failures = x.failures + 1,
                            !.ticking = FALSE, !.rows = Row(r, "initiated")]
  <2>1. /\ x.flights > 0 /\ run' = [run EXCEPT ![r] = n]
        /\ UNCHANGED <<chain, fields, view, mount, step, request, requests, failed>> /\ Unlocks(r)
    BY <1>2, <1>13 DEF GivesUp
  <2>2. x.flights - 1 \in 0 .. MaxFlights /\ x.failures + 1 \in Nat BY <1>5, <2>1
  <2>3. Row(r, "initiated") \in Seq(Rows) BY <1>5 DEF Row, Rows
  <2>4. n \in RunSet BY <1>1, <2>2, <2>3 DEF RunSet
  <2>5. /\ n.pc = x.pc /\ n.request = x.request /\ n.mount = x.mount /\ n.result = x.result
        /\ n.evm = x.evm /\ n.lost = x.lost /\ n.overlap = x.overlap
        /\ n.rows = Append(x.rows, "initiated") /\ ~n.ticking /\ n.flights = x.flights - 1
    BY <1>1 DEF RunSet, Row
  <2> HIDE DEF n
  <2> QED BY <1>9, <2>1, <2>4, <2>5
<1> QED BY <1>10, <1>11, <1>12, <1>13

-----------------------------------------------------------------------------
(* The chains *)

(* What is on the page and what the runs know stays as it is. *)
LEMMA PagesKept == BridgeInv /\ UNCHANGED <<page, run>> => FormInv' /\ PagesOfRuns'
<1> SUFFICES ASSUME BridgeInv, UNCHANGED <<page, run>> PROVE FormInv' /\ PagesOfRuns' OBVIOUS
<1>1. UNCHANGED <<fields, view, mount, step, requests, request, transfering, failed, pageLock>>
  BY DEF page, sending
<1>2. PageTyped' BY <1>1 DEF BridgeInv, FormInv, PageTyped, FormTypeOK, fields
<1>3. FormSound' BY <1>1 DEF BridgeInv, FormInv, FormSound, fields
<1>4. PageSound' BY <1>1 DEF BridgeInv, FormInv, PageSound, fields, Confirmation, Complete
<1>5. InOrder' /\ AgainAfterError'
  BY DEF BridgeInv, PagesOfRuns, InOrder, AgainAfterError, Started
<1>6. OneOnThePage' /\ OfThePage' /\ LockHeld'
  BY <1>1 DEF BridgeInv, PagesOfRuns, OneOnThePage, OfThePage, LockHeld, Started, Here, Again,
              ConfirmedAlready
<1> QED BY <1>2, <1>3, <1>4, <1>5, <1>6 DEF FormInv, PagesOfRuns

(* A block with the transfer's outcome changes no run. *)
LEMMA SettlesInBlock ==
  ASSUME BridgeInv, NEW r \in Runs, Settle(r)
  PROVE  BridgeInv'
<1>1. PICK end \in {"done", "failed", "dropped"}: tx' = [tx EXCEPT ![r] = end]
  BY DEF Settle
<1>2. tx[r] = "pool" /\ UNCHANGED <<page, run, arrived>> BY DEF Settle
<1>3. RunsTyped' BY <1>1, <1>2 DEF BridgeInv, RunsTyped
<1>4. ASSUME NEW s \in Runs PROVE RunSound(s)'
  <2>1. RunSound(s) BY DEF BridgeInv, RunsSound
  <2>2. CASE s = r
    <3>1. tx'[r] = end BY <1>1 DEF BridgeInv, RunsTyped
    <3>2. ResultOf(run[r], end) BY <1>2, <2>1, <2>2 DEF RunSound, ResultOf
    <3> QED BY <1>2, <2>1, <2>2, <3>1, <3>2 DEF RunSound
  <2>3. CASE s # r
    <3>1. tx'[s] = tx[s] BY <1>1, <2>3 DEF BridgeInv, RunsTyped
    <3> QED BY <1>2, <2>1, <3>1 DEF RunSound
  <2> QED BY <2>2, <2>3
<1> QED BY <1>2, <1>3, <1>4, PagesKept DEF BridgeInv, RunsSound

(* The coins arriving at the other chain change no run. *)
LEMMA ArrivesThere ==
  ASSUME BridgeInv, NEW r \in Runs, Arrive(r)
  PROVE  BridgeInv'
<1>1. arrived' = arrived \cup {r} /\ UNCHANGED <<page, run, tx>> BY DEF Arrive
<1>2. RunsTyped' BY <1>1 DEF BridgeInv, RunsTyped
<1>3. ASSUME NEW s \in Runs PROVE RunSound(s)'
  <2>1. RunSound(s) BY DEF BridgeInv, RunsSound
  <2>2. run[s] \in RunSet BY RunNow
  <2>3. RowsOf(run[s], s \in arrived')
    <3>1. CASE run[s].pc = "follow"
      <4> DEFINE x == run[s]
      <4>1. RowsOf(x, s \in arrived) BY <2>1 DEF RunSound
      <4>2. /\ Len(x.rows) >= 2 /\ x.rows[1] = "pending" /\ x.rows[2] = "deposit"
            /\ \A i \in 3 .. Len(x.rows): x.rows[i] \in {"initiated", "completed"}
                                          /\ (x.rows[i] = "completed" => s \in arrived)
            /\ ~x.overlap => Len(x.rows) = 2 \/ (Len(x.rows) = 3 /\ ~x.ticking /\ x.flights = 0)
        BY <3>1, <4>1, RowsInFollow
      <4>3. s \in arrived => s \in arrived' BY <1>1
      <4> QED BY <3>1, <4>2, <4>3 DEF RowsOf, Before
    <3>2. CASE run[s].pc # "follow" BY <2>1, <2>2, <3>2 DEF RunSound, RowsOf, RunSet, Before
    <3> QED BY <3>1, <3>2
  <2> QED BY <1>1, <2>1, <2>3 DEF RunSound
<1> QED BY <1>1, <1>2, <1>3, PagesKept DEF BridgeInv, RunsSound

-----------------------------------------------------------------------------
(* The page *)

(* A step of the page that leaves the runs alone. *)
LEMMA RunsKept == BridgeInv /\ UNCHANGED <<run, chain>> => RunsTyped' /\ RunsSound' /\ InOrder' /\ AgainAfterError'
<1> SUFFICES ASSUME BridgeInv, UNCHANGED <<run, chain>>
             PROVE  RunsTyped' /\ RunsSound' /\ InOrder' /\ AgainAfterError'
  OBVIOUS
<1>1. RunsTyped' BY DEF BridgeInv, RunsTyped, chain
<1>2. RunsSound' BY DEF BridgeInv, RunsSound, RunSound, chain
<1>3. InOrder' /\ AgainAfterError'
  BY DEF BridgeInv, PagesOfRuns, InOrder, AgainAfterError, Started
<1> QED BY <1>1, <1>2, <1>3

(* A step to a page no run has been started on, or away from all of them. *)
LEMMA NobodyHere ==
  ASSUME BridgeInv, UNCHANGED <<run, chain>>, FormInv',
         requests' = requests, mount' \in Nat, mount <= mount',
         view' = "bridge" => step' = 0 /\ \A r \in Runs: run[r].mount # mount'
  PROVE  BridgeInv'
<1>1. RunsTyped' /\ RunsSound' /\ InOrder' /\ AgainAfterError' BY RunsKept
<1>2. \A r \in Runs: ~Here(r)' BY DEF Here
<1>3. OneOnThePage' BY <1>2 DEF OneOnThePage
<1>4. \A r \in Runs: run[r].mount \in Nat /\ mount \in Nat
  BY RunNow DEF RunSet, BridgeInv, FormInv, PageTyped
<1>5. OfThePage' BY <1>4 DEF BridgeInv, PagesOfRuns, OfThePage, Started
<1>6. LockHeld' BY <1>2 DEF LockHeld
<1> QED BY <1>1, <1>3, <1>5, <1>6 DEF BridgeInv, PagesOfRuns

(* Opening, leaving, and the history page, which leave every run alone. *)
LEMMA PageComesAndGoes ==
  ASSUME BridgeInv, Open \/ Leave \/ History \/ CloseHistory
  PROVE  BridgeInv'
<1>1. /\ mount \in Nat /\ requests \in Nat /\ step \in 0 .. 2
      /\ FormTypeOK /\ FormSound /\ (view = "history" => step = 0)
      /\ transfering \in BOOLEAN /\ failed \in BOOLEAN /\ pageLock \in BOOLEAN
  BY DEF BridgeInv, FormInv, PageTyped, PageSound
<1>2. \A r \in Runs: run[r].mount \in Nat /\ (Started(r) => run[r].mount <= mount)
  BY <1>1, RunNow DEF RunSet, BridgeInv, PagesOfRuns, OfThePage
<1>3. ASSUME Open \/ CloseHistory PROVE BridgeInv'
  <2>1. /\ view' = "bridge" /\ mount' = mount + 1 /\ PageAtStart /\ FormMounted
        /\ pageLock' = FALSE /\ step' = 0 /\ UNCHANGED <<requests, run, chain>>
    BY <1>1, <1>3 DEF Open, CloseHistory, Mount
  <2>2. FormTypeOK' /\ FormSound' BY <2>1, NewFormIsSound
  <2>3. PageTyped'
    <3>1. transfering' = FALSE /\ failed' = FALSE BY <2>1 DEF PageAtStart
    <3>2. mount' \in Nat /\ requests' \in Nat /\ step' \in 0 .. 2 BY <1>1, <2>1
    <3> QED BY <2>1, <2>2, <3>1, <3>2 DEF PageTyped
  <2>4. PageSound' BY <2>1 DEF PageSound, PageAtStart
  <2>5. FormInv' BY <2>2, <2>3, <2>4 DEF FormInv
  <2>6. \A r \in Runs: run[r].mount # mount'
    <3> SUFFICES ASSUME NEW r \in Runs PROVE run[r].mount # mount + 1 BY <2>1
    <3>1. CASE Started(r) BY <1>1, <1>2, <3>1
    <3>2. CASE ~Started(r)
      <4>1. run[r].mount = 0 BY <3>2, RunNow DEF Started, FlightsOf
      <4> QED BY <1>1, <4>1
    <3> QED BY <3>1, <3>2
  <2> QED BY <1>1, <2>1, <2>5, <2>6, NobodyHere
<1>4. ASSUME Leave \/ History PROVE BridgeInv'
  <2>1. /\ view' \in {"away", "history"} /\ PageAtStart /\ pageLock' \in BOOLEAN
        /\ step' \in 0 .. 2 /\ (view' = "history" => step' = 0)
        /\ UNCHANGED <<fields, mount, requests, run, chain>>
    <3>1. CASE Leave BY <1>1, <3>1 DEF Leave
    <3>2. CASE History BY <1>1, <3>2 DEF History
    <3> QED BY <1>4, <3>1, <3>2
  <2>2. FormTypeOK' /\ FormSound' BY <1>1, <2>1 DEF FormTypeOK, FormSound, fields
  <2>3. PageTyped' BY <1>1, <2>1, <2>2 DEF PageTyped, PageAtStart
  <2>4. PageSound' BY <2>1 DEF PageSound, PageAtStart
  <2>5. FormInv' BY <2>2, <2>3, <2>4 DEF FormInv
  <2> QED BY <1>1, <2>1, <2>5, NobodyHere
<1> QED BY <1>3, <1>4

(* Whatever is chosen or typed on the form, and the configuration saved. *)
LEMMA FormIsFilled ==
  ASSUME BridgeInv, SaveConfig \/ Fill
  PROVE  BridgeInv'
<1>1. CASE SaveConfig
  <2>1. UNCHANGED <<page, run, chain>> BY <1>1 DEF SaveConfig
  <2> QED BY <2>1, PagesKept, RunsKept DEF BridgeInv
<1>2. CASE Fill
  <2>1. /\ step = 0 /\ FillIn
        /\ UNCHANGED <<view, mount, step, requests, request, transfering, failed, pageLock>>
        /\ UNCHANGED <<run, chain>>
    BY <1>2 DEF Fill, sending
  <2>2. FormTypeOK' /\ FormSound' BY <2>1, FilledInSoundly DEF BridgeInv, FormInv, PageTyped
  <2>3. PageTyped' BY <2>1, <2>2 DEF BridgeInv, FormInv, PageTyped
  <2>4. PageSound' BY <2>1 DEF BridgeInv, FormInv, PageSound
  <2>5. OneOnThePage' /\ OfThePage' /\ LockHeld'
    BY <2>1 DEF BridgeInv, PagesOfRuns, OneOnThePage, OfThePage, LockHeld, Started, Here, Again,
                ConfirmedAlready
  <2>6. RunsTyped' /\ RunsSound' /\ InOrder' /\ AgainAfterError' BY <2>1, RunsKept
  <2> QED BY <2>2, <2>3, <2>4, <2>5, <2>6 DEF BridgeInv, FormInv, PagesOfRuns
<1> QED BY <1>1, <1>2

(* On the first two steps every transfer of this form is over. *)
LEMMA AllOver ==
  ASSUME BridgeInv, step # 2 \/ failed
  PROVE  \A r \in Runs: Started(r) /\ Here(r) => run[r].pc = "over" /\ run[r].result = "error"
<1>1. \A r \in Runs: run[r].pc = "over" => run[r].result = "error" BY RunNow DEF ResultOf
<1> QED BY <1>1 DEF BridgeInv, PagesOfRuns, OneOnThePage

(* The first step of the form makes a new request of what is shown. *)
LEMMA RequestIsMade == ASSUME BridgeInv, Prepare PROVE BridgeInv'
<1>1. /\ view = "bridge" /\ step = 0 /\ Complete /\ requests' = requests + 1
      /\ request' = TheRequest /\ step' = 1 /\ transfering' = TRUE /\ pageLock' = TRUE
      /\ UNCHANGED <<fields, view, mount, failed, run, chain>>
  BY DEF Prepare
<1>2. FormTypeOK /\ FormSound /\ requests \in Nat /\ mount \in Nat /\ failed \in BOOLEAN
      /\ view \in {"away", "bridge", "history"} /\ (failed => step = 2)
  BY DEF BridgeInv, FormInv, PageTyped, PageSound
<1>3. /\ TheRequest = Confirmation /\ TheRequest # Nothing
      /\ TheRequest.asset \in Supported(TheRequest.direction)
  BY <1>1, <1>2, SentAsShown
<1>4. FormTypeOK' /\ FormSound' /\ Complete' /\ Confirmation' = Confirmation
  BY <1>1, <1>2 DEF FormTypeOK, FormSound, Complete, Confirmation, fields
<1>5. PageTyped'
  <2>1. requests' \in Nat /\ mount' \in Nat /\ step' \in 0 .. 2 /\ failed' \in BOOLEAN
    BY <1>1, <1>2
  <2> QED BY <1>1, <1>2, <1>4, <2>1 DEF PageTyped
<1>6. PageSound'
  <2>1. requests' # 0 /\ request' # Nothing /\ ~failed' /\ view' = "bridge" BY <1>1, <1>2, <1>3
  <2>2. request' = Confirmation' /\ request'.asset \in Supported(request'.direction)
    BY <1>1, <1>3, <1>4
  <2> QED BY <1>4, <2>1, <2>2 DEF PageSound
<1>7. RunsTyped' /\ RunsSound' /\ InOrder' /\ AgainAfterError' BY <1>1, RunsKept
<1>8. \A r \in Runs: Started(r)' /\ Here(r)' => run'[r].pc = "over"
  BY <1>1, AllOver DEF Started, Here
<1>9. OneOnThePage' BY <1>8 DEF OneOnThePage
<1>10. \A r \in Runs: run[r].request <= requests /\ run[r].request \in Nat
  BY RunNow DEF BridgeInv, PagesOfRuns, OfThePage, RunSet
<1>11. OfThePage'
  <2>1. \A r \in Runs: run'[r].request <= requests' /\ run'[r].request # requests'
    BY <1>1, <1>2, <1>10
  <2> QED BY <1>1, <2>1 DEF BridgeInv, PagesOfRuns, OfThePage, Started
<1>12. LockHeld' BY <1>1, <1>8 DEF LockHeld
<1> QED BY <1>4, <1>5, <1>6, <1>7, <1>9, <1>11, <1>12 DEF BridgeInv, FormInv, PagesOfRuns

(* Back to the form, by the button or after a failure. *)
LEMMA PageGoesBack == ASSUME BridgeInv, Back PROVE BridgeInv'
<1>1. /\ view = "bridge" /\ (step = 1 \/ failed) /\ step' = step - 1 /\ failed' = FALSE
      /\ UNCHANGED <<view, mount, request, requests, run, chain>>
      /\ IF step = 1 THEN Stops /\ FormRestored ELSE UNCHANGED <<transfering, pageLock, fields>>
  BY DEF Back, BackShown, FailedAfterBack
<1>2. /\ FormTypeOK /\ FormSound /\ requests \in Nat /\ mount \in Nat
      /\ view \in {"away", "bridge", "history"} /\ (failed => step = 2)
      /\ request # Nothing /\ requests # 0 /\ Complete /\ request = Confirmation
      /\ request.asset \in Supported(request.direction)
  BY <1>1 DEF BridgeInv, FormInv, PageTyped, PageSound
<1>3. step \in {1, 2} /\ step' \in {0, 1} /\ step' # 2 BY <1>1, <1>2
<1>4. to # Nothing BY <1>2 DEF Complete
<1>5. FormTypeOK' /\ FormSound'
  <2>1. CASE step = 1 BY <1>1, <1>2, <1>4, <2>1, RestoredSoundly
  <2>2. CASE step # 1 BY <1>1, <1>2, <2>2 DEF FormTypeOK, FormSound, fields
  <2> QED BY <2>1, <2>2
<1>6. PageTyped'
  <2>1. transfering' \in BOOLEAN /\ pageLock' \in BOOLEAN BY <1>1, PageStops
  <2>2. step' \in 0 .. 2 BY <1>3
  <2> QED BY <1>1, <1>2, <1>5, <2>1, <2>2 DEF PageTyped
<1>7. PageSound'
  <2>1. CASE step = 1
    <3>1. step' = 0 BY <1>1, <2>1
    <3> QED BY <1>1, <3>1 DEF PageSound
  <2>2. CASE step # 1
    <3>1. Complete' /\ Confirmation' = Confirmation
      BY <1>1, <1>2, <2>2 DEF Complete, Confirmation, fields
    <3> QED BY <1>1, <1>2, <3>1 DEF PageSound
  <2> QED BY <2>1, <2>2
<1>8. RunsTyped' /\ RunsSound' /\ InOrder' /\ AgainAfterError' BY <1>1, RunsKept
<1>9. \A r \in Runs: Started(r)' /\ Here(r)' => run'[r].pc = "over"
  <2>1. step # 2 \/ failed BY <1>1, <1>3
  <2> QED BY <1>1, <2>1, AllOver DEF Started, Here
<1>10. OneOnThePage' BY <1>9 DEF OneOnThePage
<1>11. OfThePage' BY <1>1, <1>2, <1>3 DEF BridgeInv, PagesOfRuns, OfThePage, Started
<1>12. LockHeld'
  <2>1. step' = 1 => ConfirmedAlready'
    <3> SUFFICES ASSUME step' = 1 PROVE ConfirmedAlready' OBVIOUS
    <3>1. step = 2 BY <1>1, <1>3
    <3>2. ConfirmedAlready BY <1>1, <3>1 DEF BridgeInv, PagesOfRuns, LockHeld
    <3> QED BY <1>1, <3>2 DEF ConfirmedAlready
  <2> QED BY <1>3, <1>9, <2>1 DEF LockHeld
<1> QED BY <1>5, <1>6, <1>7, <1>8, <1>10, <1>11, <1>12 DEF BridgeInv, FormInv, PagesOfRuns

(* The confirmation starts the next run, the latest of the page's. *)
LEMMA TransferIsConfirmed == ASSUME BridgeInv, NEW r \in Runs, Confirm(r) PROVE BridgeInv'
<1> DEFINE n == [NoRun EXCEPT !.pc = "load", !.mount = mount, !.request = requests,
                              !.evm = ByContract(request), !.rows = <<"pending">>]
<1>1. /\ view = "bridge" /\ step = 1 /\ request # Nothing /\ step' = 2
      /\ run[r].pc = "idle" /\ \A q \in Runs: q < r => run[q].pc # "idle"
      /\ run' = [run EXCEPT ![r] = n]
      /\ UNCHANGED <<fields, view, mount, requests, sending, pageLock, chain>>
  BY DEF Confirm
<1>2. UNCHANGED <<request, transfering, failed, tx, arrived>> BY <1>1 DEF sending, chain
<1>3. /\ mount \in Nat /\ requests \in Nat /\ requests # 0 /\ (failed => step = 2)
      /\ view \in {"away", "bridge", "history"}
  BY <1>1 DEF BridgeInv, FormInv, PageTyped, PageSound
<1>4. /\ n.pc = "load" /\ n.mount = mount /\ n.request = requests /\ n.rows = <<"pending">>
      /\ n.result = "none" /\ ~n.ticking /\ n.flights = 0 /\ ~n.overlap
  BY DEF NoRun
<1>5. n \in RunSet
  <2>1. ByContract(request) \in BOOLEAN BY DEF ByContract
  <2>2. 0 \in 0 .. MaxFlights BY ConstantsAssumption
  <2> QED BY <1>3, <2>1, <2>2, RowsWithoutOutcome DEF NoRun, RunSet
<1> HIDE DEF n
<1>6. run'[r] = n /\ \A s \in Runs \ {r}: run'[s] = run[s]
  BY <1>1 DEF BridgeInv, RunsTyped
<1>7. RunsTyped' BY <1>1, <1>2, <1>5 DEF BridgeInv, RunsTyped
<1>8. RunsSound'
  <2>1. RowsOf(n, r \in arrived') BY <1>4 DEF RowsOf, Before
  <2>2. tx[r] = "none" BY <1>1, RunNow DEF ResultOf
  <2>3. ResultOf(n, tx'[r]) BY <1>2, <1>4, <2>2 DEF ResultOf, Before
  <2>4. FlightsOf(n) BY <1>3, <1>4 DEF FlightsOf
  <2>5. RunSound(r)' BY <1>6, <2>1, <2>3, <2>4 DEF RunSound
  <2>6. \A s \in Runs \ {r}: RunSound(s)'
    BY <1>2, <1>6 DEF BridgeInv, RunsSound, RunSound
  <2> QED BY <2>5, <2>6 DEF RunsSound
<1>9. FormInv'
  <2>1. PageTyped' BY <1>1, <1>2, <1>3 DEF BridgeInv, FormInv, PageTyped, FormTypeOK, fields
  <2>2. FormSound' BY <1>1 DEF BridgeInv, FormInv, FormSound, fields
  <2>3. Complete' = Complete /\ Confirmation' = Confirmation
    BY <1>1 DEF Complete, Confirmation, fields
  <2>4. PageSound' BY <1>1, <1>2, <1>3, <2>3 DEF BridgeInv, FormInv, PageSound
  <2> QED BY <2>1, <2>2, <2>4 DEF FormInv
<1>10. r \in Nat /\ \A s \in Runs: s \in Nat BY DEF Runs
<1>11. \A s \in Runs: r < s => ~Started(s)
  BY <1>1 DEF BridgeInv, PagesOfRuns, InOrder, Started
<1>12. \A s \in Runs: Started(s)' <=> Started(s) \/ s = r BY <1>4, <1>6 DEF Started
<1>13. \A s \in Runs: Started(s) /\ Here(s) => run[s].pc = "over" /\ run[s].result = "error"
  BY <1>1, AllOver
<1>14. InOrder'
  <2> SUFFICES ASSUME NEW q \in Runs, NEW s \in Runs, q < s, Started(s)' PROVE Started(q)'
    BY DEF InOrder
  <2>1. CASE s = r BY <1>1, <1>12, <2>1 DEF Started
  <2>2. CASE s # r BY <1>12, <2>2 DEF BridgeInv, PagesOfRuns, InOrder
  <2> QED BY <2>1, <2>2
<1>15. AgainAfterError'
  <2> SUFFICES ASSUME NEW q \in Runs, NEW s \in Runs, q < s, Started(s)',
                      run'[q].request = run'[s].request
               PROVE  run'[q].result = "error"
    BY DEF AgainAfterError
  <2>1. CASE s = r
    <3>1. q # r BY <1>10, <2>1
    <3>2. Started(q) /\ run[q].request = requests BY <1>1, <1>4, <1>6, <2>1, <3>1 DEF Started
    <3>3. run[q].mount = mount BY <1>1, <3>2 DEF BridgeInv, PagesOfRuns, OfThePage
    <3>4. Here(q) BY <1>1, <3>3 DEF Here
    <3> QED BY <1>6, <1>13, <3>1, <3>2, <3>4
  <2>2. CASE s # r
    <3>1. Started(s) BY <1>12, <2>2
    <3>2. q # r BY <1>11, <3>1
    <3> QED BY <1>6, <2>2, <3>1, <3>2 DEF BridgeInv, PagesOfRuns, AgainAfterError
  <2> QED BY <2>1, <2>2
<1>16. OneOnThePage'
  <2> SUFFICES ASSUME NEW s \in Runs, Started(s)', Here(s)', run'[s].pc # "over"
               PROVE  /\ step' = 2 /\ ~failed' /\ run'[s].request = requests'
                      /\ \A q \in Runs: s < q => ~Started(q)'
    BY DEF OneOnThePage
  <2>1. s = r
    <3> SUFFICES ASSUME s # r PROVE FALSE OBVIOUS
    <3>1. Started(s) /\ Here(s) /\ run[s].pc # "over" BY <1>1, <1>6, <1>12 DEF Here
    <3> QED BY <1>13, <3>1
  <2>2. ~failed BY <1>1, <1>3
  <2>3. \A q \in Runs: r < q => ~Started(q)' BY <1>10, <1>11, <1>12
  <2> QED BY <1>1, <1>2, <1>4, <1>6, <2>1, <2>2, <2>3
<1>17. OfThePage'
  <2>1. \A s \in Runs: run'[s].request <= requests'
    BY <1>1, <1>3, <1>4, <1>6 DEF BridgeInv, PagesOfRuns, OfThePage
  <2>2. \A s \in Runs: run'[s].request = requests' => run'[s].mount = mount'
    BY <1>1, <1>4, <1>6 DEF BridgeInv, PagesOfRuns, OfThePage
  <2>3. \A s \in Runs: Started(s)' => run'[s].mount <= mount'
    BY <1>1, <1>3, <1>4, <1>6, <1>12 DEF BridgeInv, PagesOfRuns, OfThePage
  <2> QED BY <2>1, <2>2, <2>3 DEF OfThePage
<1>18. LockHeld'
  <2>1. ConfirmedAlready' BY <1>1, <1>4, <1>6 DEF ConfirmedAlready
  <2>2. ASSUME NEW s \in Runs, Started(s)', Here(s)', run'[s].pc # "over"
        PROVE  pageLock' \/ Again(s)'
    <3>1. s = r
      <4> SUFFICES ASSUME s # r PROVE FALSE OBVIOUS
      <4>1. Started(s) /\ Here(s) /\ run[s].pc # "over" BY <1>1, <1>6, <1>12, <2>2 DEF Here
      <4> QED BY <1>13, <4>1
    <3>2. CASE pageLock BY <1>1, <3>2
    <3>3. CASE ~pageLock
      <4>1. PICK q \in Runs: run[q].request = requests
        BY <1>1, <3>3 DEF BridgeInv, PagesOfRuns, LockHeld, ConfirmedAlready
      <4>2. Started(q) BY <1>3, <4>1, RunNow DEF FlightsOf, Started
      <4>3. q # r BY <1>1, <4>2 DEF Started
      <4>4. q < r BY <1>10, <1>11, <4>2, <4>3
      <4>5. run'[q].request = run'[r].request BY <1>4, <1>6, <4>1, <4>3
      <4> QED BY <3>1, <4>4, <4>5 DEF Again
    <3> QED BY <3>2, <3>3
  <2> QED BY <1>1, <2>1, <2>2 DEF LockHeld
<1> QED BY <1>7, <1>8, <1>9, <1>14, <1>15, <1>16, <1>17, <1>18 DEF BridgeInv, PagesOfRuns

-----------------------------------------------------------------------------
(* The theorems *)

(* The invariant holds at the start. *)
LEMMA BridgeStarts == Init => BridgeInv
<1> SUFFICES ASSUME Init PROVE BridgeInv OBVIOUS
<1>0. FormInit BY DEF Init
<1>1. FormTypeOK /\ FormSound BY <1>0, NewFormIsSound
<1>2. PageTyped
  <2>1. view = "away" /\ step = 0 /\ mount = 0 /\ requests = 0 BY DEF Init
  <2>2. transfering = FALSE /\ failed = FALSE /\ pageLock = FALSE BY DEF Init
  <2>3. view \in {"away", "bridge", "history"} /\ step \in 0 .. 2 /\ mount \in Nat /\ requests \in Nat
    BY <2>1
  <2>4. transfering \in BOOLEAN /\ failed \in BOOLEAN /\ pageLock \in BOOLEAN BY <2>2
  <2> QED BY <1>1, <2>3, <2>4 DEF PageTyped
<1>3. PageSound BY DEF Init, PageSound
<1>4. NoRun \in RunSet
  <2>1. 0 \in 0 .. MaxFlights BY ConstantsAssumption
  <2>2. <<>> \in Seq(Rows) OBVIOUS
  <2> QED BY <2>1, <2>2 DEF NoRun, RunSet
<1>5. RunsTyped BY <1>4 DEF Init, RunsTyped
<1>6. \A r \in Runs: run[r] = NoRun /\ tx[r] = "none" BY DEF Init
<1>7. /\ NoRun.pc = "idle" /\ NoRun.rows = <<>> /\ NoRun.result = "none" /\ NoRun.request = 0
      /\ NoRun.mount = 0 /\ ~NoRun.ticking /\ NoRun.flights = 0 /\ ~NoRun.overlap
  BY DEF NoRun
<1>8. RunsSound
  <2> SUFFICES ASSUME NEW r \in Runs PROVE RunSound(r) BY DEF RunsSound
  <2>1. RowsOf(NoRun, r \in arrived) BY <1>7 DEF RowsOf, Before
  <2>2. ResultOf(NoRun, "none") BY <1>7 DEF ResultOf, Before
  <2>3. FlightsOf(NoRun) BY <1>7 DEF FlightsOf
  <2> QED BY <1>6, <2>1, <2>2, <2>3 DEF RunSound
<1>9. \A r \in Runs: ~Started(r) /\ run[r].request = 0 BY <1>6, <1>7 DEF Started
<1>10. InOrder /\ AgainAfterError /\ OneOnThePage BY <1>9 DEF InOrder, AgainAfterError, OneOnThePage
<1>11. OfThePage /\ LockHeld BY <1>9 DEF Init, OfThePage, LockHeld
<1> QED BY <1>1, <1>2, <1>3, <1>5, <1>8, <1>10, <1>11 DEF BridgeInv, FormInv, PagesOfRuns

(* Every step keeps it. *)
LEMMA BridgeStep == BridgeInv /\ [Next]_vars => BridgeInv'
<1> SUFFICES ASSUME BridgeInv, [Next]_vars PROVE BridgeInv' OBVIOUS
<1>1. CASE UNCHANGED vars
  <2>1. UNCHANGED <<page, run, chain>> BY <1>1 DEF vars, page, sending, chain
  <2> QED BY <2>1, PagesKept, RunsKept DEF BridgeInv
<1>2. CASE SaveConfig \/ Fill BY <1>2, FormIsFilled
<1>3. CASE Open \/ Leave \/ History \/ CloseHistory BY <1>3, PageComesAndGoes
<1>4. CASE Prepare BY <1>4, RequestIsMade
<1>5. CASE Back BY <1>5, PageGoesBack
<1>6. ASSUME NEW r \in Runs, Confirm(r) PROVE BridgeInv' BY <1>6, TransferIsConfirmed
<1>7. ASSUME NEW r \in Runs, Sending(r) PROVE BridgeInv'
  <2>1. CASE \/ PrepareTransaction(r) \/ Sign(r) \/ TransferTaken(r) \/ CallTaken(r) \/ Refused(r)
             \/ Poll(r) \/ RefreshBalances(r)
    BY <2>1, RunsOnTheWay
  <2>2. CASE Deposited(r) \/ NotDeposited(r) \/ StartTimer(r) BY <2>2, RunsTold
  <2> QED BY <1>7, <2>1, <2>2 DEF Sending
<1>8. ASSUME NEW r \in Runs, Tick(r) \/ Answer(r) PROVE BridgeInv'
  <2>1. Tick(r) \/ Found(r) \/ NotFound(r) \/ GivesUp(r) BY <1>8 DEF Answer
  <2> QED BY <2>1, RunsFollow
<1>9. ASSUME NEW r \in Runs, Settle(r) PROVE BridgeInv' BY <1>9, SettlesInBlock
<1>10. ASSUME NEW r \in Runs, Arrive(r) PROVE BridgeInv' BY <1>10, ArrivesThere
<1> QED BY <1>1, <1>2, <1>3, <1>4, <1>5, <1>6, <1>7, <1>8, <1>9, <1>10 DEF Next

(* The invariant holds in every behaviour. *)
LEMMA BridgeAlways == Spec => []BridgeInv
BY BridgeStarts, BridgeStep, PTL DEF Spec

(* What the user confirms, and what is sent then, is what the form shows: its two chains,
   an asset that goes from the one to the other, and the address. *)
THEOREM ConfirmsTheShown == Spec => []RequestIsAsShown
<1>1. BridgeInv => RequestIsAsShown
  BY DEF BridgeInv, FormInv, PageSound, RequestIsAsShown
<1> QED BY <1>1, BridgeAlways, PTL

(* However often a form is opened, left and confirmed, a second transaction for a request
   is only sent when the first has failed or its answer got lost. *)
THEOREM PaysOnce == Spec => []OnePaymentPerRequest
<1>1. BridgeInv => OnePaymentPerRequest
  <2> SUFFICES ASSUME BridgeInv, NEW q \in Runs, NEW r \in Runs, q < r,
                      run[q].request = run[r].request, {tx[q], tx[r]} \subseteq {"pool", "done"}
               PROVE  run[q].lost
    BY DEF OnePaymentPerRequest
  <2>1. Started(r) BY RunNow DEF Started, ResultOf
  <2>2. run[q].result = "error" BY <2>1 DEF BridgeInv, PagesOfRuns, AgainAfterError
  <2> QED BY <2>2, RunNow DEF ResultOf
<1> QED BY <1>1, BridgeAlways, PTL

(* The page is locked while the first transfer of its request has no outcome. *)
THEOREM LocksThePage == Spec => []LockedWhileUnfinished
<1>1. BridgeInv => LockedWhileUnfinished
  <2> SUFFICES ASSUME BridgeInv, NEW r \in Runs, Here(r), Unfinished(r)
               PROVE  pageLock \/ Again(r)
    BY DEF LockedWhileUnfinished
  <2>1. Started(r) /\ run[r].pc # "over" BY DEF Unfinished, Started
  <2>2. run[r].rows \in Seq(Rows \ Outcomes) BY DEF Unfinished
  <2>3. NoOutcome(run[r].rows) BY <2>2 DEF NoOutcome
  <2> QED BY <2>1, <2>3 DEF BridgeInv, PagesOfRuns, LockHeld
<1> QED BY <1>1, BridgeAlways, PTL

(* The rows a run shows are true of its transaction and of the other chain, and at most
   one of them is an outcome unless two requests were under way at a time. *)
THEOREM TellsOfTheBridge == Spec => []BridgeTellsTheTruth
<1>1. BridgeInv => BridgeTellsTheTruth
  <2> SUFFICES ASSUME BridgeInv, NEW r \in Runs
               PROVE  /\ \/ run[r].overlap
                         \/ Cardinality({i \in DOMAIN run[r].rows : run[r].rows[i] \in Outcomes}) <= 1
                      /\ Shows(r, "deposit") => tx[r] = "done" \/ run[r].evm \/ run[r].result = "timeout"
                      /\ Shows(r, "failed")  => tx[r] \notin {"pool", "done"} \/ run[r].lost
                      /\ Shows(r, "completed") => r \in arrived
    BY DEF BridgeTellsTheTruth
  <2> DEFINE x == run[r]
             outcomes == {i \in DOMAIN x.rows : x.rows[i] \in Outcomes}
  <2>1. x \in RunSet /\ RowsOf(x, r \in arrived) /\ ResultOf(x, tx[r]) /\ FlightsOf(x) BY RunNow
  <2>2. ASSUME outcomes \subseteq {2} \/ outcomes \subseteq {3} PROVE Cardinality(outcomes) <= 1
    <3>1. outcomes = {} \/ outcomes = {2} \/ outcomes = {3} BY <2>2
    <3> HIDE DEF outcomes
    <3>2. CASE outcomes = {}
      <4>1. Cardinality({}) = 0 BY FS_EmptySet
      <4> QED BY <3>2, <4>1
    <3>3. CASE outcomes = {2}
      <4>1. Cardinality({2}) = 1 BY FS_Singleton
      <4> QED BY <3>3, <4>1
    <3>4. CASE outcomes = {3}
      <4>1. Cardinality({3}) = 1 BY FS_Singleton
      <4> QED BY <3>4, <4>1
    <3> QED BY <3>1, <3>2, <3>3, <3>4
  <2>3. CASE x.rows \in {<<>>, <<"pending">>}
    <3>1. \A i \in DOMAIN x.rows: x.rows[i] = "pending" BY <2>3
    <3>2. outcomes \subseteq {2} BY <3>1 DEF Outcomes
    <3> HIDE DEF x, outcomes
    <3> QED BY <2>2, <3>1, <3>2 DEF Shows, x, outcomes
  <2>4. CASE x.rows = <<"pending", "failed">> /\ x.pc = "over"
    <3>1. \A i \in DOMAIN x.rows: (i = 1 /\ x.rows[i] = "pending") \/ (i = 2 /\ x.rows[i] = "failed")
      <4>1. DOMAIN x.rows = 1 .. 2 BY <2>4
      <4>2. \A i \in 1 .. 2: i = 1 \/ i = 2 OBVIOUS
      <4> QED BY <2>4, <4>1, <4>2
    <3>2. outcomes \subseteq {2} BY <3>1 DEF Outcomes
    <3>3. x.lost \/ tx[r] \in {"none", "failed"} BY <2>1, <2>4 DEF ResultOf
    <3>4. ~Shows(r, "deposit") /\ ~Shows(r, "completed") BY <3>1 DEF Shows
    <3>5. Cardinality(outcomes) <= 1 BY <2>2, <3>2
    <3> QED BY <3>3, <3>4, <3>5
  <2>5. CASE x.rows = <<"pending", "deposit">> /\ x.pc = "wait"
    <3>1. \A i \in DOMAIN x.rows: (i = 1 /\ x.rows[i] = "pending") \/ (i = 2 /\ x.rows[i] = "deposit")
      <4>1. DOMAIN x.rows = 1 .. 2 BY <2>5
      <4>2. \A i \in 1 .. 2: i = 1 \/ i = 2 OBVIOUS
      <4> QED BY <2>5, <4>1, <4>2
    <3>2. outcomes \subseteq {2} BY <3>1 DEF Outcomes
    <3>3. x.result = "timeout" \/ x.evm \/ tx[r] = "done" BY <2>1, <2>5 DEF ResultOf
    <3>4. ~Shows(r, "failed") /\ ~Shows(r, "completed") BY <3>1 DEF Shows
    <3>5. Cardinality(outcomes) <= 1 BY <2>2, <3>2
    <3> QED BY <3>3, <3>4, <3>5
  <2>6. CASE x.pc = "follow"
    <3>1. /\ Len(x.rows) >= 2 /\ x.rows[1] = "pending" /\ x.rows[2] = "deposit"
          /\ \A i \in 3 .. Len(x.rows): x.rows[i] \in {"initiated", "completed"}
                                        /\ (x.rows[i] = "completed" => r \in arrived)
          /\ ~x.overlap => Len(x.rows) = 2 \/ (Len(x.rows) = 3 /\ ~x.ticking /\ x.flights = 0)
      BY <2>1, <2>6, RowsInFollow
    <3>2. DOMAIN x.rows = 1 .. Len(x.rows) /\ Len(x.rows) \in Nat BY <2>1 DEF RunSet
    <3>3. \A i \in DOMAIN x.rows: i = 1 \/ i = 2 \/ i \in 3 .. Len(x.rows) BY <3>2
    <3>4. x.result = "timeout" \/ x.evm \/ tx[r] = "done" BY <2>1, <2>6 DEF ResultOf
    <3>5. ~Shows(r, "failed") BY <3>1, <3>3 DEF Shows
    <3>6. Shows(r, "completed") => r \in arrived BY <3>1, <3>3 DEF Shows
    <3>7. ~x.overlap => outcomes \subseteq {3}
      <4> SUFFICES ASSUME ~x.overlap, NEW i \in outcomes PROVE i = 3 OBVIOUS
      <4>1. x.rows[i] # "pending" /\ x.rows[i] # "deposit" /\ i \in DOMAIN x.rows BY DEF Outcomes
      <4>2. i \in 3 .. Len(x.rows) BY <3>1, <3>3, <4>1
      <4> QED BY <3>1, <3>2, <4>2
    <3>8. ~x.overlap => Cardinality(outcomes) <= 1 BY <2>2, <3>7
    <3> QED BY <3>4, <3>5, <3>6, <3>8
  <2>7. \/ x.rows \in {<<>>, <<"pending">>}
        \/ x.rows = <<"pending", "failed">> /\ x.pc = "over"
        \/ x.rows = <<"pending", "deposit">> /\ x.pc = "wait"
        \/ x.pc = "follow"
    BY <2>1 DEF RowsOf, RunSet, Before
  <2> QED BY <2>3, <2>4, <2>5, <2>6, <2>7
<1> QED BY <1>1, BridgeAlways, PTL

=============================================================================
