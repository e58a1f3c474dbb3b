-------------------------- MODULE WalletRecordsProofs --------------------------
(***************************************************************************)
(* Proofs about the wallet that is created and about the records kept of a *)
(* wallet, for any wallets, handlers, runs, chains, items and kinds of     *)
(* record.  The two specifications share nothing; each has its part.       *)
(*                                                                         *)
(* TransactionSync: Inv is inductive.  TypeOK and OwnRecords need          *)
(* Answered: a pipeline that is past the network holds an answer asked for *)
(* the wallet of its run.                                                  *)
(*                                                                         *)
(* LedgerCreation: TableInv is inductive for the fields of a Ledger,       *)
(* PagesInv for the pages that create and restore a wallet.                *)
(***************************************************************************)
EXTENDS TransactionSync, LedgerCreation, FiniteSetTheorems, TLAPS

(* TransactionSync. *)

\* A pipeline only moves in a run that has captured a session, and what it is
\* about to save was asked for that wallet.
Answered ==
  \A r \in Runs, k \in Kinds :
    /\ pc[r][k] # "idle" => owner[r] \in Wallets
    /\ pc[r][k] \in {"remove", "dedupe", "insert", "attributes", "saved"} =>
         fetched[r][k].address = owner[r]

Inv == TypeOK /\ Answered

\* A pipeline only ever goes on with a list of items.
LEMMA ListsAreItems ==
  ASSUME NEW k, NEW outcome, NEW list \in Lists(k, outcome)
  PROVE  list \subseteq Items
BY DEF Lists, Delegations, Rewards, NftMessages

\* The queries of insertCommonTransactionRecords only reach the records of their
\* own wallet and kind.
LEMMA DuplicatesAreRecords ==
  ASSUME NEW w, NEW k, NEW list, NEW docs \in Duplicates(w, k, list)
  PROVE  docs \subseteq Records(w, k)
BY DEF Duplicates

\* What a pipeline inserts are documents, of its own wallet and kind.
LEMMA NewRecordsAreDocuments ==
  ASSUME Inv, NEW r \in Runs, NEW k \in Kinds, pc[r][k] = "insert"
  PROVE  NewRecords(r, k) = OwnDocuments(r, k)
<1>1. owner[r] \in Wallets /\ fetched[r][k].address = owner[r]
  BY DEF Inv, Answered
<1>2. fetched[r][k].items \subseteq Items
  BY DEF Inv, TypeOK, Answer
<1> QED
  BY <1>1, <1>2 DEF NewRecords, NewRecord, OwnDocuments, Document

(* The invariant holds at the start. *)
LEMMA InitInv == Init => Inv
<1> SUFFICES ASSUME Init PROVE Inv
  OBVIOUS
<1>1. TypeOK
  BY ConstantsAssumption DEF Init, TypeOK, Answer, NoAnswer, Outcomes, Steps
<1>2. Answered
  BY DEF Init, Answered
<1> QED
  BY <1>1, <1>2 DEF Inv

(* Every step keeps it. *)
LEMMA NextInv == Inv /\ [Next]_vars => Inv'
<1> SUFFICES ASSUME Inv, [Next]_vars PROVE Inv'
  OBVIOUS
<1> USE DEF Inv, TypeOK
<1>1. ASSUME NEW w \in Wallets, SwitchWallet(w) PROVE Inv'
  BY <1>1 DEF SwitchWallet, Answered
<1>2. ASSUME NEW r \in Runs, NEW kinds, StartRun(r, kinds) PROVE Inv'
  BY <1>2 DEF StartRun, Answered, Steps
<1>3. ASSUME NEW r \in Runs, SettleRun(r) PROVE Inv'
  <2>1. NoAnswer \in Answer
    BY DEF NoAnswer, Answer, Outcomes
  <2> QED
    BY <1>3, <2>1 DEF SettleRun, Answered, Steps
<1>4. ASSUME NEW r \in Runs, NEW k \in Kinds, FetchAnswered(r, k) PROVE Inv'
  <2>1. PICK outcome \in Outcomes : \E list \in Lists(k, outcome) :
          fetched' = [fetched EXCEPT ![r][k] =
            [address |-> owner[r], items |-> list, outcome |-> outcome]]
    BY <1>4 DEF FetchAnswered
  <2>2. PICK list \in Lists(k, outcome) :
          fetched' = [fetched EXCEPT ![r][k] =
            [address |-> owner[r], items |-> list, outcome |-> outcome]]
    BY <2>1
  <2>3. [address |-> owner[r], items |-> list, outcome |-> outcome] \in Answer
    BY <2>2, ListsAreItems DEF Answer
  <2>4. fetched' \in [Runs -> [Kinds -> Answer]]
    BY <2>2, <2>3
  <2>5. pc' \in [Runs -> [Kinds -> Steps]]
    BY <1>4 DEF FetchAnswered, Steps
  <2>6. TypeOK'
    BY <1>4, <2>4, <2>5 DEF FetchAnswered
  <2>7. Answered'
    BY <1>4, <2>2 DEF FetchAnswered, Answered
  <2> QED
    BY <2>6, <2>7
<1>5. ASSUME NEW r \in Runs, NEW k \in Kinds, FetchFailed(r, k) PROVE Inv'
  BY <1>5 DEF FetchFailed, Answered, Steps
<1>6. ASSUME NEW r \in Runs, NEW k \in Kinds, RemovePrevious(r, k) PROVE Inv'
  <2>1. txs' \in SUBSET Document
    BY <1>6 DEF RemovePrevious
  <2>2. alone' \in [Runs -> [Kinds -> BOOLEAN]]
    BY <1>6 DEF RemovePrevious, Disturb
  <2>3. pc' \in [Runs -> [Kinds -> Steps]]
    BY <1>6 DEF RemovePrevious, Steps
  <2>4. owner[r] \in Wallets
    BY <1>6 DEF RemovePrevious, Answered
  <2>5. lastSaved' \in [Wallets -> [Kinds -> SUBSET Items]]
    BY <1>6, <2>4 DEF RemovePrevious
  <2>6. Answered'
    BY <1>6 DEF RemovePrevious, Answered
  <2> QED
    BY <1>6, <2>1, <2>2, <2>3, <2>5, <2>6 DEF RemovePrevious
<1>7. ASSUME NEW r \in Runs, NEW k \in Kinds, RemoveSameHash(r, k) PROVE Inv'
  <2>1. txs' \in SUBSET Document
    BY <1>7 DEF RemoveSameHash
  <2>2. alone' \in [Runs -> [Kinds -> BOOLEAN]]
    BY <1>7 DEF RemoveSameHash, Disturb
  <2>3. pc' \in [Runs -> [Kinds -> Steps]]
    BY <1>7 DEF RemoveSameHash, Steps
  <2>4. Answered'
    BY <1>7 DEF RemoveSameHash, Answered
  <2> QED
    BY <1>7, <2>1, <2>2, <2>3, <2>4 DEF RemoveSameHash
<1>8. ASSUME NEW r \in Runs, NEW k \in Kinds, InsertRecords(r, k) PROVE Inv'
  <2>1. NewRecords(r, k) \subseteq Document
    BY <1>8, NewRecordsAreDocuments DEF InsertRecords, OwnDocuments
  <2>2. txs' \in SUBSET Document
    BY <1>8, <2>1 DEF InsertRecords
  <2>3. alone' \in [Runs -> [Kinds -> BOOLEAN]]
    BY <1>8 DEF InsertRecords, Disturb
  <2>4. pc' \in [Runs -> [Kinds -> Steps]]
    BY <1>8 DEF InsertRecords, Steps
  <2>5. fetched[r][k].items \in SUBSET Items
    BY DEF Answer
  <2>6. lastSaved' \in [Wallets -> [Kinds -> SUBSET Items]]
    BY <1>8, <2>5 DEF InsertRecords
  <2>7. Answered'
    BY <1>8 DEF InsertRecords, Answered
  <2> QED
    BY <1>8, <2>2, <2>3, <2>4, <2>6, <2>7 DEF InsertRecords
<1>9. ASSUME NEW r \in Runs, NEW k \in Kinds, UpdateCommonAttributes(r, k)
      PROVE  Inv'
  <2>1. fetched[r][k].items \in SUBSET Items
    BY DEF Answer
  <2>2. totals' \in [Wallets -> [Kinds -> SUBSET Items]]
    BY <1>9, <2>1 DEF UpdateCommonAttributes
  <2>3. alone' \in [Runs -> [Kinds -> BOOLEAN]]
    BY <1>9 DEF UpdateCommonAttributes, Disturb
  <2>4. pc' \in [Runs -> [Kinds -> Steps]]
    BY <1>9 DEF UpdateCommonAttributes, Steps
  <2>5. Answered'
    BY <1>9 DEF UpdateCommonAttributes, Answered
  <2> QED
    BY <1>9, <2>2, <2>3, <2>4, <2>5 DEF UpdateCommonAttributes
<1>10. ASSUME Crash PROVE Inv'
  <2>1. NoAnswer \in Answer
    BY DEF NoAnswer, Answer, Outcomes
  <2>2. lastSaved' \in [Wallets -> [Kinds -> SUBSET Items]]
    BY <1>10 DEF Crash
  <2>3. TypeOK'
    BY <1>10, <2>1, <2>2, ConstantsAssumption DEF Crash, Steps
  <2>4. Answered'
    BY <1>10 DEF Crash, Answered
  <2> QED
    BY <2>3, <2>4
<1>11. ASSUME UNCHANGED vars PROVE Inv'
  BY <1>11 DEF vars, Answered
<1> QED
  BY <1>1, <1>2, <1>3, <1>4, <1>5, <1>6, <1>7, <1>8, <1>9, <1>10, <1>11
  DEF Next, RunStep

\* Every variable keeps its type.
THEOREM TypeCorrect == Spec => []TypeOK
<1>1. Inv => TypeOK
  BY DEF Inv
<1> QED
  BY <1>1, InitInv, NextInv, PTL DEF Spec

-----------------------------------------------------------------------------
(* What a write of a pipeline leaves alone *)

Writes(r, k) ==
  RemovePrevious(r, k) \/ RemoveSameHash(r, k) \/ InsertRecords(r, k)

\* A pipeline only changes the records of its own wallet and kind.
LEMMA OthersKeepRecords ==
  ASSUME Inv, NEW r \in Runs, NEW k \in Kinds, Writes(r, k),
         NEW w \in Wallets, NEW j \in Kinds, w # owner[r] \/ j # k
  PROVE  Records(w, j)' = Records(w, j)
<1>1. CASE RemovePrevious(r, k)
  BY <1>1 DEF RemovePrevious, Previous, Records
<1>2. CASE RemoveSameHash(r, k)
  BY <1>2, DuplicatesAreRecords DEF RemoveSameHash, Records
<1>3. CASE InsertRecords(r, k)
  BY <1>3, NewRecordsAreDocuments DEF InsertRecords, OwnDocuments, Records
<1> QED
  BY <1>1, <1>2, <1>3 DEF Writes

\* Nor does it start, end or finish a save of another wallet or kind.
LEMMA OthersKeepSaves ==
  ASSUME Inv, NEW r \in Runs, NEW k \in Kinds, Writes(r, k),
         NEW w \in Wallets, NEW j \in Kinds, w # owner[r] \/ j # k
  PROVE  Saving(w, j)' = Saving(w, j) /\ lastSaved'[w][j] = lastSaved[w][j]
<1> USE DEF Inv, TypeOK, Saving
<1>1. CASE RemovePrevious(r, k)
  <2>1. owner' = owner
    BY <1>1 DEF RemovePrevious
  <2>2. \A s \in Runs : owner[s] = w => pc'[s][j] = pc[s][j]
    BY <1>1 DEF RemovePrevious
  <2>3. lastSaved'[w][j] = lastSaved[w][j]
    BY <1>1 DEF RemovePrevious
  <2> QED
    BY <2>1, <2>2, <2>3
<1>2. CASE RemoveSameHash(r, k)
  <2>1. owner' = owner /\ lastSaved' = lastSaved
    BY <1>2 DEF RemoveSameHash
  <2>2. \A s \in Runs : owner[s] = w => pc'[s][j] = pc[s][j]
    BY <1>2 DEF RemoveSameHash
  <2> QED
    BY <2>1, <2>2
<1>3. CASE InsertRecords(r, k)
  <2>1. owner' = owner
    BY <1>3 DEF InsertRecords
  <2>2. \A s \in Runs : owner[s] = w => pc'[s][j] = pc[s][j]
    BY <1>3 DEF InsertRecords
  <2>3. lastSaved'[w][j] = lastSaved[w][j]
    BY <1>3 DEF InsertRecords
  <2> QED
    BY <2>1, <2>2, <2>3
<1> QED
  BY <1>1, <1>2, <1>3 DEF Writes

\* The steps that neither write records nor kill the application.
Quiet ==
  \/ \E v \in Wallets : SwitchWallet(v)
  \/ \E r \in Runs, kinds \in SUBSET Kinds : StartRun(r, kinds)
  \/ \E r \in Runs : SettleRun(r)
  \/ \E r \in Runs, k \in Kinds : \/ FetchAnswered(r, k)
                                  \/ FetchFailed(r, k)
                                  \/ UpdateCommonAttributes(r, k)
  \/ UNCHANGED vars

(* A step writes records of one run, crashes, or leaves the records alone. *)
LEMMA StepCases ==
  ASSUME [Next]_vars
  PROVE  Quiet \/ Crash \/ \E r \in Runs, k \in Kinds : Writes(r, k)
BY DEF Next, RunStep, Quiet, Writes

\* They leave the records and what was saved last alone, and no run enters or
\* leaves a save.
LEMMA QuietSteps ==
  ASSUME Inv, Quiet, NEW w \in Wallets, NEW j \in Kinds
  PROVE  txs' = txs /\ lastSaved' = lastSaved /\ Saving(w, j)' = Saving(w, j)
<1> USE DEF Inv, TypeOK, Saving
<1>1. ASSUME NEW v \in Wallets, SwitchWallet(v)
      PROVE  txs' = txs /\ lastSaved' = lastSaved /\ Saving(w, j)' = Saving(w, j)
  BY <1>1 DEF SwitchWallet
<1>2. ASSUME NEW r \in Runs, NEW kinds \in SUBSET Kinds, StartRun(r, kinds)
      PROVE  txs' = txs /\ lastSaved' = lastSaved /\ Saving(w, j)' = Saving(w, j)
  <2>1. NoWallet \notin Wallets
    BY ConstantsAssumption
  <2> QED
    BY <1>2, <2>1 DEF StartRun
<1>3. ASSUME NEW r \in Runs, SettleRun(r)
      PROVE  txs' = txs /\ lastSaved' = lastSaved /\ Saving(w, j)' = Saving(w, j)
  BY <1>3 DEF SettleRun
<1>4. ASSUME NEW r \in Runs, NEW k \in Kinds, FetchAnswered(r, k)
      PROVE  txs' = txs /\ lastSaved' = lastSaved /\ Saving(w, j)' = Saving(w, j)
  BY <1>4 DEF FetchAnswered
<1>5. ASSUME NEW r \in Runs, NEW k \in Kinds, FetchFailed(r, k)
      PROVE  txs' = txs /\ lastSaved' = lastSaved /\ Saving(w, j)' = Saving(w, j)
  BY <1>5 DEF FetchFailed
<1>6. ASSUME NEW r \in Runs, NEW k \in Kinds, UpdateCommonAttributes(r, k)
      PROVE  txs' = txs /\ lastSaved' = lastSaved /\ Saving(w, j)' = Saving(w, j)
  BY <1>6 DEF UpdateCommonAttributes
<1>7. ASSUME UNCHANGED vars
      PROVE  txs' = txs /\ lastSaved' = lastSaved /\ Saving(w, j)' = Saving(w, j)
  BY <1>7 DEF vars
<1> QED
  BY <1>1, <1>2, <1>3, <1>4, <1>5, <1>6, <1>7 DEF Quiet

-----------------------------------------------------------------------------
(* Records are filed under the wallet they were asked for *)

(* No step files a record under another wallet. *)
LEMMA NextOwnRecords == Inv /\ OwnRecords /\ [Next]_vars => OwnRecords'
<1> SUFFICES ASSUME Inv, OwnRecords, [Next]_vars PROVE OwnRecords'
  OBVIOUS
<1>1. CASE txs' \subseteq txs
  BY <1>1 DEF OwnRecords
<1>2. ASSUME NEW r \in Runs, NEW k \in Kinds, InsertRecords(r, k)
      PROVE  OwnRecords'
  BY <1>2, NewRecordsAreDocuments DEF InsertRecords, OwnDocuments, OwnRecords
<1>3. txs' \subseteq txs \/ \E r \in Runs, k \in Kinds : InsertRecords(r, k)
  BY DEF Next, RunStep, SwitchWallet, StartRun, SettleRun, FetchAnswered,
         FetchFailed, RemovePrevious, RemoveSameHash, UpdateCommonAttributes,
         Crash, vars
<1> QED
  BY <1>1, <1>2, <1>3

\* No record is ever filed under another wallet than the one whose address it
\* was asked for.
THEOREM RecordsOfTheirWallet == Spec => []OwnRecords
<1>1. Init => OwnRecords
  BY DEF Init, OwnRecords
<1> QED
  BY <1>1, InitInv, NextInv, NextOwnRecords, PTL DEF Spec

-----------------------------------------------------------------------------
(* The list saved last survives the runs that overlap it *)

(* No step loses what was saved last, but for a run on its way to save. *)
LEMMA NextLastSaveSurvives ==
  Inv /\ LastSaveSurvives /\ [Next]_vars => LastSaveSurvives'
<1> SUFFICES ASSUME Inv, LastSaveSurvives, [Next]_vars,
                    NEW w \in Wallets, NEW j \in Kinds, Saving(w, j)' = {}
             PROVE  lastSaved'[w][j] \subseteq ItemsOf(Records(w, j)')
  BY DEF LastSaveSurvives, ItemsOf, Records, Saving
<1>1. CASE Quiet
  BY <1>1, QuietSteps DEF LastSaveSurvives, ItemsOf, Records
<1>2. ASSUME NEW r \in Runs, NEW k \in Kinds, Writes(r, k)
      PROVE  lastSaved'[w][j] \subseteq ItemsOf(Records(w, j)')
  <2>1. CASE w # owner[r] \/ j # k
    BY <1>2, <2>1, OthersKeepRecords, OthersKeepSaves DEF LastSaveSurvives
  <2>2. CASE w = owner[r] /\ j = k
    <3>1. CASE RemovePrevious(r, k)
      \* A list that is not empty puts the run among those that are saving.
      BY <2>2, <3>1 DEF RemovePrevious, Saving, Inv, TypeOK
    <3>2. CASE RemoveSameHash(r, k)
      BY <2>2, <3>2 DEF RemoveSameHash, Saving, Inv, TypeOK
    <3>3. CASE InsertRecords(r, k)
      <4>1. lastSaved'[w][j] = fetched[r][k].items
        BY <2>2, <3>3 DEF InsertRecords, Inv, TypeOK
      <4>2. fetched[r][k].items \subseteq Items
        BY DEF Inv, TypeOK, Answer
      <4>3. \A i \in fetched[r][k].items : NewRecord(r, k, i) \in Records(w, j)'
        BY <2>2, <3>3 DEF InsertRecords, NewRecords, NewRecord, Records
      <4>4. \A i : NewRecord(r, k, i).item = i
        BY DEF NewRecord
      <4> QED
        BY <4>1, <4>3, <4>4 DEF ItemsOf
    <3> QED
      BY <1>2, <3>1, <3>2, <3>3 DEF Writes
  <2> QED
    BY <2>1, <2>2
<1>3. CASE Crash
  BY <1>3 DEF Crash, LastSaveSurvives, Records, ItemsOf
<1> QED
  BY <1>1, <1>2, <1>3, StepCases

\* However runs overlap, the list saved last is complete once no run is between
\* its removals and its insert.
THEOREM NewestListSurvives == Spec => []LastSaveSurvives
<1>1. Init => LastSaveSurvives
  BY DEF Init, LastSaveSurvives
<1> QED
  BY <1>1, InitInv, NextInv, NextLastSaveSurvives, PTL DEF Spec

-----------------------------------------------------------------------------
(* A save no other run disturbs *)

\* Disturb ends the solitude of the runs that save the same records, and of no
\* other pipeline.
LEMMA SolitudeElsewhere ==
  ASSUME Inv, NEW r \in Runs, NEW k \in Kinds, NEW mine, Disturb(r, k, mine),
         NEW s \in Runs, NEW j \in Kinds, s # r \/ j # k, alone'[s][j]
  PROVE  alone[s][j] /\ (owner[s] # owner[r] \/ j # k)
BY DEF Disturb, Inv, TypeOK

\* The property of one pipeline, as it stands after a step that left its run, its
\* answer, its records and its totals as they were.
LEMMA UntouchedPipeline ==
  ASSUME Inv, QuietSaveExact, NEW s \in Runs, NEW j \in Kinds, alone[s][j],
         pc'[s][j] = pc[s][j], owner'[s] = owner[s], fetched'[s][j] = fetched[s][j],
         pc[s][j] # "idle" =>
           /\ Records(owner[s], j)' = Records(owner[s], j)
           /\ totals'[owner[s]][j] = totals[owner[s]][j]
  PROVE  /\ pc'[s][j] \in {"dedupe", "insert"} => Records(owner[s], j)' = {}
         /\ pc'[s][j] \in {"attributes", "saved"} =>
              Records(owner[s], j)' = OwnDocuments(s, j)'
         /\ pc'[s][j] = "saved" /\ j # "nftAccount" /\ fetched'[s][j].items # {} =>
              totals'[owner'[s]][j] = fetched'[s][j].items
<1>1. OwnDocuments(s, j)' = OwnDocuments(s, j)
  BY DEF OwnDocuments
<1>2. /\ pc[s][j] \in {"dedupe", "insert"} => Records(owner[s], j) = {}
      /\ pc[s][j] \in {"attributes", "saved"} =>
           Records(owner[s], j) = OwnDocuments(s, j)
      /\ pc[s][j] = "saved" /\ j # "nftAccount" /\ fetched[s][j].items # {} =>
           totals[owner[s]][j] = fetched[s][j].items
  BY DEF QuietSaveExact
<1> QED
  BY <1>1, <1>2

\* The same for a step that writes another pipeline's records or totals.
LEMMA UndisturbedPipeline ==
  ASSUME Inv, QuietSaveExact, NEW r \in Runs, NEW k \in Kinds,
         Writes(r, k) \/ UpdateCommonAttributes(r, k),
         NEW s \in Runs, NEW j \in Kinds, s # r \/ j # k, alone'[s][j]
  PROVE  /\ alone[s][j] /\ pc'[s][j] = pc[s][j]
         /\ owner'[s] = owner[s] /\ fetched'[s][j] = fetched[s][j]
         /\ pc[s][j] # "idle" =>
              /\ Records(owner[s], j)' = Records(owner[s], j)
              /\ totals'[owner[s]][j] = totals[owner[s]][j]
<1>1. owner' = owner /\ fetched' = fetched
  BY DEF Writes, RemovePrevious, RemoveSameHash, InsertRecords,
         UpdateCommonAttributes
<1>2. pc'[s][j] = pc[s][j]
  <2>1. pc \in [Runs -> [Kinds -> Steps]]
    BY DEF Inv, TypeOK
  <2>2. \E step : pc' = [pc EXCEPT ![r][k] = step]
    BY DEF Writes, RemovePrevious, RemoveSameHash, InsertRecords,
           UpdateCommonAttributes
  <2> QED
    BY <2>1, <2>2
<1>3. \E mine : Disturb(r, k, mine)
  BY DEF Writes, RemovePrevious, RemoveSameHash, InsertRecords,
         UpdateCommonAttributes
<1>4. alone[s][j] /\ (owner[s] # owner[r] \/ j # k)
  BY <1>3, SolitudeElsewhere
<1>5. ASSUME pc[s][j] # "idle"
      PROVE  /\ Records(owner[s], j)' = Records(owner[s], j)
             /\ totals'[owner[s]][j] = totals[owner[s]][j]
  <2>1. PICK w \in Wallets : w = owner[s]
    BY <1>5 DEF Inv, Answered
  <2>2. Records(w, j)' = Records(w, j)
    <3>1. CASE Writes(r, k)
      BY <1>4, <2>1, <3>1, OthersKeepRecords
    <3>2. CASE UpdateCommonAttributes(r, k)
      BY <3>2 DEF UpdateCommonAttributes, Records
    <3> QED
      BY <3>1, <3>2
  <2>3. totals'[w][j] = totals[w][j]
    <3>1. totals \in [Wallets -> [Kinds -> SUBSET Items]]
      BY DEF Inv, TypeOK
    <3>2. totals' = totals \/
          totals' = [totals EXCEPT ![owner[r]][k] = fetched[r][k].items]
      BY DEF Writes, RemovePrevious, RemoveSameHash, InsertRecords,
             UpdateCommonAttributes
    <3> QED
      BY <1>4, <2>1, <3>1, <3>2
  <2> QED
    BY <1>1, <2>1, <2>2, <2>3 DEF Records
<1> QED
  BY <1>1, <1>2, <1>4, <1>5

(* A save that nothing overlapped leaves exactly its records. *)
LEMMA NextQuietSaveExact ==
  Inv /\ QuietSaveExact /\ [Next]_vars => QuietSaveExact'
<1> SUFFICES ASSUME Inv, QuietSaveExact, [Next]_vars,
                    NEW s \in Runs, NEW j \in Kinds, alone'[s][j]
    PROVE /\ pc'[s][j] \in {"dedupe", "insert"} => Records(owner[s], j)' = {}
          /\ pc'[s][j] \in {"attributes", "saved"} =>
               Records(owner[s], j)' = OwnDocuments(s, j)'
          /\ pc'[s][j] = "saved" /\ j # "nftAccount" /\ fetched'[s][j].items # {} =>
               totals'[owner'[s]][j] = fetched'[s][j].items
  BY DEF QuietSaveExact
<1> DEFINE Goal ==
      /\ pc'[s][j] \in {"dedupe", "insert"} => Records(owner[s], j)' = {}
      /\ pc'[s][j] \in {"attributes", "saved"} =>
           Records(owner[s], j)' = OwnDocuments(s, j)'
      /\ pc'[s][j] = "saved" /\ j # "nftAccount" /\ fetched'[s][j].items # {} =>
           totals'[owner'[s]][j] = fetched'[s][j].items
<1> DEFINE Same ==
      /\ alone[s][j] /\ pc'[s][j] = pc[s][j]
      /\ owner'[s] = owner[s] /\ fetched'[s][j] = fetched[s][j]
      /\ pc[s][j] # "idle" =>
           /\ Records(owner[s], j)' = Records(owner[s], j)
           /\ totals'[owner[s]][j] = totals[owner[s]][j]
<1>1. ASSUME NEW r \in Runs, NEW k \in Kinds,
             Writes(r, k) \/ UpdateCommonAttributes(r, k), s # r \/ j # k
      PROVE  Goal
  <2>1. Same
    BY <1>1, UndisturbedPipeline
  <2> QED
    BY <2>1, UntouchedPipeline
<1>2. ASSUME RemovePrevious(s, j) PROVE Goal
  <2>1. Records(owner[s], j)' = {}
    BY <1>2 DEF RemovePrevious, Previous, Records
  <2>2. fetched' = fetched /\ pc'[s][j] \in {"dedupe", "saved"}
    BY <1>2 DEF RemovePrevious, Inv, TypeOK
  <2>3. pc'[s][j] = "saved" => fetched[s][j].items = {}
    BY <1>2 DEF RemovePrevious, Inv, TypeOK
  <2>4. fetched[s][j].items = {} => OwnDocuments(s, j)' = {}
    BY <2>2 DEF OwnDocuments
  <2> QED
    BY <2>1, <2>2, <2>3, <2>4
<1>3. ASSUME RemoveSameHash(s, j) PROVE Goal
  <2>1. alone[s][j] /\ pc'[s][j] = "insert"
    BY <1>3 DEF RemoveSameHash, Disturb, Inv, TypeOK
  <2>2. Records(owner[s], j) = {}
    BY <1>3, <2>1 DEF RemoveSameHash, QuietSaveExact
  <2>3. Records(owner[s], j)' = {}
    BY <1>3, <2>2 DEF RemoveSameHash, Records
  <2> QED
    BY <2>1, <2>3
<1>4. ASSUME InsertRecords(s, j) PROVE Goal
  <2>1. alone[s][j] /\ pc'[s][j] \in {"attributes", "saved"}
    BY <1>4 DEF InsertRecords, Disturb, Inv, TypeOK
  <2>2. pc'[s][j] = "saved" => j = "nftAccount"
    BY <1>4 DEF InsertRecords, Inv, TypeOK
  <2>3. Records(owner[s], j) = {}
    BY <1>4, <2>1 DEF InsertRecords, QuietSaveExact
  <2>4. NewRecords(s, j) = OwnDocuments(s, j)
    BY <1>4, NewRecordsAreDocuments DEF InsertRecords
  <2>5. Records(owner[s], j)' = OwnDocuments(s, j)
    BY <1>4, <2>3, <2>4 DEF InsertRecords, Records, OwnDocuments
  <2>6. OwnDocuments(s, j)' = OwnDocuments(s, j)
    BY <1>4 DEF InsertRecords, OwnDocuments
  <2> QED
    BY <2>1, <2>2, <2>5, <2>6
<1>5. ASSUME UpdateCommonAttributes(s, j) PROVE Goal
  <2>1. alone[s][j] /\ pc'[s][j] = "saved"
    BY <1>5 DEF UpdateCommonAttributes, Disturb, Inv, TypeOK
  <2>2. Records(owner[s], j) = OwnDocuments(s, j)
    BY <1>5, <2>1 DEF UpdateCommonAttributes, QuietSaveExact
  <2>3. Records(owner[s], j)' = OwnDocuments(s, j)'
    BY <1>5, <2>2 DEF UpdateCommonAttributes, Records, OwnDocuments
  <2>4. owner[s] \in Wallets
    BY <1>5 DEF UpdateCommonAttributes, Inv, Answered
  <2>5. totals'[owner'[s]][j] = fetched'[s][j].items
    BY <1>5, <2>4 DEF UpdateCommonAttributes, Inv, TypeOK
  <2> QED
    BY <2>1, <2>3, <2>5
<1>6. ASSUME NEW w \in Wallets, SwitchWallet(w) PROVE Goal
  BY <1>6, UntouchedPipeline DEF SwitchWallet, Records
<1>7. ASSUME NEW r \in Runs, NEW kinds, StartRun(r, kinds) PROVE Goal
  <2>1. CASE s = r
    BY <1>7, <2>1 DEF StartRun, Inv, TypeOK
  <2>2. CASE s # r
    <3>1. Same
      BY <1>7, <2>2 DEF StartRun, Records, Inv, TypeOK
    <3> QED
      BY <3>1, UntouchedPipeline
  <2> QED
    BY <2>1, <2>2
<1>8. ASSUME NEW r \in Runs, SettleRun(r) PROVE Goal
  <2>1. s # r
    BY <1>8 DEF SettleRun, Inv, TypeOK
  <2>2. Same
    BY <1>8, <2>1 DEF SettleRun, Records, Inv, TypeOK
  <2> QED
    BY <2>2, UntouchedPipeline
<1>9. ASSUME NEW r \in Runs, NEW k \in Kinds, FetchAnswered(r, k) \/ FetchFailed(r, k)
      PROVE  Goal
  <2>1. CASE s = r /\ j = k
    BY <1>9, <2>1 DEF FetchAnswered, FetchFailed, Inv, TypeOK
  <2>2. CASE s # r \/ j # k
    <3>1. fetched'[s][j] = fetched[s][j]
      BY <1>9, <2>2 DEF FetchAnswered, FetchFailed, Inv, TypeOK
    <3>2. Same
      BY <1>9, <2>2, <3>1
      DEF FetchAnswered, FetchFailed, Records, Inv, TypeOK
    <3> QED
      BY <3>2, UntouchedPipeline
  <2> QED
    BY <2>1, <2>2
<1>10. ASSUME Crash PROVE Goal
  BY <1>10 DEF Crash
<1>11. ASSUME UNCHANGED vars PROVE Goal
  BY <1>11, UntouchedPipeline DEF vars, Records
<1>12. ASSUME NEW r \in Runs, NEW k \in Kinds,
              Writes(r, k) \/ UpdateCommonAttributes(r, k)
       PROVE  Goal
  BY <1>1, <1>2, <1>3, <1>4, <1>5, <1>12 DEF Writes
<1> HIDE DEF Goal
<1>13. Goal
  BY <1>6, <1>7, <1>8, <1>9, <1>10, <1>11, <1>12 DEF Next, RunStep, Writes
<1> QED
  BY <1>13 DEF Goal

\* Whatever crashes and overlaps came before, a save that no other run disturbs
\* leaves exactly the node's answer.
THEOREM QuietSavesAreExact == Spec => []QuietSaveExact
<1>1. Init => QuietSaveExact
  BY DEF Init, QuietSaveExact
<1> QED
  BY <1>1, InitInv, NextInv, NextQuietSaveExact, PTL DEF Spec

-----------------------------------------------------------------------------
(* Only answers erase delegations *)

\* A pipeline that is about to remove delegations has been answered by the node.
NodeAnswered ==
  \A r \in Runs, k \in Kinds : k = "staking" /\ pc[r][k] \in {"remove", "dedupe"} =>
    fetched[r][k].outcome \in {"complete", "notFound"}

(* Nothing is answered at the start. *)
LEMMA InitNodeAnswered == Init => NodeAnswered
BY DEF Init, NodeAnswered

(* No step takes a pipeline to its removal without an answer of the node. *)
LEMMA NextNodeAnswered == Inv /\ NodeAnswered /\ [Next]_vars => NodeAnswered'
<1> SUFFICES ASSUME Inv, NodeAnswered, [Next]_vars PROVE NodeAnswered'
  OBVIOUS
<1> USE DEF Inv, TypeOK, NodeAnswered
<1>1. ASSUME NEW r \in Runs, NEW kinds, StartRun(r, kinds) PROVE NodeAnswered'
  BY <1>1 DEF StartRun
<1>2. ASSUME NEW r \in Runs, SettleRun(r) PROVE NodeAnswered'
  BY <1>2 DEF SettleRun
<1>3. ASSUME NEW r \in Runs, NEW k \in Kinds, FetchAnswered(r, k) PROVE NodeAnswered'
  <2>1. PICK outcome \in Outcomes : \E list \in Lists(k, outcome) :
          fetched' = [fetched EXCEPT ![r][k] =
            [address |-> owner[r], items |-> list, outcome |-> outcome]]
    BY <1>3 DEF FetchAnswered
  <2>2. PICK list \in Lists(k, outcome) :
          fetched' = [fetched EXCEPT ![r][k] =
            [address |-> owner[r], items |-> list, outcome |-> outcome]]
    BY <2>1
  <2>3. k = "staking" => outcome \in {"complete", "notFound"}
    BY <2>2 DEF Lists, Delegations
  <2>4. fetched'[r][k].outcome = outcome
    BY <2>2
  <2>5. \A s \in Runs, j \in Kinds : s # r \/ j # k =>
          pc'[s][j] = pc[s][j] /\ fetched'[s][j] = fetched[s][j]
    BY <1>3, <2>2 DEF FetchAnswered
  <2> QED
    BY <2>3, <2>4, <2>5
<1>4. ASSUME NEW r \in Runs, NEW k \in Kinds, FetchFailed(r, k) PROVE NodeAnswered'
  BY <1>4 DEF FetchFailed
<1>5. ASSUME NEW r \in Runs, NEW k \in Kinds, RemovePrevious(r, k) PROVE NodeAnswered'
  BY <1>5 DEF RemovePrevious
<1>6. ASSUME NEW r \in Runs, NEW k \in Kinds,
             \/ RemoveSameHash(r, k) \/ InsertRecords(r, k) \/ UpdateCommonAttributes(r, k)
      PROVE NodeAnswered'
  <2>1. fetched' = fetched /\ \E step \in {"insert", "attributes", "saved"} :
                                pc' = [pc EXCEPT ![r][k] = step]
    BY <1>6 DEF RemoveSameHash, InsertRecords, UpdateCommonAttributes
  <2> QED
    BY <2>1
<1>7. ASSUME \/ \E w \in Wallets : SwitchWallet(w)
             \/ Crash
             \/ UNCHANGED vars
      PROVE NodeAnswered'
  BY <1>7 DEF SwitchWallet, Crash, vars
<1> QED
  BY <1>1, <1>2, <1>3, <1>4, <1>5, <1>6, <1>7 DEF Next, RunStep

\* A delegation that disappears in this step has been replaced by an answer.
Replaced ==
  \A d \in txs \ txs' : d.txType = "staking" =>
    \E r \in Runs :
      /\ owner[r] = d.walletId
      /\ pc[r]["staking"] \in {"remove", "dedupe"}
      /\ fetched[r]["staking"].outcome \in {"complete", "notFound"}

(* So every removal of records is a replacement by what a node answered. *)
LEMMA StepsReplace == Inv /\ NodeAnswered /\ [Next]_vars => Replaced
<1> SUFFICES ASSUME Inv, NodeAnswered, [Next]_vars,
                    NEW d \in txs \ txs', d.txType = "staking"
             PROVE  \E r \in Runs :
                      /\ owner[r] = d.walletId
                      /\ pc[r]["staking"] \in {"remove", "dedupe"}
                      /\ fetched[r]["staking"].outcome \in {"complete", "notFound"}
  BY DEF Replaced
<1>1. PICK r \in Runs, k \in Kinds : RemovePrevious(r, k) \/ RemoveSameHash(r, k)
  BY DEF Next, RunStep, SwitchWallet, StartRun, SettleRun, FetchAnswered, FetchFailed,
         InsertRecords, UpdateCommonAttributes, Crash, vars
<1>2. d \in Records(owner[r], k)
  BY <1>1, DuplicatesAreRecords DEF RemovePrevious, Previous, RemoveSameHash
<1>3. k = "staking" /\ owner[r] = d.walletId
  BY <1>2 DEF Records
<1>4. pc[r][k] \in {"remove", "dedupe"}
  BY <1>1 DEF RemovePrevious, RemoveSameHash
<1> QED
  BY <1>3, <1>4 DEF NodeAnswered

\* No failure of the network ever erases a delegation: one only disappears in a save
\* that the node has answered, with the list that replaces it.
THEOREM AnswersErase == Spec => OnlyAnswersErase
<1>1. Inv /\ NodeAnswered /\ [Next]_vars => [Replaced]_vars
  BY StepsReplace
<1> QED
  BY <1>1, InitInv, NextInv, InitNodeAnswered, NextNodeAnswered, PTL
     DEF Spec, OnlyAnswersErase, Replaced

-----------------------------------------------------------------------------
(* The table of a Ledger's addresses. *)
Row == [chain: Chains \union {NoChain}, std: Standards, index: Nat]

Awaited ==
  [what: {"check", "list", "balances", "click", "more"},
   chain: Chains \union {NoChain}, std: Standards, rows: SUBSET Row, index: Nat,
   here: BOOLEAN, old: BOOLEAN]

TableState == [rows: SUBSET Row, start: Nat \ {0}, loading: BOOLEAN]

Field == [std: Standards, index: Nat, chain: Chains \union {NoChain}]

Link ==
  [app: Chains \union {NoChain, "none", "ethereum"}, connected: BOOLEAN,
   offer: Chains \union {NoChain}]

TableTyped ==
  /\ field \in Field /\ link \in Link
  /\ raw \in SUBSET Row /\ table \in TableState
  /\ jobs \in SUBSET Awaited
  /\ dialog \in BOOLEAN /\ misled \in BOOLEAN /\ upset \in BOOLEAN
  /\ again \in BOOLEAN /\ unsaid \in BOOLEAN

(* The first n rows of the chain and the standard chosen. *)
FirstRows(n) ==
  {[chain |-> field.chain, std |-> field.std, index |-> i]: i \in 0 .. n - 1}

OfTheStandard(rows) == \A r \in rows: r.std = field.std

(* An answer awaited for what is chosen now is about it, and more rows are asked for
   after the first ones. *)
JobFits(j) ==
  ~j.old /\ j.what # "check" =>
    /\ j.what \in {"list", "more"} => j.chain = field.chain /\ j.std = field.std
    /\ j.what = "list" => j.index = 0
    /\ j.what \in {"click", "more"} =>
         /\ j.here /\ j.chain = field.chain /\ OfTheStandard(j.rows)
         /\ ~again => j.index > 0 /\ j.rows = FirstRows(j.index)

(* The rows listed are the first ones, and those shown are the same, or will be once
   their balances are there. *)
RowsListed ==
  /\ OfTheStandard(raw)
  /\ table.rows = raw \/ \E j \in jobs: j.what = "balances" /\ j.rows = raw
  /\ ~again => IF raw = {} THEN table.start = 1 ELSE raw = FirstRows(table.start)

(* Rows of another choice may be left under the spinner, which then goes on until rows
   of this one are there. *)
RowsShown ==
  \/ OfTheStandard(table.rows)
  \/ table.loading /\ \A j \in jobs: j.what = "click" => j.old

TableFits ==
  Mounted /\ ~upset =>
    (\A j \in jobs: JobFits(j)) /\ RowsListed /\ RowsShown

TableInv == TableTyped /\ TableFits /\ PathIsUsed

-----------------------------------------------------------------------------
(* The parts of the type invariant. *)
LEMMA TableParts ==
  ASSUME TableTyped
  PROVE  /\ field.std \in Standards /\ field.index \in Nat
         /\ field.chain \in Chains \union {NoChain}
         /\ table.rows \in SUBSET Row /\ table.start \in Nat \ {0}
         /\ table.loading \in BOOLEAN
         /\ link.connected \in BOOLEAN /\ link.offer \in Chains \union {NoChain}
BY DEF TableTyped, Field, TableState, Link

(* What is awaited, when a function is called. *)
LEMMA JobTyped ==
  ASSUME TableTyped, NEW what \in {"check", "list", "balances", "click", "more"},
         NEW chain \in Chains \union {NoChain}, NEW rows \in SUBSET Row, NEW index \in Nat
  PROVE  /\ Job(what, chain, rows, index) \in Awaited
         /\ Job(what, chain, rows, index).what = what
         /\ Job(what, chain, rows, index).chain = chain
         /\ Job(what, chain, rows, index).std = field.std
         /\ Job(what, chain, rows, index).rows = rows
         /\ Job(what, chain, rows, index).index = index
         /\ Job(what, chain, rows, index).here /\ ~Job(what, chain, rows, index).old
BY TableParts DEF Job, Awaited

(* The rows are there at once, or once their balances are. *)
LEMMA Processed ==
  ASSUME TableTyped, NEW rows \in SUBSET Row, NEW chain \in Chains,
         NEW awaited \in SUBSET Awaited, NEW t \in TableState,
         Process(rows, chain, awaited, t)
  PROVE  /\ table' \in TableState /\ jobs' \in SUBSET Awaited /\ table'.start = t.start
         /\ \A j \in awaited: j \in jobs'
         /\ \A j \in jobs': j \in awaited \/ (j.what = "balances" /\ j.rows = rows)
         /\ \/ rows = {} /\ table'.rows = {}
            \/ /\ \E j \in jobs': j.what = "balances" /\ j.rows = rows
               /\ table'.rows = t.rows /\ table'.loading
<1> DEFINE job == Job("balances", chain, rows, 0)
<1>1. job \in Awaited /\ job.what = "balances" /\ job.rows = rows
  BY JobTyped
<1>2. CASE rows = {} /\ chain \in Evm
  <2>1. table' = [t EXCEPT !.rows = {}, !.loading = FALSE] /\ jobs' = awaited
    BY <1>2 DEF Process
  <2> QED
    BY <2>1, <1>2 DEF TableState
<1>3. CASE ~(rows = {} /\ chain \in Evm)
  <2>1. table' = [t EXCEPT !.loading = TRUE] /\ jobs' = awaited \union {job}
    BY <1>3 DEF Process
  <2> HIDE DEF job
  <2>2. /\ table' \in TableState /\ table'.start = t.start /\ table'.rows = t.rows
        /\ table'.loading
    BY <2>1 DEF TableState
  <2> QED
    BY <1>1, <2>1, <2>2
<1> QED
  BY <1>2, <1>3

(* A step that leaves the rows as they are. *)
LEMMA FitsStep ==
  ASSUME TableFits, field'.chain = field.chain, field'.std = field.std, raw' = raw,
         table'.rows = table.rows, table'.start = table.start, again' = again,
         ~upset' => ~upset,
         Mounted /\ ~upset' =>
           /\ \A j \in jobs: j.what = "balances" => j \in jobs'
           /\ \A j \in jobs': j \in jobs \/ JobFits(j)
           /\ RowsShown'
  PROVE  TableFits'
<1> SUFFICES ASSUME Mounted', ~upset'
             PROVE  (\A j \in jobs': JobFits(j)') /\ RowsListed' /\ RowsShown'
  BY DEF TableFits
<1>0. Mounted
  BY DEF Mounted
<1>1. (\A j \in jobs: JobFits(j)) /\ RowsListed
  BY <1>0 DEF TableFits
<1>2. \A n: FirstRows(n)' = FirstRows(n)
  BY DEF FirstRows
<1>3. \A rows: OfTheStandard(rows)' <=> OfTheStandard(rows)
  BY DEF OfTheStandard
<1>4. ASSUME NEW j, JobFits(j) PROVE JobFits(j)'
  BY <1>2, <1>3, <1>4 DEF JobFits
<1>5. RowsListed'
  <2>1. OfTheStandard(raw)'
    BY <1>1, <1>3 DEF RowsListed, OfTheStandard
  <2>2. table'.rows = raw' \/ \E j \in jobs': j.what = "balances" /\ j.rows = raw'
    BY <1>0, <1>1 DEF RowsListed
  <2>3. ~again' => IF raw' = {} THEN table'.start = 1 ELSE raw' = FirstRows(table.start)'
    BY <1>1 DEF RowsListed, FirstRows
  <2> QED
    BY <2>1, <2>2, <2>3 DEF RowsListed, FirstRows
<1>6. \A j \in jobs': JobFits(j)'
  BY <1>0, <1>1, <1>4
<1>7. RowsShown'
  BY <1>0
<1> QED
  BY <1>5, <1>6, <1>7

(* The paths stay those of the standard and the index. *)
LEMMA PathKept ==
  ASSUME PathIsUsed, UNCHANGED <<path, misled, unsaid>>,
         field'.std = field.std, field'.index = field.index
  PROVE  PathIsUsed'
BY DEF PathIsUsed

-----------------------------------------------------------------------------
(* The dialog is opened or closed. *)
LEMMA DialogInv == TableInv /\ (OpenTable \/ CloseTable) => TableInv'
<1> SUFFICES ASSUME TableInv, OpenTable \/ CloseTable PROVE TableInv'
  OBVIOUS
<1>1. dialog' \in BOOLEAN /\ UNCHANGED <<field, path, link, raw, table, jobs, flags>>
  BY DEF OpenTable, CloseTable
<1>2. TableTyped'
  BY <1>1 DEF TableInv, TableTyped, flags
<1>3. TableFits'
  <2>1. TableFits
    BY DEF TableInv
  <2>2. Mounted /\ ~upset' => RowsShown'
    BY <1>1, <2>1 DEF TableFits, RowsShown, OfTheStandard, flags
  <2> QED
    BY <1>1, <2>1, <2>2, FitsStep DEF flags
<1>4. PathIsUsed'
  BY <1>1, PathKept DEF TableInv, flags
<1> QED
  BY <1>2, <1>3, <1>4 DEF TableInv

(* A chain is chosen: what is awaited is outdated. *)
LEMMA ChooseChainInv == \A c \in Chains: TableInv /\ ChooseChain(c) => TableInv'
<1> SUFFICES ASSUME TableInv, NEW c \in Chains, ChooseChain(c) PROVE TableInv'
  OBVIOUS
<1> DEFINE next == [table EXCEPT !.start = StartFor(c)]
<1>1. TableTyped /\ PathIsUsed
  BY DEF TableInv
<1>2. /\ field' = [field EXCEPT !.chain = c] /\ raw' = {} /\ upset' = FALSE
      /\ link' = [app |-> "none", connected |-> FALSE, offer |-> c]
      /\ again' = (c = field.chain) /\ UNCHANGED <<dialog, path, misled, unsaid>>
      /\ Process({}, c, Outdated, next)
  BY DEF ChooseChain
<1>3. /\ field' \in Field /\ field'.std = field.std /\ field'.index = field.index
      /\ field'.chain = c
  BY <1>1, <1>2 DEF TableTyped, Field
<1>4. Outdated \in SUBSET Awaited /\ \A j \in Outdated: j.old
  BY <1>1 DEF Outdated, TableTyped, Awaited
<1>5. next \in TableState /\ (c # field.chain => next.start = 1)
  BY <1>1, TableParts DEF StartFor, TableTyped, TableState
<1>6. {} \in SUBSET Row
  OBVIOUS
<1> HIDE DEF next
<1>7. /\ table' \in TableState /\ jobs' \in SUBSET Awaited /\ table'.start = next.start
      /\ \A j \in jobs': j \in Outdated \/ (j.what = "balances" /\ j.rows = {})
      /\ \/ table'.rows = {}
         \/ (\E j \in jobs': j.what = "balances" /\ j.rows = {}) /\ table'.loading
  BY <1>1, <1>2, <1>4, <1>5, <1>6, Processed
<1>8. TableTyped'
  BY <1>1, <1>2, <1>3, <1>7 DEF TableTyped, Link
<1>9. \A j \in jobs': JobFits(j)'
  BY <1>4, <1>7 DEF JobFits
<1>10. RowsListed'
  <2>1. ~again' => table'.start = 1
    BY <1>2, <1>5, <1>7
  <2> QED
    BY <1>2, <1>7, <2>1 DEF RowsListed, OfTheStandard
<1>11. RowsShown'
  BY <1>4, <1>7 DEF RowsShown, OfTheStandard
<1>12. PathIsUsed'
  BY <1>1, <1>2, <1>3, PathKept
<1> QED
  BY <1>8, <1>9, <1>10, <1>11, <1>12 DEF TableInv, TableFits

(* The user asks for the Ledger to be looked at. *)
LEMMA ClickConnectInv == TableInv /\ ClickConnect => TableInv'
<1> SUFFICES ASSUME TableInv, ClickConnect PROVE TableInv'
  OBVIOUS
<1> DEFINE job == Job("check", link.offer, {}, 0)
<1>1. TableTyped /\ TableFits /\ PathIsUsed
  BY DEF TableInv
<1>2. jobs' = jobs \union {job} /\ UNCHANGED <<choice, link, raw, table, flags>>
  BY DEF ClickConnect
<1>3. job \in Awaited /\ job.what = "check"
  BY <1>1, TableParts, JobTyped
<1> HIDE DEF job
<1>4. TableTyped'
  BY <1>1, <1>2, <1>3 DEF TableTyped, choice, flags
<1>5. JobFits(job)
  BY <1>3 DEF JobFits
<1>6. Mounted /\ ~upset' => RowsShown'
  BY <1>1, <1>2, <1>3 DEF TableFits, RowsShown, OfTheStandard, choice, flags
<1>7. TableFits'
  BY <1>1, <1>2, <1>5, <1>6, FitsStep DEF choice, flags
<1>8. PathIsUsed'
  BY <1>1, <1>2, PathKept DEF choice, flags
<1> QED
  BY <1>4, <1>7, <1>8 DEF TableInv

(* The Ledger runs another app: a list is asked for if it is that of the chain. *)
LEMMA LedgerCheckedInv == \A j \in jobs: TableInv /\ LedgerChecked(j) => TableInv'
<1> SUFFICES ASSUME TableInv, NEW j \in jobs, LedgerChecked(j) PROVE TableInv'
  OBVIOUS
<1> DEFINE job == Job("list", field.chain, {}, 0)
<1>1. TableTyped /\ TableFits /\ PathIsUsed
  BY DEF TableInv
<1>2. /\ j.what = "check" /\ UNCHANGED <<choice, raw, table, flags>>
      /\ SetsApp(App(j.chain), NoChain, jobs \ {j}) \/ SetsApp("none", link.offer, jobs \ {j})
  BY DEF LedgerChecked
<1>3. /\ job \in Awaited /\ job.what = "list" /\ job.chain = field.chain
      /\ job.std = field.std /\ job.index = 0
  <2>1. field.chain \in Chains \union {NoChain} /\ {} \in SUBSET Row /\ 0 \in Nat
    BY <1>1, TableParts
  <2>2. "list" \in {"check", "list", "balances", "click", "more"}
    OBVIOUS
  <2> QED
    BY <1>1, <2>1, <2>2, JobTyped
<1>4. PICK app, offer: SetsApp(app, offer, jobs \ {j})
  BY <1>2
<1>5. link.connected \in BOOLEAN
  BY <1>1, TableParts
<1>6. jobs' = jobs \ {j} \/ (Mounted /\ jobs' = (jobs \ {j}) \union {job})
  BY <1>4, <1>5 DEF SetsApp
<1>7. link' \in Link
  <2>1. CASE SetsApp("none", link.offer, jobs \ {j})
    BY <1>1, <1>5, <2>1, TableParts DEF SetsApp, Link, Mounted
  <2>2. CASE SetsApp(App(j.chain), NoChain, jobs \ {j})
    <3>1. App(j.chain) \in Chains \union {NoChain, "none", "ethereum"}
      BY <1>1 DEF App, TableTyped, Awaited
    <3> QED
      BY <1>1, <1>5, <2>2, <3>1 DEF SetsApp, Link, Mounted
  <2> QED
    BY <1>2, <2>1, <2>2
<1> HIDE DEF job
<1>8. TableTyped'
  BY <1>1, <1>2, <1>3, <1>6, <1>7 DEF TableTyped, choice, flags
<1>9. JobFits(job)
  BY <1>3 DEF JobFits
<1>10. Mounted /\ ~upset' => RowsShown'
  BY <1>1, <1>2, <1>3, <1>6 DEF TableFits, RowsShown, OfTheStandard, choice, flags
<1>11. TableFits'
  BY <1>1, <1>2, <1>6, <1>9, <1>10, FitsStep DEF choice, flags
<1>12. PathIsUsed'
  BY <1>1, <1>2, PathKept DEF choice, flags
<1> QED
  BY <1>8, <1>11, <1>12 DEF TableInv

(* What is listed is of the chain of the answer. *)
LEMMA ListedTyped ==
  ASSUME TableTyped, NEW j \in jobs
  PROVE  Listed(j) \in SUBSET Row /\ Listed(j) # {} /\ j \in Awaited
<1>1. j \in Awaited
  BY DEF TableTyped
<1> QED
  BY <1>1 DEF Listed, Awaited, Row

(* The first rows come, or an error. *)
LEMMA ListAnswersInv == \A j \in jobs: TableInv /\ ListAnswers(j) => TableInv'
<1> SUFFICES ASSUME TableInv, NEW j \in jobs, ListAnswers(j) PROVE TableInv'
  OBVIOUS
<1>1. TableTyped /\ TableFits /\ PathIsUsed
  BY DEF TableInv
<1>2. j.what = "list" /\ UNCHANGED <<choice, link, misled, unsaid, looks>>
  BY DEF ListAnswers
<1>3. PathIsUsed'
  BY <1>1, <1>2, PathKept DEF choice
<1>4. j \in Awaited /\ Listed(j) \in SUBSET Row /\ Listed(j) # {}
  BY <1>1, ListedTyped
<1>5. jobs \ {j} \in SUBSET Awaited
  BY <1>1 DEF TableTyped
<1>6. j.old \in BOOLEAN /\ upset \in BOOLEAN /\ again \in BOOLEAN
  BY <1>1, <1>4 DEF TableTyped, Awaited
<1>7. CASE jobs' = jobs \ {j} /\ UNCHANGED <<raw, table, upset, again>>
  <2>1. TableTyped'
    BY <1>1, <1>2, <1>5, <1>7 DEF TableTyped, choice
  <2>2. Mounted /\ ~upset' => RowsShown'
    BY <1>1, <1>2, <1>7 DEF TableFits, RowsShown, OfTheStandard, choice
  <2>3. TableFits'
    BY <1>1, <1>2, <1>7, <2>2, FitsStep DEF choice
  <2> QED
    BY <1>3, <2>1, <2>3 DEF TableInv
<1>8. CASE /\ ~Mounted /\ raw' = Listed(j) /\ jobs' = jobs \ {j} /\ table' = table
           /\ upset' = (upset \/ j.old) /\ again' = (again \/ raw # {})
  <2>1. TableTyped'
    BY <1>1, <1>2, <1>4, <1>5, <1>6, <1>8 DEF TableTyped, choice
  <2>2. TableFits'
    BY <1>2, <1>8 DEF TableFits, Mounted, choice
  <2> QED
    BY <1>3, <2>1, <2>2 DEF TableInv
<1>9. CASE /\ Mounted /\ raw' = Listed(j) /\ Process(Listed(j), field.chain, jobs \ {j}, table)
           /\ upset' = (upset \/ j.old) /\ again' = (again \/ raw # {})
  <2>1. field.chain \in Chains /\ table \in TableState
    BY <1>1, <1>9, TableParts DEF Mounted, TableTyped
  <2>2. /\ table' \in TableState /\ jobs' \in SUBSET Awaited /\ table'.start = table.start
        /\ \A k \in jobs': k \in jobs \/ k.what = "balances"
        /\ \E k \in jobs': k.what = "balances" /\ k.rows = raw'
        /\ table'.rows = table.rows /\ table'.loading
    <3> DEFINE rows == Listed(j)
               awaited == jobs \ {j}
    <3>1. rows \in SUBSET Row /\ rows # {} /\ awaited \in SUBSET Awaited /\ raw' = rows
      BY <1>4, <1>5, <1>9
    <3>2. Process(rows, field.chain, awaited, table)
      BY <1>9
    <3>3. \A k \in awaited: k \in jobs
      OBVIOUS
    <3> HIDE DEF rows, awaited
    <3>4. /\ table' \in TableState /\ jobs' \in SUBSET Awaited /\ table'.start = table.start
          /\ \A k \in jobs': k \in awaited \/ (k.what = "balances" /\ k.rows = rows)
          /\ \/ rows = {} /\ table'.rows = {}
             \/ /\ \E k \in jobs': k.what = "balances" /\ k.rows = rows
                /\ table'.rows = table.rows /\ table'.loading
      BY <1>1, <2>1, <3>1, <3>2, Processed
    <3> QED
      BY <3>1, <3>3, <3>4
  <2>3. TableTyped'
    BY <1>1, <1>2, <1>4, <1>6, <1>9, <2>2 DEF TableTyped, choice
  <2>4. ASSUME ~upset' PROVE TableFits'
    <3>1. ~upset /\ ~j.old /\ Mounted
      BY <1>6, <1>9, <2>4
    <3>2. (\A k \in jobs: JobFits(k)) /\ RowsListed /\ RowsShown
      BY <1>1, <3>1 DEF TableFits
    <3>3. j.chain = field.chain /\ j.std = field.std /\ j.index = 0
      BY <1>2, <3>1, <3>2 DEF JobFits
    <3>4. \A k \in jobs': JobFits(k)'
      <4>1. \A k: JobFits(k) => JobFits(k)'
        BY <1>2, <1>6, <1>9 DEF JobFits, FirstRows, OfTheStandard, choice
      <4>2. \A k: k.what = "balances" => JobFits(k)'
        BY DEF JobFits
      <4> QED
        BY <2>2, <3>2, <4>1, <4>2
    <3>5. RowsListed'
      <4>1. OfTheStandard(raw)'
        BY <1>2, <1>9, <3>3 DEF OfTheStandard, Listed, choice
      <4>2. ~again' => raw' = FirstRows(table.start)'
        <5>1. SUFFICES ASSUME ~again' PROVE raw' = FirstRows(table.start)'
          OBVIOUS
        <5>2. raw = {} /\ ~again
          BY <1>6, <1>9, <5>1
        <5>3. table'.start = 1
          BY <2>2, <3>2, <5>2 DEF RowsListed
        <5>4. FirstRows(table.start)' = {[chain |-> field.chain, std |-> field.std, index |-> 0]}
          BY <1>2, <5>3 DEF FirstRows, choice
        <5> QED
          BY <1>9, <3>3, <5>4 DEF Listed
      <4>3. raw' # {}
        BY <1>4, <1>9
      <4> QED
        BY <2>2, <4>1, <4>2, <4>3 DEF RowsListed, FirstRows
    <3>6. RowsShown'
      BY <1>2, <2>2, <3>2 DEF RowsShown, OfTheStandard, choice
    <3> QED
      BY <3>4, <3>5, <3>6 DEF TableFits
  <2>5. TableFits'
    BY <2>4 DEF TableFits
  <2> QED
    BY <1>3, <2>3, <2>5 DEF TableInv
<1> QED
  BY <1>7, <1>8, <1>9 DEF ListAnswers

(* Balances come, or an error. *)
LEMMA BalancesAnswerInv == \A j \in jobs: TableInv /\ BalancesAnswer(j) => TableInv'
<1> SUFFICES ASSUME TableInv, NEW j \in jobs, BalancesAnswer(j) PROVE TableInv'
  OBVIOUS
<1>1. TableTyped /\ TableFits /\ PathIsUsed
  BY DEF TableInv
<1>2. /\ jobs' = jobs \ {j} /\ UNCHANGED <<choice, link, raw, misled, again, unsaid, looks>>
      /\ \/ /\ table' = [table EXCEPT !.rows = j.rows, !.loading = FALSE]
            /\ upset' = (upset \/ j.rows # raw)
         \/ table' = table /\ upset' = TRUE
  BY DEF BalancesAnswer
<1>3. PathIsUsed'
  BY <1>1, <1>2, PathKept DEF choice
<1>4. j \in Awaited
  BY <1>1 DEF TableTyped
<1>5. table' \in TableState
  BY <1>1, <1>2, <1>4 DEF TableTyped, TableState, Awaited
<1>6. TableTyped'
  BY <1>1, <1>2, <1>5 DEF TableTyped, choice
<1>7. ASSUME Mounted', ~upset' PROVE (\A k \in jobs': JobFits(k)') /\ RowsListed' /\ RowsShown'
  <2>1. /\ ~upset /\ j.rows = raw /\ Mounted
        /\ table' = [table EXCEPT !.rows = j.rows, !.loading = FALSE]
    BY <1>1, <1>2, <1>7 DEF TableTyped, Mounted, choice
  <2>2. table'.rows = raw /\ table'.start = table.start
    BY <1>1, <2>1 DEF TableTyped, TableState
  <2>3. (\A k \in jobs: JobFits(k)) /\ RowsListed
    BY <1>1, <2>1 DEF TableFits
  <2>4. \A k \in jobs': JobFits(k)'
    BY <1>2, <2>3 DEF JobFits, FirstRows, OfTheStandard, choice
  <2>5. RowsListed'
    <3>1. OfTheStandard(raw)'
      BY <1>2, <2>3 DEF RowsListed, OfTheStandard, choice
    <3>2. FirstRows(table.start)' = FirstRows(table.start)
      BY <1>2, <2>2 DEF FirstRows, choice
    <3> QED
      BY <1>2, <2>2, <2>3, <3>1, <3>2 DEF RowsListed
  <2>6. RowsShown'
    BY <1>2, <2>2, <2>5 DEF RowsShown, RowsListed, OfTheStandard, choice
  <2> QED
    BY <2>4, <2>5, <2>6
<1>8. TableFits'
  BY <1>7 DEF TableFits
<1> QED
  BY <1>3, <1>6, <1>8 DEF TableInv

(* More rows are asked for. *)
LEMMA ClickMoreInv == TableInv /\ ClickMore => TableInv'
<1> SUFFICES ASSUME TableInv, ClickMore PROVE TableInv'
  OBVIOUS
<1> DEFINE job == Job("click", field.chain, raw, table.start)
<1>1. TableTyped /\ TableFits /\ PathIsUsed
  BY DEF TableInv
<1>2. /\ Mounted /\ raw # {} /\ ~table.loading /\ jobs' = jobs \union {job}
      /\ table' = [table EXCEPT !.loading = TRUE] /\ UNCHANGED <<choice, link, raw, flags>>
  BY DEF ClickMore, Usable
<1>3. /\ job \in Awaited /\ job.what = "click" /\ job.chain = field.chain /\ job.here
      /\ job.rows = raw /\ job.index = table.start
  <2>1. field.chain \in Chains \union {NoChain} /\ raw \in SUBSET Row /\ table.start \in Nat
    BY <1>1, TableParts DEF TableTyped
  <2>2. "click" \in {"check", "list", "balances", "click", "more"}
    OBVIOUS
  <2> QED
    BY <1>1, <2>1, <2>2, JobTyped
<1> HIDE DEF job
<1>4. /\ table' \in TableState /\ table'.rows = table.rows /\ table'.start = table.start
  BY <1>1, <1>2 DEF TableTyped, TableState
<1>5. TableTyped'
  BY <1>1, <1>2, <1>3, <1>4 DEF TableTyped, choice, flags
<1>6. ASSUME ~upset PROVE JobFits(job) /\ RowsShown'
  <2>1. RowsListed /\ RowsShown
    BY <1>1, <1>2, <1>6 DEF TableFits
  <2>2. OfTheStandard(raw) /\ (~again => raw = FirstRows(table.start))
    BY <1>2, <2>1 DEF RowsListed
  <2>3. table.start \in Nat /\ table.start > 0
    BY <1>1, TableParts
  <2>4. JobFits(job)
    BY <1>3, <2>2, <2>3 DEF JobFits
  <2>5. RowsShown'
    BY <1>2, <1>4, <2>1 DEF RowsShown, OfTheStandard, choice
  <2> QED
    BY <2>4, <2>5
<1>7. TableFits'
  BY <1>1, <1>2, <1>4, <1>6, FitsStep DEF choice, flags
<1>8. PathIsUsed'
  BY <1>1, <1>2, PathKept DEF choice, flags
<1> QED
  BY <1>5, <1>7, <1>8 DEF TableInv

(* The Ledger is asked, for addresses of the standard of the form. *)
LEMMA AskMoreInv == \A j \in jobs: TableInv /\ AskMore(j) => TableInv'
<1> SUFFICES ASSUME TableInv, NEW j \in jobs, AskMore(j) PROVE TableInv'
  OBVIOUS
<1> DEFINE new == Job("more", j.chain, j.rows, j.index)
           job == [new EXCEPT !.here = j.here, !.old = j.old]
<1>1. TableTyped /\ TableFits /\ PathIsUsed
  BY DEF TableInv
<1>2. /\ j.what = "click" /\ jobs' = (jobs \ {j}) \union {job}
      /\ table' = IF j.here THEN [table EXCEPT !.loading = FALSE] ELSE table
      /\ upset' = (upset \/ j.old)
      /\ UNCHANGED <<choice, link, raw, misled, again, unsaid, looks>>
  BY DEF AskMore
<1>3. /\ j \in Awaited /\ j.chain \in Chains \union {NoChain} /\ j.rows \in SUBSET Row
      /\ j.index \in Nat /\ j.here \in BOOLEAN /\ j.old \in BOOLEAN /\ upset \in BOOLEAN
  BY <1>1 DEF TableTyped, Awaited
<1>4. /\ new \in Awaited /\ new.what = "more" /\ new.chain = j.chain
      /\ new.std = field.std /\ new.rows = j.rows /\ new.index = j.index
  <2>1. "more" \in {"check", "list", "balances", "click", "more"}
    OBVIOUS
  <2> QED
    BY <1>1, <1>3, <2>1, JobTyped
<1> HIDE DEF new
<1>5. /\ job \in Awaited /\ job.what = "more" /\ job.chain = j.chain /\ job.old = j.old
      /\ job.here = j.here /\ job.std = field.std /\ job.rows = j.rows /\ job.index = j.index
  BY <1>3, <1>4 DEF Awaited
<1> HIDE DEF job
<1>6. table' \in TableState /\ table'.rows = table.rows /\ table'.start = table.start
  BY <1>1, <1>2 DEF TableTyped, TableState
<1>7. TableTyped'
  BY <1>1, <1>2, <1>3, <1>5, <1>6 DEF TableTyped, choice
<1>8. ASSUME Mounted, ~upset' PROVE JobFits(job) /\ RowsShown'
  <2>1. ~upset /\ ~j.old
    BY <1>2, <1>3, <1>8
  <2>2. JobFits(j) /\ RowsShown
    BY <1>1, <1>8, <2>1 DEF TableFits
  <2>3. JobFits(job)
    BY <1>2, <1>5, <2>1, <2>2 DEF JobFits
  <2>4. OfTheStandard(table.rows)
    BY <1>2, <2>1, <2>2 DEF RowsShown
  <2>5. RowsShown'
    BY <1>2, <1>6, <2>4 DEF RowsShown, OfTheStandard, choice
  <2> QED
    BY <2>3, <2>5
<1>9. TableFits'
  <2>1. ~upset' => ~upset
    BY <1>2, <1>3
  <2>2. Mounted /\ ~upset' => \A k \in jobs': k \in jobs \/ JobFits(k)
    BY <1>2, <1>8
  <2>3. \A k \in jobs: k.what = "balances" => k \in jobs'
    BY <1>2
  <2> QED
    BY <1>1, <1>2, <1>6, <1>8, <2>1, <2>2, <2>3, FitsStep DEF choice
<1>10. PathIsUsed'
  BY <1>1, <1>2, PathKept DEF choice
<1> QED
  BY <1>7, <1>9, <1>10 DEF TableInv

(* The rows after the first n. *)
LEMMA MoreRows ==
  ASSUME NEW n \in Nat, n > 0, NEW chain, NEW std, NEW index, index = n,
         chain = field.chain, std = field.std
  PROVE  FirstRows(n) \union {[chain |-> chain, std |-> std, index |-> index]}
           = FirstRows(n + 1)
<1>1. 0 .. (n + 1) - 1 = (0 .. n - 1) \union {n}
  OBVIOUS
<1> QED
  BY <1>1 DEF FirstRows

(* The rows that come are added to those of the click, or an error. *)
LEMMA MoreAnswersInv == \A j \in jobs: TableInv /\ MoreAnswers(j) => TableInv'
<1> SUFFICES ASSUME TableInv, NEW j \in jobs, MoreAnswers(j) PROVE TableInv'
  OBVIOUS
<1> DEFINE rows == j.rows \union Listed(j)
           next == IF j.here THEN [table EXCEPT !.start = j.index + 1] ELSE table
           rest == jobs \ {j}
<1>1. TableTyped /\ TableFits /\ PathIsUsed
  BY DEF TableInv
<1>2. j.what = "more" /\ UNCHANGED <<choice, misled, again, unsaid, looks>>
  BY DEF MoreAnswers
<1>3. PathIsUsed'
  BY <1>1, <1>2, PathKept DEF choice
<1>4. /\ j \in Awaited /\ Listed(j) \in SUBSET Row /\ Listed(j) # {}
  BY <1>1, ListedTyped
<1>5. /\ j.rows \in SUBSET Row /\ j.index \in Nat /\ j.here \in BOOLEAN /\ j.old \in BOOLEAN
      /\ j.chain \in Chains \union {NoChain} /\ upset \in BOOLEAN
  BY <1>1, <1>4 DEF Awaited, TableTyped
<1>6. /\ rest \in SUBSET Awaited /\ rows \in SUBSET Row /\ rows # {} /\ next \in TableState
      /\ next.rows = table.rows /\ (j.here => next.start = j.index + 1)
      /\ \A k \in rest: k \in jobs
  BY <1>1, <1>4, <1>5 DEF TableTyped, TableState
<1>7. CASE /\ jobs' = rest /\ link' = [link EXCEPT !.offer = j.chain]
           /\ UNCHANGED <<raw, table, upset>>
  <2>1. TableTyped'
    BY <1>1, <1>2, <1>5, <1>6, <1>7 DEF TableTyped, Link, choice
  <2>2. Mounted /\ ~upset' => RowsShown'
    BY <1>1, <1>2, <1>7 DEF TableFits, RowsShown, OfTheStandard, choice
  <2>3. TableFits'
    BY <1>1, <1>2, <1>7, <2>2, FitsStep DEF choice
  <2> QED
    BY <1>3, <2>1, <2>3 DEF TableInv
<1>8. CASE ~Mounted /\ raw' = rows /\ jobs' = rest /\ table' = next /\ link' = link
           /\ upset' = (upset \/ j.old)
  <2>1. TableTyped'
    BY <1>1, <1>2, <1>5, <1>6, <1>8 DEF TableTyped, choice
  <2>2. TableFits'
    BY <1>2, <1>8 DEF TableFits, Mounted, choice
  <2> QED
    BY <1>3, <2>1, <2>2 DEF TableInv
<1>9. CASE /\ Mounted /\ raw' = rows /\ Process(rows, field.chain, rest, next) /\ link' = link
           /\ upset' = (upset \/ j.old)
  <2>1. field.chain \in Chains
    BY <1>1, <1>9, TableParts DEF Mounted
  <2>2. Process(rows, field.chain, rest, next) /\ raw' = rows
    BY <1>9
  <2>3. rows = j.rows \union Listed(j) /\ rows # {}
    BY <1>6
  <2>4. rows \in SUBSET Row /\ rest \in SUBSET Awaited /\ next \in TableState
    BY <1>6
  <2> HIDE DEF rows, next, rest
  <2>5. /\ table' \in TableState /\ jobs' \in SUBSET Awaited /\ table'.start = next.start
    BY <1>1, <2>1, <2>2, <2>4, Processed
  <2>6. \A k \in jobs': k \in rest \/ k.what = "balances"
    BY <1>1, <2>1, <2>2, <2>4, Processed
  <2>7. /\ \E k \in jobs': k.what = "balances" /\ k.rows = rows
        /\ table'.rows = next.rows /\ table'.loading
    BY <1>1, <2>1, <2>2, <2>3, <2>4, Processed
  <2>8. /\ \A k \in jobs': k \in jobs \/ k.what = "balances"
        /\ \E k \in jobs': k.what = "balances" /\ k.rows = raw'
        /\ table'.rows = table.rows /\ table'.loading
    BY <1>6, <2>2, <2>7, <2>6
  <2>9. TableTyped'
    BY <1>1, <1>2, <1>5, <1>6, <1>9, <2>2, <2>5 DEF TableTyped, choice
  <2>10. ASSUME ~upset' PROVE TableFits'
    <3>1. ~upset /\ ~j.old /\ Mounted
      BY <1>5, <1>9, <2>10
    <3>2. (\A k \in jobs: JobFits(k)) /\ RowsListed /\ RowsShown
      BY <1>1, <3>1 DEF TableFits
    <3>3. /\ j.chain = field.chain /\ j.std = field.std /\ OfTheStandard(j.rows) /\ j.here
          /\ ~again => j.index > 0 /\ j.rows = FirstRows(j.index)
      BY <1>2, <3>1, <3>2 DEF JobFits
    <3>4. \A k \in jobs': JobFits(k)'
      <4>1. \A k: JobFits(k) => JobFits(k)'
        BY <1>2 DEF JobFits, FirstRows, OfTheStandard, choice
      <4>2. \A k: k.what = "balances" => JobFits(k)'
        BY DEF JobFits
      <4> QED
        BY <2>8, <3>2, <4>1, <4>2
    <3>5. RowsListed'
      <4>1. OfTheStandard(raw)'
        BY <1>2, <2>2, <2>3, <3>3 DEF OfTheStandard, Listed, choice
      <4>2. ~again' => raw' = FirstRows(table.start)'
        <5>1. SUFFICES ASSUME ~again PROVE raw' = FirstRows(table.start)'
          BY <1>2
        <5>2. table'.start = j.index + 1
          BY <1>6, <2>5, <3>3
        <5>3. FirstRows(table.start)' = FirstRows(j.index + 1)
          BY <1>2, <5>2 DEF FirstRows, choice
        <5>4. j.index \in Nat /\ j.index > 0 /\ j.rows = FirstRows(j.index)
          BY <1>5, <3>3, <5>1
        <5>5. FirstRows(j.index) \union {[chain |-> j.chain, std |-> j.std, index |-> j.index]}
                = FirstRows(j.index + 1)
          BY <3>3, <5>4, MoreRows
        <5> QED
          BY <2>2, <2>3, <5>3, <5>4, <5>5 DEF Listed
      <4>3. raw' # {}
        BY <1>6, <2>2
      <4> QED
        BY <2>8, <4>1, <4>2, <4>3 DEF RowsListed, FirstRows
    <3>6. RowsShown'
      BY <1>2, <2>8, <3>2 DEF RowsShown, OfTheStandard, choice
    <3> QED
      BY <3>4, <3>5, <3>6 DEF TableFits
  <2>11. TableFits'
    BY <2>10 DEF TableFits
  <2> QED
    BY <1>3, <2>9, <2>11 DEF TableInv
<1> QED
  BY <1>7, <1>8, <1>9 DEF MoreAnswers

(* A row is selected: its standard is that of the form. *)
LEMMA SelectRowInv == TableInv /\ SelectRow => TableInv'
<1> SUFFICES ASSUME TableInv, SelectRow PROVE TableInv'
  OBVIOUS
<1>1. TableTyped /\ TableFits /\ PathIsUsed
  BY DEF TableInv
<1>2. PICK r \in table.rows:
        /\ field' = [field EXCEPT !.index = r.index]
        /\ path' = PathOf(field.std, r.index)
        /\ misled' = (misled \/ (~upset /\ path' # [std |-> r.std, index |-> r.index]))
  BY DEF SelectRow
<1>3. /\ Mounted /\ ~table.loading /\ dialog' = FALSE /\ unsaid' = FALSE
      /\ UNCHANGED <<link, raw, table, jobs, upset, again>>
  BY DEF SelectRow, Usable
<1>4. r.index \in Nat
  BY <1>1, TableParts DEF Row
<1>5. /\ field' \in Field /\ field'.std = field.std /\ field'.chain = field.chain
      /\ field'.index = r.index
  BY <1>1, <1>2, <1>4 DEF TableTyped, Field
<1>6. ~upset => r.std = field.std
  BY <1>1, <1>3 DEF TableFits, RowsShown, OfTheStandard
<1>7. ~misled' /\ dialog' \in BOOLEAN /\ unsaid' \in BOOLEAN /\ misled' \in BOOLEAN
  <2>1. path' = [std |-> field.std, index |-> r.index]
    BY <1>2 DEF PathOf
  <2>2. ~misled'
    BY <1>1, <1>2, <1>6, <2>1 DEF PathIsUsed
  <2>3. misled' \in BOOLEAN
    BY <1>2
  <2> QED
    BY <1>3, <2>2, <2>3
<1>8. PathIsUsed'
  BY <1>2, <1>5, <1>7 DEF PathIsUsed, PathOf
<1>9. TableTyped'
  BY <1>1, <1>3, <1>5, <1>7 DEF TableTyped
<1>10. TableFits'
  <2>1. Mounted /\ ~upset' => RowsShown'
    BY <1>1, <1>3, <1>5 DEF TableFits, RowsShown, OfTheStandard
  <2> QED
    BY <1>1, <1>3, <1>5, <2>1, FitsStep
<1> QED
  BY <1>8, <1>9, <1>10 DEF TableInv

(* The fields behind the dialog: no chain is chosen any more, or nothing but the index. *)
LEMMA ChooseStandardInv == TableInv /\ ChooseStandard => TableInv'
<1> SUFFICES ASSUME TableInv, ChooseStandard PROVE TableInv'
  OBVIOUS
<1>1. TableTyped /\ PathIsUsed
  BY DEF TableInv
<1>2. PICK s \in Standards: /\ field' = [field EXCEPT !.std = s, !.chain = NoChain]
                            /\ path' = PathOf(s, field.index)
  BY DEF ChooseStandard
<1>3. /\ raw' = {} /\ table' = FreshTable /\ jobs' = Dropped
      /\ upset' = FALSE /\ again' = FALSE /\ unsaid' = FALSE
      /\ UNCHANGED <<dialog, link, misled>>
  BY DEF ChooseStandard
<1>4. /\ field' \in Field /\ field'.std = s /\ field'.index = field.index
      /\ field'.chain = NoChain
  BY <1>1, <1>2 DEF TableTyped, Field
<1>5. Dropped \in SUBSET Awaited
  <2>1. Outdated \in SUBSET Awaited
    BY <1>1 DEF Outdated, TableTyped, Awaited
  <2> QED
    BY <2>1 DEF Dropped, Awaited
<1>6. FreshTable \in TableState
  BY DEF FreshTable, TableState
<1>7. TableTyped'
  BY <1>1, <1>3, <1>4, <1>5, <1>6 DEF TableTyped
<1>8. TableFits'
  BY <1>4 DEF TableFits, Mounted
<1>9. PathIsUsed'
  BY <1>1, <1>2, <1>3, <1>4 DEF PathIsUsed, PathOf
<1> QED
  BY <1>7, <1>8, <1>9 DEF TableInv

(* The index is typed in. *)
LEMMA TypeIndexInv == TableInv /\ TypeIndex => TableInv'
<1> SUFFICES ASSUME TableInv, TypeIndex PROVE TableInv'
  OBVIOUS
<1>1. TableTyped /\ TableFits /\ PathIsUsed
  BY DEF TableInv
<1>2. PICK i \in 0 .. MaxIndex: /\ field' = [field EXCEPT !.index = i]
                                /\ path' = PathOf(field.std, i)
  BY DEF TypeIndex
<1>3. unsaid' = FALSE /\ UNCHANGED <<dialog, link, raw, table, jobs, misled, upset, again>>
  BY DEF TypeIndex
<1>4. /\ field' \in Field /\ field'.std = field.std /\ field'.chain = field.chain
      /\ field'.index = i
  BY <1>1, <1>2, TableAssumption DEF TableTyped, Field
<1>5. TableTyped'
  BY <1>1, <1>3, <1>4 DEF TableTyped
<1>6. TableFits'
  <2>1. Mounted /\ ~upset' => RowsShown'
    BY <1>1, <1>3, <1>4 DEF TableFits, RowsShown, OfTheStandard
  <2> QED
    BY <1>1, <1>3, <1>4, <2>1, FitsStep
<1>7. PathIsUsed'
  BY <1>1, <1>2, <1>3, <1>4 DEF PathIsUsed, PathOf
<1> QED
  BY <1>5, <1>6, <1>7 DEF TableInv

(* The box is ticked again. *)
LEMMA ResetStandardInv == TableInv /\ ResetStandard => TableInv'
<1> SUFFICES ASSUME TableInv, ResetStandard PROVE TableInv'
  OBVIOUS
<1>1. TableTyped /\ TableFits /\ PathIsUsed
  BY DEF TableInv
<1>2. /\ field' = [field EXCEPT !.std = "bip44"]
      /\ upset' = (upset \/ field.std # "bip44") /\ unsaid' = (unsaid \/ field.std # "bip44")
      /\ UNCHANGED <<dialog, path, link, raw, table, jobs, misled, again>>
  BY DEF ResetStandard
<1>3. /\ field' \in Field /\ field'.std = "bip44" /\ field'.chain = field.chain
      /\ field'.index = field.index /\ upset' \in BOOLEAN /\ unsaid' \in BOOLEAN
  BY <1>1, <1>2 DEF TableTyped, Field, Standards
<1>4. TableTyped'
  BY <1>1, <1>2, <1>3 DEF TableTyped
<1>5. TableFits'
  <2>1. CASE field.std = "bip44"
    <3>1. ~upset' => ~upset
      BY <1>2
    <3>2. Mounted /\ ~upset' => RowsShown'
      BY <1>1, <1>2, <1>3, <2>1, <3>1 DEF TableFits, RowsShown, OfTheStandard
    <3> QED
      BY <1>1, <1>2, <1>3, <2>1, <3>1, <3>2, FitsStep
  <2>2. CASE field.std # "bip44"
    BY <1>2, <2>2 DEF TableFits
  <2> QED
    BY <2>1, <2>2
<1>6. PathIsUsed'
  BY <1>1, <1>2, <1>3 DEF PathIsUsed, TableTyped
<1> QED
  BY <1>4, <1>5, <1>6 DEF TableInv

(* The form is replaced. *)
LEMMA RemountFormInv == \A same \in BOOLEAN: TableInv /\ RemountForm(same) => TableInv'
<1> SUFFICES ASSUME TableInv, NEW same \in BOOLEAN, RemountForm(same) PROVE TableInv'
  OBVIOUS
<1>1. TableTyped /\ PathIsUsed
  BY DEF TableInv
<1>2. /\ dialog' = FALSE /\ path' = PathOf("bip44", 0)
      /\ field' = IF same THEN [field EXCEPT !.chain = NoChain] ELSE FreshField
      /\ unsaid' = (path' # PathOf(field'.std, field'.index))
      /\ link' = [link EXCEPT !.connected = FALSE]
      /\ raw' = {} /\ table' = FreshTable /\ jobs' = {j \in jobs: j.what = "check"}
      /\ upset' = FALSE /\ again' = FALSE /\ misled' = misled
  BY DEF RemountForm
<1>3. field' \in Field /\ field'.chain = NoChain
  BY <1>1, <1>2 DEF TableTyped, Field, FreshField, Standards
<1>4. FreshTable \in TableState
  BY DEF FreshTable, TableState
<1>5. link' \in Link
  BY <1>1, <1>2 DEF TableTyped, Link
<1>6. TableTyped'
  BY <1>1, <1>2, <1>3, <1>4, <1>5 DEF TableTyped
<1>7. TableFits'
  BY <1>3 DEF TableFits, Mounted
<1>8. PathIsUsed'
  BY <1>1, <1>2 DEF PathIsUsed, PathOf
<1> QED
  BY <1>6, <1>7, <1>8 DEF TableInv

(* Nothing has been chosen or listed at first. *)
LEMMA InitTable == TableInit => TableInv
<1> SUFFICES ASSUME TableInit PROVE TableInv
  OBVIOUS
<1>1. field \in Field /\ field.chain = NoChain /\ table \in TableState /\ link \in Link
  BY DEF TableInit, FreshField, FreshTable, Field, TableState, Link, Standards
<1>2. TableTyped
  BY <1>1 DEF TableInit, TableTyped
<1>3. TableFits
  BY <1>1 DEF TableFits, Mounted
<1>4. PathIsUsed
  BY DEF TableInit, FreshField, PathIsUsed, PathOf
<1> QED
  BY <1>2, <1>3, <1>4 DEF TableInv

(* A step that is not about the table. *)
LEMMA TableKept == TableInv /\ UNCHANGED tableVars => TableInv'
<1> SUFFICES ASSUME TableInv, UNCHANGED tableVars PROVE TableInv'
  OBVIOUS
<1>1. TableTyped'
  BY DEF TableInv, TableTyped, tableVars
<1>2. PathIsUsed'
  BY DEF TableInv, PathIsUsed, tableVars
<1>3. TableFits'
  <2>1. Mounted /\ ~upset' => RowsShown'
    BY DEF TableInv, TableFits, RowsShown, OfTheStandard, tableVars
  <2>2. TableFits
    BY DEF TableInv
  <2> QED
    BY <2>1, <2>2, FitsStep DEF tableVars
<1> QED
  BY <1>1, <1>2, <1>3 DEF TableInv

(* Whatever is answered, ... *)
LEMMA TableAnswersInv == TableInv /\ TableAnswers => TableInv'
BY LedgerCheckedInv, ListAnswersInv, BalancesAnswerInv, AskMoreInv, MoreAnswersInv
   DEF TableAnswers

(* ... and whatever is clicked. *)
LEMMA TableClicksInv == TableInv /\ TableClicks => TableInv'
BY DialogInv, ClickConnectInv, ClickMoreInv, SelectRowInv, ChooseChainInv,
   ChooseStandardInv, TypeIndexInv
   DEF TableClicks

(* Every step of the page. *)
LEMMA TableStep == TableInv /\ [CreationNext]_allVars => TableInv'
<1> SUFFICES ASSUME TableInv, [CreationNext]_allVars PROVE TableInv'
  OBVIOUS
<1>1. CASE FormLeft \/ FormReplaced
  BY <1>1, RemountFormInv DEF FormLeft, FormReplaced
<1>2. CASE BoxTicked
  <2>1. ResetStandard \/ UNCHANGED tableVars
    BY <1>2 DEF BoxTicked
  <2> QED
    BY <2>1, ResetStandardInv, TableKept
<1>3. CASE UNCHANGED tableVars
  BY <1>3, TableKept
<1>4. CASE TableAnswers \/ TableClicks
  BY <1>4, TableAnswersInv, TableClicksInv
<1>5. CASE UNCHANGED allVars
  BY <1>5, TableKept DEF allVars
<1> QED
  BY <1>1, <1>2, <1>3, <1>4, <1>5 DEF CreationNext

(* The invariant of the table. *)
LEMMA TableAlways == CreationSpec => []TableInv
<1>1. CreationInit => TableInv
  BY InitTable DEF CreationInit
<1> QED
  BY <1>1, TableStep, PTL DEF CreationSpec

(* OffersTheChosen: when nothing is awaited, the table of the Ledger's addresses
   offers those of the chain and the standard of the form, none left out. *)
THEOREM TableOffersTheChosen == CreationSpec => []OffersTheChosen
<1>1. TableInv => OffersTheChosen
  <2> SUFFICES ASSUME TableInv, jobs = {}, raw # {}, Mounted, ~upset, ~again
               PROVE  /\ table.rows = raw
                      /\ raw = {[chain |-> field.chain, std |-> field.std, index |-> i]:
                                  i \in 0 .. table.start - 1}
    BY DEF OffersTheChosen
  <2>1. RowsListed
    BY DEF TableInv, TableFits
  <2> QED
    BY <2>1 DEF RowsListed, FirstRows
<1> QED
  BY <1>1, TableAlways, PTL

(* PathIsUsed: the paths shown are those the wallet will be created with, and those
   of the row selected. *)
THEOREM ShownPathIsUsed == CreationSpec => []PathIsUsed
<1>1. TableInv => PathIsUsed
  BY DEF TableInv
<1> QED
  BY <1>1, TableAlways, PTL

-----------------------------------------------------------------------------
(* The wallets the pages build. *)
HandlerSteps == {"idle"} \union CroSteps \union CoreSteps \union EthSteps \union StoreSteps

Handler ==
  [at: HandlerSteps, here: BOOLEAN, page: BOOLEAN, config: {Nothing, "tested"},
   wallet: Nat \union {Nothing}, late: BOOLEAN]

PageState ==
  [custom: BOOLEAN, connected: BOOLEAN, config: {Nothing, "tested"},
   node: {"idle", "checking", "live", "dead"}, name: BOOLEAN, kind: WalletKinds,
   net: {"listed", "custom"}, locked: BOOLEAN, wallet: Nat \union {Nothing},
   password: BOOLEAN, going: BOOLEAN]

FormState ==
  [loading: BOOLEAN, forgotten: BOOLEAN, dialogs: SUBSET Dialogs, connecting: BOOLEAN,
   croOk: BOOLEAN, ethOk: BOOLEAN, wallet: Nat \union {Nothing}]

PagesTyped ==
  /\ page \in PageState /\ form \in FormState /\ task \in [Tasks -> Handler]
  /\ Created \in Nat /\ DOMAIN made = 1 .. Created

(* A wallet that may be stored; StoredAsAnnounced says it of those that are. *)
Storable(w) ==
  /\ w \in saved
  /\ \/ w \in told /\ made[w].config # "default"
     \/ w \in strays /\ made[w].kind = "ledger"

WalletsFit ==
  /\ saved \subseteq DOMAIN made /\ strays \subseteq saved
  /\ \A w \in stored: Storable(w)

(* The custom network is that of a node that has answered once its form is shown. *)
PageFits ==
  /\ page.net = "custom" => page.custom
  /\ page.connected => page.config = "tested"
  /\ page.node # "idle" => ~FormShown
  /\ page.node = "live" => page.config = "tested"
  /\ page.wallet # Nothing => Storable(page.wallet)

(* The form has built the wallet it tells of, and it is the one left for the backup,
   unless a form that was gone has left another. *)
FormFits ==
  /\ place \notin {"create", "restore"} => form.dialogs \subseteq {"error"}
  /\ "cro" \in form.dialogs => FormShown
  /\ "success" \in form.dialogs => form.wallet # Nothing
  /\ form.wallet # Nothing =>
       /\ form.wallet \in saved /\ made[form.wallet].config # "default"
       /\ temp = form.wallet \/ temp \in strays

(* A handler of the form that is there has the configuration of the page. *)
HandlerFits(k) ==
  /\ k.here => place \in {"create", "restore"} \/ k.at = "storeAndForget"
  /\ k.at \in CroSteps /\ k.here => FormShown /\ k.config = page.config
  /\ k.at \in CoreSteps =>
       k.wallet \in DOMAIN made /\ (k.here => made[k.wallet].config # "default")
  /\ k.at = "restore" => k.wallet \in DOMAIN made /\ made[k.wallet].config # "default"
  /\ k.at \in {"store", "storeAndForget"} => Storable(k.wallet)

HandlersFit == \A t \in Tasks: HandlerFits(task[t])

PagesInv == PagesTyped /\ WalletsFit /\ PageFits /\ FormFits /\ HandlersFit

(* What the wallets are said to have been never changes. *)
Grows ==
  /\ \A w \in DOMAIN made: w \in DOMAIN made' /\ made'[w] = made[w]
  /\ saved \subseteq saved' /\ told \subseteq told' /\ strays \subseteq strays'

(* The page stays, and so does the configuration of a form that is shown. *)
SamePage ==
  /\ place' = place
  /\ FormShown => FormShown' /\ page'.config = page.config

(* A wallet that may be stored stays one. *)
LEMMA StorableKept ==
  ASSUME WalletsFit, Grows, NEW w, Storable(w)
  PROVE  Storable(w)'
BY DEF WalletsFit, Grows, Storable

(* A step that builds, stores and tells of nothing. *)
LEMMA StoresKept ==
  ASSUME WalletsFit, UNCHANGED <<made, saved, stored, told, strays>>
  PROVE  Grows /\ WalletsFit'
<1>1. Grows
  BY DEF Grows
<1>2. \A w \in stored': Storable(w)'
  BY <1>1, StorableKept DEF WalletsFit
<1> QED
  BY <1>1, <1>2 DEF WalletsFit

(* What is said of a handler stays true while its page stays, ... *)
LEMMA HandlerKept ==
  ASSUME WalletsFit, Grows, SamePage, NEW k, HandlerFits(k)
  PROVE  HandlerFits(k)'
<1>1. \A w: Storable(w) => Storable(w)'
  BY StorableKept
<1>2. \A w \in DOMAIN made: w \in DOMAIN made' /\ made'[w] = made[w]
  BY DEF Grows
<1> HIDE DEF Grows
<1> QED
  BY <1>1, <1>2 DEF HandlerFits, SamePage

(* ... and when it is left. *)
LEMMA LeftFits ==
  ASSUME WalletsFit, Grows, NEW k \in Handler, HandlerFits(k), NEW same \in BOOLEAN
  PROVE  \E l \in Handler: l = Left(k, same) /\ HandlerFits(l)'
<1>1. \A w: Storable(w) => Storable(w)'
  BY StorableKept
<1>2. \A w \in DOMAIN made: w \in DOMAIN made' /\ made'[w] = made[w]
  BY DEF Grows
<1>3. CASE Left(k, same) = Idle
  <2>1. Idle \in Handler
    BY DEF Idle, Handler, HandlerSteps
  <2>2. \A l: l = Idle => HandlerFits(l)'
    BY DEF HandlerFits, Idle, CroSteps, CoreSteps
  <2> QED
    BY <1>3, <2>1, <2>2
<1>4. CASE Left(k, same) = [k EXCEPT !.here = FALSE, !.page = same /\ k.page]
  <2> DEFINE l == [k EXCEPT !.here = FALSE, !.page = same /\ k.page]
  <2>1. l \in Handler /\ ~l.here /\ l.at = k.at /\ l.wallet = k.wallet
    BY DEF Handler
  <2> HIDE DEF l
  <2>2. \A m: m = l => HandlerFits(m)'
    BY <1>1, <1>2, <2>1 DEF HandlerFits
  <2>3. Left(k, same) = l
    BY <1>4 DEF l
  <2> QED
    BY <2>1, <2>2, <2>3
<1> QED
  BY <1>3, <1>4 DEF Left

(* It is enough to look at each handler. *)
LEMMA HandlersAll ==
  ASSUME \A t \in Tasks: \E k: task'[t] = k /\ HandlerFits(k)'
  PROVE  HandlersFit'
<1> SUFFICES ASSUME NEW t \in Tasks PROVE HandlerFits(task[t])'
  BY DEF HandlersFit
<1>1. PICK k: task'[t] = k /\ HandlerFits(k)'
  OBVIOUS
<1> QED
  BY <1>1 DEF HandlerFits, Storable, FormShown

(* Every handler of the page is left. *)
LEMMA AllLeft ==
  ASSUME PagesTyped, WalletsFit, HandlersFit, Grows, NEW same \in BOOLEAN,
         task' = [t \in Tasks |-> Left(task[t], same)]
  PROVE  task' \in [Tasks -> Handler] /\ HandlersFit'
<1>1. \A t \in Tasks: task[t] \in Handler /\ HandlerFits(task[t])
  BY DEF PagesTyped, HandlersFit
<1>2. \A t \in Tasks: \E l \in Handler: l = Left(task[t], same) /\ HandlerFits(l)'
  BY <1>1, LeftFits
<1>3. HandlersFit'
  BY <1>2, HandlersAll
<1> QED
  BY <1>2, <1>3

(* No handler starts or ends. *)
LEMMA HandlersKept ==
  ASSUME WalletsFit, HandlersFit, Grows, SamePage, task' = task
  PROVE  HandlersFit'
<1>1. \A t \in Tasks: HandlerFits(task[t])
  BY DEF HandlersFit
<1>2. \A k: HandlerFits(k) => HandlerFits(k)'
  BY HandlerKept
<1> QED
  BY <1>1, <1>2, HandlersAll

(* One handler starts, or takes a step. *)
LEMMA OneHandler ==
  ASSUME PagesTyped, WalletsFit, HandlersFit, Grows, SamePage, NEW k \in Handler,
         HandlerFits(k)', NEW t, task' = [task EXCEPT ![t] = k]
  PROVE  task' \in [Tasks -> Handler] /\ HandlersFit'
<1>1. \A u \in Tasks: task[u] \in Handler /\ HandlerFits(task[u])
  BY DEF PagesTyped, HandlersFit
<1>2. \A u \in Tasks: task'[u] = task[u] \/ task'[u] = k
  BY DEF PagesTyped
<1>3. \A l: HandlerFits(l) => HandlerFits(l)'
  BY HandlerKept
<1>4. HandlersFit'
  BY <1>1, <1>2, <1>3, HandlersAll
<1>5. task' \in [Tasks -> Handler]
  BY DEF PagesTyped
<1> QED
  BY <1>4, <1>5

(* A page that changes nothing. *)
LEMMA PageKept ==
  ASSUME WalletsFit, PageFits, Grows, page' = page
  PROVE  PageFits'
<1>1. \A w: Storable(w) => Storable(w)'
  BY StorableKept
<1> QED
  BY <1>1 DEF PageFits, FormShown

(* The form opens no dialog. *)
LEMMA FormKept ==
  ASSUME WalletsFit, FormFits, Grows, SamePage, form'.wallet = form.wallet, temp' = temp,
         form'.dialogs \subseteq form.dialogs
  PROVE  FormFits'
<1>1. \A w \in saved: w \in saved' /\ made'[w] = made[w]
  BY DEF WalletsFit, Grows
<1>2. temp \in strays => temp' \in strays'
  BY DEF Grows
<1> QED
  BY <1>1, <1>2 DEF FormFits, SamePage

(* A form that is new tells of nothing. *)
LEMMA FreshFits == form' = FreshForm => FormFits' /\ form' \in FormState
BY DEF FreshForm, FormFits, FormState, Dialogs

-----------------------------------------------------------------------------
(* The part of PageFits that is about the node. *)
NodeFits ==
  /\ page.net = "custom" => page.custom
  /\ page.connected => page.config = "tested"
  /\ page.node # "idle" => ~FormShown
  /\ page.node = "live" => page.config = "tested"

(* A page that changes, with what it says of the wallet, its form and its node kept. *)
LEMMA PageEdited ==
  ASSUME PagesInv, UNCHANGED <<place, form, task, temp, made, stores, history>>,
         page' \in PageState, page'.wallet = page.wallet, NodeFits',
         FormShown => FormShown' /\ page'.config = page.config
  PROVE  PagesInv'
<1>1. PagesTyped /\ WalletsFit /\ PageFits /\ FormFits /\ HandlersFit
  BY DEF PagesInv
<1>2. UNCHANGED <<place, form, task, temp, made, saved, stored, told, strays>>
  BY DEF stores, history
<1>3. SamePage
  BY <1>2 DEF SamePage
<1>4. Grows /\ WalletsFit'
  BY <1>1, <1>2, StoresKept
<1>5. PagesTyped'
  BY <1>1, <1>2 DEF PagesTyped, Created
<1>6. PageFits'
  <2>1. page.wallet # Nothing => Storable(page.wallet)
    BY <1>1 DEF PageFits
  <2>2. \A w: Storable(w) => Storable(w)'
    BY <1>1, <1>4, StorableKept
  <2>3. page'.wallet # Nothing => Storable(page.wallet)'
    BY <1>2, <2>1 DEF Storable
  <2> QED
    BY <2>3 DEF PageFits, NodeFits, FormShown
<1>7. FormFits'
  BY <1>1, <1>2, <1>3, <1>4, FormKept
<1>8. HandlersFit'
  BY <1>1, <1>2, <1>3, <1>4, HandlersKept
<1> QED
  BY <1>4, <1>5, <1>6, <1>7, <1>8 DEF PagesInv

(* The fields of the form: the custom network is not chosen so. *)
LEMMA FieldsInv ==
  PagesInv /\ (TypeName \/ TickLedger \/ ChooseListed \/ AskPassword \/ CancelPassword)
    => PagesInv'
<1> SUFFICES ASSUME PagesInv,
                    TypeName \/ TickLedger \/ ChooseListed \/ AskPassword \/ CancelPassword
             PROVE  PagesInv'
  OBVIOUS
<1>1. page \in PageState /\ NodeFits
  BY DEF PagesInv, PagesTyped, PageFits, NodeFits
<1>2. UNCHANGED <<place, form, task, temp, made, stores, history>>
  BY DEF TypeName, TickLedger, ChooseListed, AskPassword, CancelPassword
<1>3. /\ page' \in PageState /\ page'.wallet = page.wallet
      /\ page'.custom = page.custom /\ page'.connected = page.connected
      /\ page'.config = page.config /\ page'.node = page.node
      /\ page'.net = page.net \/ page'.net = "listed"
  <2>1. CASE TypeName
    BY <1>1, <2>1 DEF TypeName, PageState
  <2>2. CASE TickLedger
    <3>1. PICK k \in WalletKinds: page' = [page EXCEPT !.kind = k]
      BY <2>2 DEF TickLedger
    <3> QED
      BY <1>1, <3>1 DEF PageState
  <2>3. CASE ChooseListed
    BY <1>1, <2>3 DEF ChooseListed, PageState
  <2>4. CASE AskPassword
    BY <1>1, <2>4 DEF AskPassword, PageState
  <2>5. CASE CancelPassword
    BY <1>1, <2>5 DEF CancelPassword, PageState
  <2> QED
    BY <2>1, <2>2, <2>3, <2>4, <2>5
<1>4. NodeFits' /\ (FormShown => FormShown' /\ page'.config = page.config)
  BY <1>1, <1>3 DEF NodeFits, FormShown
<1> QED
  BY <1>2, <1>3, <1>4, PageEdited

(* The form of the custom network's node: the form of the wallet is not shown. *)
LEMMA NodeInv ==
  PagesInv /\ (AskNode \/ NodeAnswers \/ CloseNode \/ Continue \/ RestoreNode) => PagesInv'
<1> SUFFICES ASSUME PagesInv, AskNode \/ NodeAnswers \/ CloseNode \/ Continue \/ RestoreNode
             PROVE  PagesInv'
  OBVIOUS
<1>1. page \in PageState /\ NodeFits
  BY DEF PagesInv, PagesTyped, PageFits, NodeFits
<1>2. UNCHANGED <<place, form, task, temp, made, stores, history>>
  BY DEF AskNode, NodeAnswers, CloseNode, Continue, RestoreNode
<1>3. /\ ~FormShown
      /\ \/ \E n \in {"idle", "checking", "dead"}: page' = [page EXCEPT !.node = n]
         \/ page' = [page EXCEPT !.node = "live", !.config = "tested"]
         \/ page.node = "live" /\ page' = [page EXCEPT !.node = "idle", !.connected = TRUE]
  <2>1. CASE AskNode
    BY <2>1 DEF AskNode
  <2>2. CASE NodeAnswers
    BY <1>1, <2>2 DEF NodeAnswers, NodeFits
  <2>3. CASE CloseNode
    BY <1>1, <2>3 DEF CloseNode, NodeFits
  <2>4. CASE Continue
    BY <1>1, <2>4 DEF Continue, NodeFits
  <2>5. CASE RestoreNode
    BY <2>5 DEF RestoreNode
  <2> QED
    BY <2>1, <2>2, <2>3, <2>4, <2>5
<1>4. page' \in PageState /\ page'.wallet = page.wallet /\ NodeFits'
  <2>1. ASSUME NEW n \in {"idle", "checking", "dead"}, page' = [page EXCEPT !.node = n]
        PROVE  page' \in PageState /\ page'.wallet = page.wallet /\ NodeFits'
    BY <1>1, <1>3, <2>1 DEF PageState, NodeFits, FormShown
  <2>2. CASE page' = [page EXCEPT !.node = "live", !.config = "tested"]
    BY <1>1, <1>3, <2>2 DEF PageState, NodeFits, FormShown
  <2>3. CASE page.node = "live" /\ page' = [page EXCEPT !.node = "idle", !.connected = TRUE]
    BY <1>1, <1>3, <2>3 DEF PageState, NodeFits, FormShown
  <2> QED
    BY <1>3, <2>1, <2>2, <2>3
<1> QED
  BY <1>2, <1>3, <1>4, PageEdited

(* The form changes, and opens no dialog. *)
LEMMA FormEdited ==
  ASSUME PagesInv, UNCHANGED <<place, page, temp, made, stores, history>>,
         form' \in FormState, form'.wallet = form.wallet,
         form'.dialogs \subseteq form.dialogs,
         task' \in [Tasks -> Handler], HandlersFit'
  PROVE  PagesInv'
<1>1. PagesTyped /\ WalletsFit /\ PageFits /\ FormFits
  BY DEF PagesInv
<1>2. UNCHANGED <<place, page, temp, made, saved, stored, told, strays>>
  BY DEF stores, history
<1>3. SamePage
  BY <1>2 DEF SamePage, FormShown
<1>4. Grows /\ WalletsFit'
  BY <1>1, <1>2, StoresKept
<1>5. PagesTyped'
  BY <1>1, <1>2 DEF PagesTyped, Created
<1>6. PageFits'
  BY <1>1, <1>2, <1>4, PageKept
<1>7. FormFits'
  BY <1>1, <1>2, <1>3, <1>4, FormKept
<1> QED
  BY <1>4, <1>5, <1>6, <1>7 DEF PagesInv

(* A dialog is closed by its user. *)
LEMMA CloseInv == PagesInv /\ (CloseDialog \/ CloseEth) => PagesInv'
<1> SUFFICES ASSUME PagesInv, CloseDialog \/ CloseEth PROVE PagesInv'
  OBVIOUS
<1>1. form \in FormState /\ task \in [Tasks -> Handler] /\ WalletsFit /\ HandlersFit
  BY DEF PagesInv, PagesTyped
<1>2. UNCHANGED <<place, page, task, temp, made, stores, history>>
  BY DEF CloseDialog, CloseEth
<1>3. PICK d: form' = [form EXCEPT !.dialogs = @ \ {d}]
  BY DEF CloseDialog, CloseEth
<1>4. /\ form' \in FormState /\ form'.wallet = form.wallet
      /\ form'.dialogs \subseteq form.dialogs
  BY <1>1, <1>3 DEF FormState
<1>5. Grows /\ SamePage
  BY <1>1, <1>2, StoresKept DEF SamePage, FormShown, stores, history
<1>6. HandlersFit'
  BY <1>1, <1>2, <1>5, HandlersKept
<1> QED
  BY <1>1, <1>2, <1>4, <1>6, FormEdited

(* Another page is opened. *)
LEMMA Opened ==
  ASSUME PagesInv, UNCHANGED <<temp, made, stores, told, strays>>,
         page' = FreshPage, form' = FreshForm,
         task' \in [Tasks -> Handler], HandlersFit'
  PROVE  PagesInv'
<1>1. PagesTyped /\ WalletsFit
  BY DEF PagesInv
<1>2. Grows /\ WalletsFit'
  BY <1>1, StoresKept DEF stores
<1>3. FormFits' /\ form' \in FormState
  BY FreshFits
<1>4. page' \in PageState
  BY DEF FreshPage, PageState, WalletKinds
<1>5. PageFits'
  BY DEF FreshPage, PageFits
<1>6. PagesTyped'
  BY <1>1, <1>3, <1>4 DEF PagesTyped, Created
<1> QED
  BY <1>2, <1>3, <1>5, <1>6 DEF PagesInv

(* From a page other than those with a form: no handler has a form. *)
LEMMA HandlersAway ==
  ASSUME WalletsFit, HandlersFit, Grows, place \notin {"create", "restore"}, task' = task
  PROVE  HandlersFit'
<1>1. ASSUME NEW k, HandlerFits(k) PROVE HandlerFits(k)'
  <2>1. k.here => k.at = "storeAndForget"
    BY <1>1 DEF HandlerFits
  <2>2. \A w: Storable(w) => Storable(w)'
    BY StorableKept
  <2>3. \A w \in DOMAIN made: w \in DOMAIN made' /\ made'[w] = made[w]
    BY DEF Grows
  <2>4. "storeAndForget" \notin CroSteps /\ "storeAndForget" \notin CoreSteps
    BY DEF CroSteps, CoreSteps
  <2> QED
    BY <1>1, <2>1, <2>2, <2>3, <2>4 DEF HandlerFits
<1>2. \A t \in Tasks: HandlerFits(task[t])
  BY DEF HandlersFit
<1> QED
  BY <1>1, <1>2, HandlersAll

(* A page is opened from the others, or from the backup that has found no wallet. *)
LEMMA OpenInv ==
  PagesInv /\ ((\E p \in {"create", "restore"}: Open(p)) \/ BackToCreate) => PagesInv'
<1> SUFFICES ASSUME PagesInv, (\E p \in {"create", "restore"}: Open(p)) \/ BackToCreate
             PROVE  PagesInv'
  OBVIOUS
<1>1. PagesTyped /\ WalletsFit /\ HandlersFit
  BY DEF PagesInv
<1>2. /\ page' = FreshPage /\ form' = FreshForm /\ task' = task
      /\ UNCHANGED <<temp, made, stores, told, strays>>
      /\ place \in {"lobby", "backup"}
  BY DEF Open, BackToCreate, Leave, history
<1>3. Grows
  BY <1>1, <1>2, StoresKept DEF stores
<1>4. HandlersFit' /\ task' \in [Tasks -> Handler]
  BY <1>1, <1>2, <1>3, HandlersAway DEF PagesTyped
<1> QED
  BY <1>2, <1>4, Opened

(* The page is left, and with it its handlers. *)
LEMMA BackInv == PagesInv /\ Back => PagesInv'
<1> SUFFICES ASSUME PagesInv, Back PROVE PagesInv'
  OBVIOUS
<1>1. PagesTyped /\ WalletsFit /\ HandlersFit
  BY DEF PagesInv
<1>2. /\ page' = FreshPage /\ form' = FreshForm
      /\ task' = [t \in Tasks |-> Left(task[t], FALSE)]
      /\ UNCHANGED <<temp, made, stores, told, strays>>
  BY DEF Back, Leave, history
<1>3. Grows
  BY <1>1, <1>2, StoresKept DEF stores
<1>4. HandlersFit' /\ task' \in [Tasks -> Handler]
  BY <1>1, <1>2, <1>3, AllLeft
<1> QED
  BY <1>2, <1>4, Opened

(* The form is replaced by the one for the node of the custom network. *)
LEMMA ChooseCustomInv == PagesInv /\ ChooseCustom => PagesInv'
<1> SUFFICES ASSUME PagesInv, ChooseCustom PROVE PagesInv'
  OBVIOUS
<1>1. PagesTyped /\ WalletsFit /\ HandlersFit /\ PageFits
  BY DEF PagesInv
<1>2. /\ page' = [page EXCEPT !.net = "custom", !.custom = TRUE, !.connected = FALSE]
      /\ form' = FreshForm
      /\ task' = [t \in Tasks |-> Left(task[t], TRUE)]
      /\ UNCHANGED <<place, temp, made, saved, stored, told, strays>>
  BY DEF ChooseCustom, stores, history
<1>3. Grows /\ WalletsFit'
  BY <1>1, <1>2, StoresKept
<1>4. HandlersFit' /\ task' \in [Tasks -> Handler]
  BY <1>1, <1>2, <1>3, AllLeft
<1>5. FormFits' /\ form' \in FormState
  BY <1>2, FreshFits
<1>6. /\ page' \in PageState /\ page'.custom /\ ~page'.connected
      /\ page'.config = page.config /\ page'.node = page.node /\ page'.wallet = page.wallet
  BY <1>1, <1>2 DEF PagesTyped, PageState
<1>7. PagesTyped'
  BY <1>1, <1>2, <1>4, <1>5, <1>6 DEF PagesTyped, Created
<1>8. PageFits'
  <2>1. page'.wallet # Nothing => Storable(page.wallet)'
    BY <1>1, <1>2, <1>6 DEF PageFits, Storable
  <2> QED
    BY <1>1, <1>6, <2>1 DEF PageFits, FormShown
<1> QED
  BY <1>3, <1>4, <1>5, <1>7, <1>8 DEF PagesInv

-----------------------------------------------------------------------------
(* A wallet is built: the one after those built before. *)
LEMMA Built ==
  ASSUME PagesTyped, NEW kind, NEW config, Build(kind, config)
  PROVE  /\ Created \in Nat /\ Created' \in Nat /\ DOMAIN made' = 1 .. Created'
         /\ \A w \in DOMAIN made: w \in DOMAIN made' /\ made'[w] = made[w]
         /\ Created + 1 \in DOMAIN made'
         /\ made'[Created + 1] = [kind |-> kind, config |-> config]
<1>1. Created \in Nat /\ DOMAIN made = 1 .. Created
  BY DEF PagesTyped
<1>2. DOMAIN made' = 1 .. Created + 1
  BY DEF Build
<1>3. Created' = Created + 1
  <2>1. Cardinality(1 .. Created + 1) = Created + 1
    BY <1>1, FS_Interval
  <2> QED
    BY <1>2, <2>1 DEF Created
<1>4. Created + 1 \in 1 .. Created + 1 /\ \A w \in 1 .. Created: w \in 1 .. Created + 1
  BY <1>1
<1> HIDE DEF Created
<1>5. \A w \in 1 .. Created: w <= Created
  BY <1>1
<1>6. ~(Created + 1 <= Created)
  BY <1>1
<1>7. made' = [w \in 1 .. Created + 1 |->
                IF w <= Created THEN made[w] ELSE [kind |-> kind, config |-> config]]
  BY DEF Build
<1>8. \A w \in DOMAIN made: w \in DOMAIN made' /\ made'[w] = made[w]
  BY <1>1, <1>4, <1>5, <1>7
<1>9. made'[Created + 1] = [kind |-> kind, config |-> config]
  BY <1>4, <1>6, <1>7
<1> QED
  BY <1>1, <1>2, <1>3, <1>4, <1>8, <1>9

(* The configuration of a form that is shown is never the placeholder. *)
LEMMA SelectedConfig ==
  ASSUME PagesTyped, PageFits, FormShown
  PROVE  Selected(page.net, page.config) # "default"
BY CreationAssumption DEF PagesTyped, PageState, PageFits, FormShown, Selected

(* A step of a handler or of its form, in which nothing is finished or stored. *)
LEMMA FormStepped ==
  ASSUME PagesInv, UNCHANGED <<place, page, temp, stores, history>>, Grows,
         Created' \in Nat, DOMAIN made' = 1 .. Created',
         form' \in FormState, FormFits', task' \in [Tasks -> Handler], HandlersFit'
  PROVE  PagesInv'
<1>1. PagesTyped /\ WalletsFit /\ PageFits
  BY DEF PagesInv
<1>2. UNCHANGED <<place, page, temp, saved, stored, told, strays>>
  BY DEF stores, history
<1>3. WalletsFit'
  <2>1. saved' \subseteq DOMAIN made'
    BY <1>1, <1>2 DEF WalletsFit, Grows
  <2>2. \A w \in stored': Storable(w)'
    BY <1>1, <1>2, StorableKept DEF WalletsFit
  <2> QED
    BY <1>1, <1>2, <2>1, <2>2 DEF WalletsFit
<1>4. PageFits'
  BY <1>1, <1>2, PageKept
<1>5. PagesTyped'
  BY <1>1, <1>2 DEF PagesTyped
<1> QED
  BY <1>3, <1>4, <1>5 DEF PagesInv

(* A form that is there opens a dialog. *)
LEMMA FormOpens ==
  ASSUME WalletsFit, FormFits, Grows, SamePage, place \in {"create", "restore"},
         form'.wallet = form.wallet, temp' = temp,
         form'.dialogs \subseteq form.dialogs \union {"cro", "eth", "error"},
         "cro" \in form'.dialogs => FormShown
  PROVE  FormFits'
<1>1. \A w \in saved: w \in saved' /\ made'[w] = made[w]
  BY DEF WalletsFit, Grows
<1>2. temp \in strays => temp' \in strays'
  BY DEF Grows
<1> QED
  BY <1>1, <1>2 DEF FormFits, SamePage

(* A handler that has not started. *)
LEMMA IdleFits ==
  /\ Idle \in Handler
  /\ \A k: k = Idle => HandlerFits(k)
  /\ \A k: k = Idle => HandlerFits(k)'
<1>1. Idle \in Handler
  BY DEF Idle, Handler, HandlerSteps
<1>2. \A k: k = Idle => HandlerFits(k)
  BY DEF HandlerFits, Idle, CroSteps, CoreSteps
<1>3. \A k: k = Idle => HandlerFits(k)'
  BY DEF HandlerFits, Idle, CroSteps, CoreSteps
<1> QED
  BY <1>1, <1>2, <1>3

(* A handler as it starts. *)
LEMMA HereTyped ==
  ASSUME PagesTyped, NEW step \in HandlerSteps
  PROVE  /\ Here(step) \in Handler /\ Here(step).at = step /\ Here(step).here
         /\ Here(step).page /\ Here(step).config = page.config
<1>1. page.config \in {Nothing, "tested"}
  BY DEF PagesTyped, PageState
<1> QED
  BY <1>1 DEF Here, Idle, Handler, HandlerSteps

(* The creation starts if the form can be read: it builds a wallet, of a node that has
   answered if the form is there. *)
LEMMA CoreStarts ==
  ASSUME PagesInv, UNCHANGED <<place, page, temp, stores, history>>,
         NEW k \in Handler, k.here => FormShown /\ k.config = page.config,
         BuildIfReadable(k)
  PROVE  /\ Grows /\ Created' \in Nat /\ DOMAIN made' = 1 .. Created'
         /\ \E l \in Handler: l = StartCore(k) /\ HandlerFits(l)'
<1>1. PagesTyped /\ PageFits
  BY DEF PagesInv
<1>2. UNCHANGED <<place, page, saved, told, strays>>
  BY DEF stores, history
<1>3. CASE Readable(k)
  <2> DEFINE l == [k EXCEPT !.at = "create", !.wallet = Created + 1]
             config == Selected(page.net, k.config)
  <2>1. Build(page.kind, config)
    BY <1>3 DEF BuildIfReadable
  <2>2. k.here => config # "default"
    BY <1>1, SelectedConfig
  <2>3. StartCore(k) = l
    BY <1>3 DEF StartCore
  <2> HIDE DEF config
  <2>4. /\ Created \in Nat /\ Created' \in Nat /\ DOMAIN made' = 1 .. Created'
        /\ \A w \in DOMAIN made: w \in DOMAIN made' /\ made'[w] = made[w]
        /\ Created + 1 \in DOMAIN made'
        /\ made'[Created + 1] = [kind |-> page.kind, config |-> config]
    BY <1>1, <2>1, Built
  <2>5. Grows
    BY <1>2, <2>4 DEF Grows
  <2>6. /\ l \in Handler /\ l.at = "create" /\ l.here = k.here /\ l.wallet = Created + 1
    <3>1. Created + 1 \in Nat
      BY <2>4
    <3> HIDE DEF Created
    <3> QED
      BY <3>1 DEF Handler, HandlerSteps, CoreSteps
  <2> HIDE DEF l
  <2>7. \A m: m = l => HandlerFits(m)'
    <3>1. place' = "create"
      BY <1>2, <1>3 DEF Readable
    <3>2. "create" \notin CroSteps
      BY DEF CroSteps
    <3>3. Created + 1 \in DOMAIN made' /\ (l.here => made'[Created + 1].config # "default")
      BY <2>2, <2>4, <2>6
    <3> HIDE DEF Created
    <3> QED
      BY <2>6, <3>1, <3>2, <3>3 DEF HandlerFits
  <2> QED
    BY <2>3, <2>4, <2>5, <2>6, <2>7
<1>4. CASE ~Readable(k)
  <2>1. made' = made /\ StartCore(k) = Idle
    BY <1>4 DEF BuildIfReadable, StartCore
  <2>2. Grows
    BY <1>2, <2>1 DEF Grows
  <2>3. Created' \in Nat /\ DOMAIN made' = 1 .. Created'
    BY <1>1, <2>1 DEF PagesTyped, Created
  <2> QED
    BY <2>1, <2>2, <2>3, IdleFits
<1> QED
  BY <1>3, <1>4

(* The spinner starts, and nothing else on the form changes. *)
LEMMA AfterStartForm ==
  ASSUME form \in FormState, NEW k, form' = AfterStart(k, form)
  PROVE  /\ form' \in FormState /\ form'.dialogs = form.dialogs
         /\ form'.wallet = form.wallet
<1> DEFINE b == ~Readable(k)
<1>1. form' = form \/ form' = [form EXCEPT !.loading = TRUE, !.forgotten = b]
  BY DEF AfterStart
<1>2. b \in BOOLEAN
  OBVIOUS
<1> HIDE DEF b
<1> QED
  BY <1>1, <1>2 DEF FormState

(* A wallet is submitted: it is built, or the Ledger is asked for. *)
LEMMA SubmitInv == PagesInv /\ Submit => PagesInv'
<1> SUFFICES ASSUME PagesInv, Submit PROVE PagesInv'
  OBVIOUS
<1>1. PagesTyped /\ WalletsFit /\ PageFits /\ FormFits /\ HandlersFit
  BY DEF PagesInv
<1>2. /\ place = "create" /\ FormShown
      /\ UNCHANGED <<place, page, temp, stores, history>>
  BY DEF Submit
<1>3. SamePage
  BY <1>2 DEF SamePage, FormShown
<1>4. form \in FormState
  BY <1>1 DEF PagesTyped
<1>5. CASE /\ Begin(StartCore(Here("create"))) /\ form' = AfterStart(Here("create"), form)
           /\ BuildIfReadable(Here("create"))
  <2>1. "create" \in HandlerSteps
    BY DEF HandlerSteps, CoreSteps
  <2>2. /\ Here("create") \in Handler /\ Here("create").here
        /\ Here("create").config = page.config
    BY <1>1, <2>1, HereTyped
  <2>3. /\ Grows /\ Created' \in Nat /\ DOMAIN made' = 1 .. Created'
        /\ \E l \in Handler: l = StartCore(Here("create")) /\ HandlerFits(l)'
    BY <1>2, <1>5, <2>2, CoreStarts
  <2>4. PICK l \in Handler: l = StartCore(Here("create")) /\ HandlerFits(l)'
    BY <2>3
  <2>5. task' = [task EXCEPT ![FirstUnused] = l]
    BY <1>5, <2>4 DEF Begin
  <2>6. task' \in [Tasks -> Handler] /\ HandlersFit'
    BY <1>1, <1>3, <2>3, <2>4, <2>5, OneHandler
  <2>7. /\ form' \in FormState /\ form'.dialogs = form.dialogs
        /\ form'.wallet = form.wallet
    BY <1>4, <1>5, AfterStartForm
  <2>8. FormFits'
    BY <1>1, <1>2, <1>3, <2>3, <2>7, FormKept
  <2> QED
    BY <1>2, <2>3, <2>6, <2>7, <2>8, FormStepped
<1>6. CASE /\ form' = [form EXCEPT !.dialogs = {"cro"}, !.croOk = FALSE]
           /\ UNCHANGED <<task, made>>
  <2>1. Grows
    BY <1>2, <1>6 DEF Grows, stores, history
  <2>2. task' \in [Tasks -> Handler] /\ HandlersFit'
    BY <1>1, <1>3, <1>6, <2>1, HandlersKept DEF PagesTyped
  <2>3. form' \in FormState /\ form'.dialogs = {"cro"} /\ form'.wallet = form.wallet
    BY <1>4, <1>6 DEF FormState, Dialogs
  <2>4. FormFits'
    BY <1>1, <1>2, <1>3, <2>1, <2>3, FormOpens
  <2>5. Created' \in Nat /\ DOMAIN made' = 1 .. Created'
    BY <1>1, <1>6 DEF PagesTyped, Created
  <2> QED
    BY <1>2, <2>1, <2>2, <2>3, <2>4, <2>5, FormStepped
<1> QED
  BY <1>5, <1>6 DEF Submit

(* A handler that starts, with nothing built. *)
LEMMA Started ==
  ASSUME PagesInv, UNCHANGED <<place, temp, made, stores, history>>, page' \in PageState,
         PageFits', FormShown => FormShown' /\ page'.config = page.config,
         form' \in FormState, form'.dialogs = form.dialogs, form'.wallet = form.wallet,
         NEW k \in Handler, HandlerFits(k), Begin(k)
  PROVE  PagesInv'
<1>1. PagesTyped /\ WalletsFit /\ FormFits /\ HandlersFit
  BY DEF PagesInv
<1>2. Grows /\ WalletsFit' /\ SamePage /\ temp' = temp
  BY <1>1, StoresKept DEF SamePage, stores, history
<1>3. HandlerFits(k)'
  BY <1>1, <1>2, HandlerKept
<1>4. task' = [task EXCEPT ![FirstUnused] = k]
  BY DEF Begin
<1>5. task' \in [Tasks -> Handler] /\ HandlersFit'
  BY <1>1, <1>2, <1>3, <1>4, OneHandler
<1>6. FormFits'
  BY <1>1, <1>2, FormKept
<1>7. PagesTyped'
  BY <1>1, <1>5 DEF PagesTyped, Created
<1> QED
  BY <1>2, <1>5, <1>6, <1>7 DEF PagesInv

(* The Ledger is asked for its apps. *)
LEMMA ConnectInv == PagesInv /\ (ConnectCro \/ ConnectEth) => PagesInv'
<1> SUFFICES ASSUME PagesInv, ConnectCro \/ ConnectEth PROVE PagesInv'
  OBVIOUS
<1>1. PagesTyped /\ PageFits /\ FormFits /\ form \in FormState
  BY DEF PagesInv, PagesTyped
<1>2. /\ form' = [form EXCEPT !.connecting = TRUE]
      /\ UNCHANGED <<place, page, temp, made, stores, history>>
  BY DEF ConnectCro, ConnectEth
<1>3. form' \in FormState /\ form'.dialogs = form.dialogs /\ form'.wallet = form.wallet
  BY <1>1, <1>2 DEF FormState
<1>4. /\ page' \in PageState /\ PageFits'
      /\ FormShown => FormShown' /\ page'.config = page.config
  BY <1>1, <1>2 DEF PagesTyped, PageFits, FormShown, Storable, stores, history
<1>5. place \in {"create", "restore"}
  BY <1>1 DEF FormFits, ConnectCro, ConnectEth
<1>6. CASE ConnectCro
  <2> DEFINE k == Here("cro500")
  <2>1. k \in Handler /\ k.at = "cro500" /\ k.config = page.config
    <3>1. "cro500" \in HandlerSteps
      BY DEF HandlerSteps, CroSteps
    <3> QED
      BY <1>1, <3>1, HereTyped
  <2>2. FormShown /\ Begin(k)
    BY <1>1, <1>6 DEF FormFits, ConnectCro
  <2> HIDE DEF k
  <2>3. HandlerFits(k)
    BY <1>5, <2>1, <2>2 DEF HandlerFits, CoreSteps
  <2> QED
    BY <1>2, <1>3, <1>4, <2>1, <2>2, <2>3, Started
<1>7. CASE ConnectEth
  <2> DEFINE h == Here("eth500")
             k == [h EXCEPT !.late = Under({"hold"}) # {}]
  <2>1. h \in Handler /\ h.at = "eth500"
    <3>1. "eth500" \in HandlerSteps
      BY DEF HandlerSteps, EthSteps
    <3> QED
      BY <1>1, <3>1, HereTyped
  <2>2. Begin(k)
    BY <1>7 DEF ConnectEth
  <2> HIDE DEF h
  <2>3. k \in Handler /\ k.at = "eth500"
    BY <2>1 DEF Handler
  <2> HIDE DEF k
  <2>4. HandlerFits(k)
    BY <1>5, <2>3 DEF HandlerFits, CoreSteps, CroSteps
  <2> QED
    BY <1>2, <1>3, <1>4, <2>2, <2>3, <2>4, Started
<1> QED
  BY <1>6, <1>7

(* The password is given: the wallet the page asks it for is stored. *)
LEMMA StoreWalletInv == PagesInv /\ StoreWallet => PagesInv'
<1> SUFFICES ASSUME PagesInv, StoreWallet PROVE PagesInv'
  OBVIOUS
<1> DEFINE step == IF place = "backup" THEN "storeAndForget" ELSE "store"
           h == Here(step)
           k == [h EXCEPT !.wallet = page.wallet]
<1>1. PagesTyped /\ PageFits /\ form \in FormState /\ page \in PageState
  BY DEF PagesInv, PagesTyped
<1>2. /\ page' = [page EXCEPT !.going = TRUE] /\ page.wallet # Nothing
      /\ place \in {"create", "backup"} /\ Begin(k)
      /\ UNCHANGED <<place, form, temp, made, stores, history>>
  BY DEF StoreWallet
<1>3. /\ page' \in PageState /\ page'.wallet = page.wallet
      /\ page'.custom = page.custom /\ page'.connected = page.connected
      /\ page'.config = page.config /\ page'.node = page.node /\ page'.net = page.net
  BY <1>1, <1>2 DEF PageState
<1>4. PageFits' /\ (FormShown => FormShown' /\ page'.config = page.config)
  BY <1>1, <1>2, <1>3 DEF PageFits, FormShown, Storable, stores, history
<1>5. h \in Handler /\ h.at = step
  <2>1. step \in HandlerSteps
    BY DEF HandlerSteps, StoreSteps
  <2> HIDE DEF step
  <2> QED
    BY <1>1, <2>1, HereTyped
<1> HIDE DEF h
<1>6. page.wallet \in Nat \union {Nothing}
  BY <1>1 DEF PageState
<1>7. k \in Handler /\ k.at = step /\ k.wallet = page.wallet
  BY <1>5, <1>6 DEF Handler
<1> HIDE DEF k
<1>8. HandlerFits(k)
  <2>1. Storable(page.wallet)
    BY <1>1, <1>2 DEF PageFits
  <2> QED
    BY <1>2, <1>7, <2>1 DEF HandlerFits, CoreSteps, CroSteps
<1> QED
  BY <1>1, <1>2, <1>3, <1>4, <1>7, <1>8, Started

(* A wallet is restored: it is built. *)
LEMMA RestoreInv == PagesInv /\ Restore => PagesInv'
<1> SUFFICES ASSUME PagesInv, Restore PROVE PagesInv'
  OBVIOUS
<1> DEFINE h == Here("restore")
           k == [h EXCEPT !.wallet = Created + 1]
           config == Selected(page.net, page.config)
<1>1. PagesTyped /\ WalletsFit /\ PageFits /\ FormFits /\ HandlersFit /\ form \in FormState
  BY DEF PagesInv, PagesTyped
<1>2. /\ place = "restore" /\ FormShown /\ form' = Loads(form)
      /\ Build("normal", config) /\ Begin(k)
      /\ UNCHANGED <<place, page, temp, stores, history>>
  BY DEF Restore
<1>3. config # "default"
  BY <1>1, <1>2, SelectedConfig
<1> HIDE DEF config
<1>4. /\ Created \in Nat /\ Created' \in Nat /\ DOMAIN made' = 1 .. Created'
      /\ \A w \in DOMAIN made: w \in DOMAIN made' /\ made'[w] = made[w]
      /\ Created + 1 \in DOMAIN made'
      /\ made'[Created + 1] = [kind |-> "normal", config |-> config]
  BY <1>1, <1>2, Built
<1>5. Grows /\ SamePage
  BY <1>2, <1>4 DEF Grows, SamePage, FormShown, stores, history
<1>6. form' \in FormState /\ form'.dialogs = form.dialogs /\ form'.wallet = form.wallet
  BY <1>1, <1>2 DEF FormState, Loads
<1>7. FormFits'
  BY <1>1, <1>2, <1>5, <1>6, FormKept
<1>8. h \in Handler /\ h.at = "restore"
  <2>1. "restore" \in HandlerSteps
    BY DEF HandlerSteps, StoreSteps
  <2> QED
    BY <1>1, <2>1, HereTyped
<1> HIDE DEF h
<1>9. Created + 1 \in Nat
  BY <1>4
<1>10. /\ Created + 1 \in DOMAIN made' /\ made'[Created + 1].config # "default"
       /\ task' = [task EXCEPT ![FirstUnused] = k]
  BY <1>2, <1>3, <1>4 DEF Begin
<1>11. k \in Handler /\ k.at = "restore" /\ k.wallet = Created + 1
  <2> HIDE DEF Created
  <2> QED
    BY <1>8, <1>9 DEF Handler
<1> HIDE DEF k
<1>12. \A m: m = k => HandlerFits(m)'
  <2>1. "restore" \notin CroSteps /\ "restore" \notin CoreSteps
    BY DEF CroSteps, CoreSteps
  <2> HIDE DEF Created
  <2> QED
    BY <1>2, <1>10, <1>11, <2>1 DEF HandlerFits
<1>13. task' \in [Tasks -> Handler] /\ HandlersFit'
  <2>1. PICK m \in Handler: m = k /\ HandlerFits(m)'
    BY <1>11, <1>12
  <2>2. task' = [task EXCEPT ![FirstUnused] = m]
    BY <1>10, <2>1
  <2> QED
    BY <1>1, <1>5, <2>1, <2>2, OneHandler
<1> QED
  BY <1>2, <1>4, <1>5, <1>6, <1>7, <1>13, FormStepped

-----------------------------------------------------------------------------
(* A handler goes on to another of the same steps. *)
LEMMA Goes ==
  ASSUME PagesInv, Grows, SamePage, NEW t \in Tasks, NEW step, Goto(t, step),
         \/ task[t].at \in CroSteps /\ step \in CroSteps
         \/ task[t].at \in CoreSteps /\ step \in CoreSteps
         \/ task[t].at \in EthSteps /\ step \in EthSteps
  PROVE  task' \in [Tasks -> Handler] /\ HandlersFit'
<1> DEFINE k == [task[t] EXCEPT !.at = step]
<1>1. PagesTyped /\ WalletsFit /\ HandlersFit
  BY DEF PagesInv
<1>2. task[t] \in Handler /\ HandlerFits(task[t])
  BY <1>1 DEF PagesTyped, HandlersFit
<1>3. step \in HandlerSteps /\ step \notin StoreSteps /\ task[t].at \notin StoreSteps
  BY DEF HandlerSteps, CroSteps, CoreSteps, EthSteps, StoreSteps
<1>4. /\ k \in Handler /\ k.at = step /\ k.here = task[t].here
      /\ k.wallet = task[t].wallet /\ k.config = task[t].config
  BY <1>2, <1>3 DEF Handler
<1>5. task' = [task EXCEPT ![t] = k]
  BY DEF Goto
<1> HIDE DEF k
<1>6. step \in CroSteps => task[t].at \in CroSteps
  BY DEF CroSteps, CoreSteps, EthSteps
<1>7. step \in CoreSteps => task[t].at \in CoreSteps
  BY DEF CroSteps, CoreSteps, EthSteps
<1>8. HandlerFits(k)
  BY <1>2, <1>3, <1>4, <1>6, <1>7 DEF HandlerFits, StoreSteps
<1>9. PICK m \in Handler: m = k /\ HandlerFits(m)'
  BY <1>1, <1>4, <1>8, HandlerKept
<1>10. task' = [task EXCEPT ![t] = m]
  BY <1>5, <1>9
<1> QED
  BY <1>1, <1>9, <1>10, OneHandler

(* A handler ends. *)
LEMMA Ends ==
  ASSUME PagesInv, Grows, SamePage, NEW t \in Tasks, End(t)
  PROVE  task' \in [Tasks -> Handler] /\ HandlersFit'
<1>1. PagesTyped /\ WalletsFit /\ HandlersFit
  BY DEF PagesInv
<1>2. task' = [task EXCEPT ![t] = Idle]
  BY DEF End
<1>3. PICK k \in Handler: k = Idle /\ HandlerFits(k)'
  BY IdleFits
<1> QED
  BY <1>1, <1>2, <1>3, OneHandler

(* What a handler sets on its form, if that is still there. *)
LEMMA HandlerForm ==
  ASSUME PagesInv, Grows, SamePage, temp' = temp, NEW t \in Tasks,
         task[t].at # "storeAndForget", form'.wallet = form.wallet,
         form'.dialogs \subseteq form.dialogs \union {"eth", "error"},
         task[t].here \/ form'.dialogs \subseteq form.dialogs
  PROVE  FormFits'
<1>1. WalletsFit /\ FormFits /\ HandlerFits(task[t])
  BY DEF PagesInv, HandlersFit
<1>2. CASE task[t].here
  <2>1. place \in {"create", "restore"}
    BY <1>1, <1>2 DEF HandlerFits
  <2>2. "cro" \in form'.dialogs => FormShown
    BY <1>1 DEF FormFits
  <2>3. form'.dialogs \subseteq form.dialogs \union {"cro", "eth", "error"}
    OBVIOUS
  <2> QED
    BY <1>1, <2>1, <2>2, <2>3, FormOpens
<1>3. CASE ~task[t].here
  BY <1>1, <1>3, FormKept
<1> QED
  BY <1>2, <1>3

(* A step that builds nothing. *)
LEMMA MadeKept ==
  ASSUME PagesInv, UNCHANGED <<place, page, made, stores, history>>
  PROVE  /\ Grows /\ SamePage /\ WalletsFit'
         /\ Created' \in Nat /\ DOMAIN made' = 1 .. Created'
<1>1. WalletsFit /\ PagesTyped
  BY DEF PagesInv
<1>2. Grows /\ WalletsFit'
  BY <1>1, StoresKept DEF stores, history
<1> QED
  BY <1>1, <1>2 DEF SamePage, FormShown, PagesTyped, Created

(* The check of the Crypto.org app, up to the creation. *)
LEMMA CroStepInv == \A t \in Tasks: PagesInv /\ CroStep(t) => PagesInv'
<1> SUFFICES ASSUME PagesInv, NEW t \in Tasks, CroStep(t) PROVE PagesInv'
  OBVIOUS
<1>1. PagesTyped /\ WalletsFit /\ FormFits /\ HandlersFit /\ form \in FormState
  BY DEF PagesInv, PagesTyped
<1>2. CheckCro(t) /\ UNCHANGED <<place, page, temp, stores, history>>
  BY DEF CroStep
<1>3. task[t] \in Handler /\ HandlerFits(task[t]) /\ task[t].here \in BOOLEAN
  BY <1>1 DEF PagesTyped, HandlersFit, Handler
<1>4. SamePage
  BY <1>2 DEF SamePage, FormShown
<1>5. CASE task[t].at # "croDone"
  <2>1. made' = made
    BY <1>2, <1>5 DEF CheckCro
  <2>2. Grows /\ Created' \in Nat /\ DOMAIN made' = 1 .. Created'
    BY <1>2, <2>1, MadeKept
  <2>3. task[t].at \in CroSteps
    BY <1>2 DEF CheckCro, CroSteps
  <2>4. task' \in [Tasks -> Handler] /\ HandlersFit'
    <3>1. End(t) \/ \E step \in CroSteps: Goto(t, step)
      BY <1>2, <1>5 DEF CheckCro, CroSteps
    <3>2. CASE End(t)
      BY <1>4, <2>2, <3>2, Ends
    <3>3. CASE \E step \in CroSteps: Goto(t, step)
      BY <1>4, <2>2, <2>3, <3>3, Goes
    <3> QED
      BY <3>1, <3>2, <3>3
  <2>5. /\ form' \in FormState /\ form'.wallet = form.wallet
        /\ form'.dialogs \subseteq form.dialogs
    <3>1. CASE form' = form
      BY <1>1, <3>1
    <3>2. CASE form' = Loads(form)
      BY <1>1, <3>2 DEF FormState, Loads
    <3>3. CASE \E ok \in BOOLEAN: form' = [form EXCEPT !.croOk = ok]
      BY <1>1, <3>3 DEF FormState
    <3>4. CASE form' = [Stops(form) EXCEPT !.dialogs = @ \ {"cro"}, !.connecting = FALSE]
      BY <1>1, <3>4 DEF FormState, Stops
    <3>5. CASE form' = [form EXCEPT !.dialogs = @ \ {"cro"}, !.connecting = FALSE]
      BY <1>1, <3>5 DEF FormState
    <3> QED
      BY <1>2, <1>5, <3>1, <3>2, <3>3, <3>4, <3>5 DEF CheckCro, OnForm
  <2>6. FormFits'
    BY <1>1, <1>2, <1>4, <2>2, <2>5, FormKept
  <2> QED
    BY <1>2, <2>2, <2>4, <2>5, <2>6, FormStepped
<1>6. CASE task[t].at = "croDone"
  <2>1. /\ task' = [task EXCEPT ![t] = StartCore(task[t])]
        /\ form' = AfterStart(task[t], form) /\ BuildIfReadable(task[t])
    BY <1>2, <1>6 DEF CheckCro
  <2>2. task[t].here => FormShown /\ task[t].config = page.config
    BY <1>3, <1>6 DEF HandlerFits, CroSteps
  <2>3. /\ Grows /\ Created' \in Nat /\ DOMAIN made' = 1 .. Created'
        /\ \E l \in Handler: l = StartCore(task[t]) /\ HandlerFits(l)'
    BY <1>2, <1>3, <2>1, <2>2, CoreStarts
  <2>4. PICK l \in Handler: l = StartCore(task[t]) /\ HandlerFits(l)'
    BY <2>3
  <2>5. task' = [task EXCEPT ![t] = l]
    BY <2>1, <2>4
  <2>6. task' \in [Tasks -> Handler] /\ HandlersFit'
    BY <1>1, <1>4, <2>3, <2>4, <2>5, OneHandler
  <2>7. /\ form' \in FormState /\ form'.dialogs = form.dialogs
        /\ form'.wallet = form.wallet
    BY <1>1, <2>1, AfterStartForm
  <2>8. FormFits'
    BY <1>1, <1>2, <1>4, <2>3, <2>7, FormKept
  <2> QED
    BY <1>2, <2>3, <2>6, <2>7, <2>8, FormStepped
<1> QED
  BY <1>5, <1>6

(* The check of the Ethereum app. *)
LEMMA EthStepInv == \A t \in Tasks: PagesInv /\ EthStep(t) => PagesInv'
<1> SUFFICES ASSUME PagesInv, NEW t \in Tasks, EthStep(t) PROVE PagesInv'
  OBVIOUS
<1>1. form \in FormState
  BY DEF PagesInv, PagesTyped
<1>2. CheckEth(t) /\ UNCHANGED <<place, page, temp, made, stores, history>>
  BY DEF EthStep
<1>3. Grows /\ SamePage
  BY <1>2, MadeKept
<1>4. task' \in [Tasks -> Handler] /\ HandlersFit'
  <2>1. task[t].at \in EthSteps
    BY <1>2 DEF CheckEth, EthSteps
  <2>2. End(t) \/ \E step \in EthSteps: Goto(t, step)
    BY <1>2 DEF CheckEth, EthSteps
  <2>3. CASE End(t)
    BY <1>3, <2>3, Ends
  <2>4. CASE \E step \in EthSteps: Goto(t, step)
    BY <1>3, <2>1, <2>4, Goes
  <2> QED
    BY <2>2, <2>3, <2>4
<1>5. /\ form' \in FormState /\ form'.wallet = form.wallet
      /\ form'.dialogs \subseteq form.dialogs
  <2> DEFINE idle == ~Working
  <2>1. idle \in BOOLEAN
    OBVIOUS
  <2>2. \/ form' = [form EXCEPT !.loading = TRUE, !.forgotten = idle]
        \/ \E ok \in BOOLEAN: form' = [form EXCEPT !.ethOk = ok]
        \/ form' = [form EXCEPT !.connecting = FALSE]
        \/ form' = [Stops(form) EXCEPT !.dialogs = @ \ {"eth"}, !.connecting = FALSE]
    BY <1>2 DEF CheckEth
  <2> HIDE DEF idle
  <2>3. CASE form' = [form EXCEPT !.loading = TRUE, !.forgotten = idle]
    BY <1>1, <2>1, <2>3 DEF FormState
  <2>4. CASE \E ok \in BOOLEAN: form' = [form EXCEPT !.ethOk = ok]
    BY <1>1, <2>4 DEF FormState
  <2>5. CASE form' = [form EXCEPT !.connecting = FALSE]
    BY <1>1, <2>5 DEF FormState
  <2>6. CASE form' = [Stops(form) EXCEPT !.dialogs = @ \ {"eth"}, !.connecting = FALSE]
    BY <1>1, <2>6 DEF FormState, Stops
  <2> QED
    BY <2>2, <2>3, <2>4, <2>5, <2>6
<1> QED
  BY <1>2, <1>4, <1>5, FormEdited

(* The creation itself, but for its end. *)
LEMMA DeriveStepInv == \A t \in Tasks: PagesInv /\ DeriveStep(t) => PagesInv'
<1> SUFFICES ASSUME PagesInv, NEW t \in Tasks, DeriveStep(t) PROVE PagesInv'
  OBVIOUS
<1>1. form \in FormState
  BY DEF PagesInv, PagesTyped
<1>2. /\ Derive(t) \/ (CanFail(t) /\ Fail(t))
      /\ UNCHANGED <<place, page, temp, made, stores, history>>
  BY DEF DeriveStep
<1>3. Grows /\ SamePage /\ Created' \in Nat /\ DOMAIN made' = 1 .. Created'
  BY <1>2, MadeKept
<1>4. task[t].at \in CoreSteps /\ task[t].at # "storeAndForget"
  BY <1>2 DEF Derive, CanFail, CoreSteps
<1>5. task' \in [Tasks -> Handler] /\ HandlersFit'
  <2>1. End(t) \/ \E step \in CoreSteps: Goto(t, step)
    BY <1>2 DEF Derive, Fail, CoreSteps
  <2>2. CASE End(t)
    BY <1>3, <2>2, Ends
  <2>3. CASE \E step \in CoreSteps: Goto(t, step)
    BY <1>3, <1>4, <2>3, Goes
  <2> QED
    BY <2>1, <2>2, <2>3
<1>6. /\ form' \in FormState /\ form'.wallet = form.wallet
      /\ form'.dialogs \subseteq form.dialogs \union {"eth", "error"}
      /\ task[t].here \/ form'.dialogs \subseteq form.dialogs
  <2>1. \/ form' = form
        \/ task[t].here /\ form' = [form EXCEPT !.dialogs = @ \union {"eth"}]
        \/ form' = [form EXCEPT !.ethOk = TRUE]
        \/ form' = [form EXCEPT !.dialogs = @ \ {"eth"}]
        \/ task[t].here /\ form' = Failed(form)
    BY <1>2 DEF Derive, Fail, OnForm
  <2>2. CASE form' = form
    BY <1>1, <2>2
  <2>3. CASE task[t].here /\ form' = [form EXCEPT !.dialogs = @ \union {"eth"}]
    BY <1>1, <2>3 DEF FormState, Dialogs
  <2>4. CASE form' = [form EXCEPT !.ethOk = TRUE]
    BY <1>1, <2>4 DEF FormState
  <2>5. CASE form' = [form EXCEPT !.dialogs = @ \ {"eth"}]
    BY <1>1, <2>5 DEF FormState
  <2>6. CASE task[t].here /\ form' = Failed(form)
    BY <1>1, <2>6 DEF FormState, Dialogs, Failed, Stops
  <2> QED
    BY <2>1, <2>2, <2>3, <2>4, <2>5, <2>6
<1>7. FormFits'
  BY <1>2, <1>3, <1>4, <1>6, HandlerForm
<1> QED
  BY <1>2, <1>3, <1>5, <1>6, <1>7, FormStepped

(* The wallet a handler has built is finished: its form tells of it, or it is a stray. *)
LEMMA FinishInv == \A t \in Tasks: PagesInv /\ Finish(t) => PagesInv'
<1> SUFFICES ASSUME PagesInv, NEW t \in Tasks, Finish(t) PROVE PagesInv'
  OBVIOUS
<1> DEFINE w == task[t].wallet
<1>1. PagesTyped /\ WalletsFit /\ PageFits /\ FormFits /\ HandlersFit
  BY DEF PagesInv
<1>2. /\ task[t].at = "assets" /\ saved' = saved \union {w} /\ temp' = w
      /\ page' = (IF task[t].page THEN Reset(page) ELSE page)
      /\ strays' = (IF task[t].here THEN strays ELSE strays \union {w})
      /\ End(t) /\ UNCHANGED <<place, made, stored, told>>
  BY DEF Finish
<1>3. /\ task[t] \in Handler /\ HandlerFits(task[t]) /\ task[t].here \in BOOLEAN
      /\ task[t].page \in BOOLEAN
  BY <1>1 DEF PagesTyped, HandlersFit, Handler
<1>4. /\ w \in DOMAIN made
      /\ task[t].here => made[w].config # "default" /\ place \in {"create", "restore"}
  BY <1>2, <1>3 DEF HandlerFits, CoreSteps
<1>5. w \in Nat /\ w # Nothing
  <2>1. w \in Nat
    BY <1>1, <1>4 DEF PagesTyped
  <2> QED
    BY <2>1, CreationAssumption
<1>6. Grows
  BY <1>2 DEF Grows
<1>7. /\ page' \in PageState /\ page'.custom = page.custom /\ page'.connected = page.connected
      /\ page'.config = page.config /\ page'.node = page.node /\ page'.wallet = page.wallet
      /\ page'.net = page.net \/ page'.net = "listed"
  <2>1. CASE page' = page
    BY <1>1, <2>1 DEF PagesTyped
  <2>2. CASE page' = Reset(page)
    BY <1>1, <2>2 DEF PagesTyped, PageState, Reset, WalletKinds
  <2> QED
    BY <1>2, <2>1, <2>2
<1>8. SamePage
  BY <1>2, <1>7 DEF SamePage, FormShown
<1>9. task' \in [Tasks -> Handler] /\ HandlersFit'
  BY <1>2, <1>6, <1>8, Ends
<1>10. ASSUME task[t].here PROVE FormFits' /\ form' \in FormState
  <2>1. form' = [Stops(form) EXCEPT !.wallet = w, !.croOk = FALSE, !.ethOk = FALSE,
                                    !.dialogs = @ \union {"success"}]
    BY <1>10 DEF Finish, OnForm
  <2> HIDE DEF w
  <2>2. /\ form' \in FormState /\ form'.wallet = w
        /\ form'.dialogs = form.dialogs \union {"success"}
    BY <1>1, <1>5, <2>1 DEF PagesTyped, FormState, Dialogs, Stops
  <2>3. FormFits'
    BY <1>1, <1>2, <1>4, <1>5, <1>8, <1>10, <2>2 DEF FormFits, SamePage
  <2> QED
    BY <2>2, <2>3
<1>11. ASSUME ~task[t].here PROVE FormFits' /\ form' \in FormState
  <2>1. form' = form
    BY <1>11 DEF Finish, OnForm
  <2>2. FormFits'
    BY <1>1, <1>2, <1>8, <1>11, <2>1 DEF FormFits, SamePage
  <2> QED
    BY <1>1, <2>1, <2>2 DEF PagesTyped
<1>12. FormFits' /\ form' \in FormState
  BY <1>3, <1>10, <1>11
<1>13. PagesTyped'
  BY <1>1, <1>2, <1>7, <1>9, <1>12 DEF PagesTyped, Created
<1>14. WalletsFit'
  <2>1. \A v \in stored': Storable(v)'
    BY <1>1, <1>2, <1>6, StorableKept DEF WalletsFit
  <2> QED
    BY <1>1, <1>2, <1>4, <2>1 DEF WalletsFit
<1>15. PageFits'
  <2>1. \A v: Storable(v) => Storable(v)'
    BY <1>1, <1>6, StorableKept
  <2>2. page.wallet # Nothing => Storable(page.wallet)
    BY <1>1 DEF PageFits
  <2>3. \A v: v = page.wallet /\ v # Nothing => Storable(v)'
    BY <2>1, <2>2
  <2>4. page'.wallet # Nothing => Storable(page.wallet)'
    BY <1>7, <2>3 DEF Storable
  <2> QED
    BY <1>1, <1>7, <2>4 DEF PageFits, FormShown
<1> QED
  BY <1>9, <1>12, <1>13, <1>14, <1>15 DEF PagesInv

(* A wallet is restored: the user is told of it once its assets are stored. *)
LEMMA ImportInv == \A t \in Tasks: PagesInv /\ Import(t) => PagesInv'
<1> SUFFICES ASSUME PagesInv, NEW t \in Tasks, Import(t) PROVE PagesInv'
  OBVIOUS
<1> DEFINE w == task[t].wallet
<1>1. PagesTyped /\ WalletsFit /\ PageFits /\ FormFits /\ HandlersFit /\ form \in FormState
  BY DEF PagesInv, PagesTyped
<1>2. task[t].at = "restore" /\ UNCHANGED <<place, page, temp, made, stored, strays, visits>>
  BY DEF Import
<1>3. task[t] \in Handler /\ HandlerFits(task[t])
  BY <1>1 DEF PagesTyped, HandlersFit
<1>4. w \in DOMAIN made /\ made[w].config # "default"
  BY <1>2, <1>3 DEF HandlerFits
<1>5. SamePage
  BY <1>2 DEF SamePage, FormShown
<1>6. CASE /\ saved' = saved \union {w} /\ told' = told \union {w}
           /\ Goto(t, "store") /\ UNCHANGED form
  <2> DEFINE k == [task[t] EXCEPT !.at = "store"]
  <2>1. Grows
    BY <1>2, <1>6 DEF Grows
  <2>2. WalletsFit'
    <3>1. \A v \in stored': Storable(v)'
      BY <1>1, <1>2, <2>1, StorableKept DEF WalletsFit
    <3> QED
      BY <1>1, <1>2, <1>4, <1>6, <3>1 DEF WalletsFit
  <2>3. PageFits'
    BY <1>1, <1>2, <2>1, PageKept
  <2>4. FormFits'
    BY <1>1, <1>2, <1>5, <1>6, <2>1, FormKept
  <2>5. k \in Handler /\ k.at = "store" /\ k.here = task[t].here /\ k.wallet = w
    <3>1. "store" \in HandlerSteps
      BY DEF HandlerSteps, StoreSteps
    <3> QED
      BY <1>3, <3>1 DEF Handler
  <2>6. task' = [task EXCEPT ![t] = k]
    BY <1>6 DEF Goto
  <2>7. task[t].here => place \in {"create", "restore"}
    BY <1>2, <1>3 DEF HandlerFits
  <2> HIDE DEF k
  <2>8. \A m: m = k => HandlerFits(m)'
    <3>1. \A v: v = w => Storable(v)'
      BY <1>2, <1>4, <1>6 DEF Storable
    <3>2. "store" \notin CroSteps /\ "store" \notin CoreSteps
      BY DEF CroSteps, CoreSteps
    <3> QED
      BY <1>2, <2>5, <2>7, <3>1, <3>2 DEF HandlerFits
  <2>9. task' \in [Tasks -> Handler] /\ HandlersFit'
    <3>1. PICK m \in Handler: m = k /\ HandlerFits(m)'
      BY <2>5, <2>8
    <3>2. task' = [task EXCEPT ![t] = m]
      BY <2>6, <3>1
    <3> QED
      BY <1>1, <1>5, <2>1, <3>1, <3>2, OneHandler
  <2>10. PagesTyped'
    BY <1>1, <1>2, <1>6, <2>9 DEF PagesTyped, Created
  <2> QED
    BY <2>2, <2>3, <2>4, <2>9, <2>10 DEF PagesInv
<1>7. CASE /\ OnForm(t, [form EXCEPT !.dialogs = @ \union {"error"}, !.forgotten = TRUE])
           /\ End(t) /\ UNCHANGED <<saved, told>>
  <2>1. UNCHANGED <<place, page, temp, made, stores, history>>
    BY <1>2, <1>7 DEF stores, history
  <2>2. Grows /\ Created' \in Nat /\ DOMAIN made' = 1 .. Created'
    BY <2>1, MadeKept
  <2>3. task' \in [Tasks -> Handler] /\ HandlersFit'
    BY <1>5, <1>7, <2>2, Ends
  <2>4. /\ form' \in FormState /\ form'.wallet = form.wallet
        /\ form'.dialogs \subseteq form.dialogs \union {"eth", "error"}
        /\ task[t].here \/ form'.dialogs \subseteq form.dialogs
    BY <1>1, <1>7 DEF OnForm, FormState, Dialogs
  <2>5. FormFits'
    BY <1>2, <1>5, <2>2, <2>4, HandlerForm
  <2> QED
    BY <2>1, <2>2, <2>3, <2>4, <2>5, FormStepped
<1> QED
  BY <1>6, <1>7 DEF Import

(* A wallet is stored, and every page is left. *)
LEMMA StoreInv == \A t \in Tasks: PagesInv /\ Store(t) => PagesInv'
<1> SUFFICES ASSUME PagesInv, NEW t \in Tasks, Store(t) PROVE PagesInv'
  OBVIOUS
<1>1. PagesTyped /\ WalletsFit /\ HandlersFit
  BY DEF PagesInv
<1>2. /\ task[t].at \in {"store", "storeAndForget"}
      /\ stored' = stored \union {task[t].wallet}
      /\ page' = FreshPage /\ form' = FreshForm
      /\ task' = [u \in Tasks |-> IF u = t THEN Idle ELSE Left(task[u], FALSE)]
      /\ UNCHANGED <<made, saved, told, strays>>
  BY DEF Store, Leave, history
<1>3. \A u \in Tasks: task[u] \in Handler /\ HandlerFits(task[u])
  BY <1>1 DEF PagesTyped, HandlersFit
<1>4. Grows
  BY <1>2 DEF Grows
<1>5. \A u \in Tasks: \E l \in Handler: task'[u] = l /\ HandlerFits(l)'
  <2>1. ASSUME NEW u \in Tasks, u # t PROVE \E l \in Handler: task'[u] = l /\ HandlerFits(l)'
    <3>1. \E l \in Handler: l = Left(task[u], FALSE) /\ HandlerFits(l)'
      BY <1>1, <1>3, <1>4, LeftFits
    <3> QED
      BY <1>2, <2>1, <3>1
  <2>2. task'[t] = Idle
    BY <1>2
  <2> QED
    BY <2>1, <2>2, IdleFits
<1>6. HandlersFit'
  BY <1>5, HandlersAll
<1>7. task' \in [Tasks -> Handler]
  BY <1>2, <1>5
<1>8. FormFits' /\ form' \in FormState
  BY <1>2, FreshFits
<1>9. page' \in PageState /\ PageFits'
  BY <1>2 DEF FreshPage, PageState, WalletKinds, PageFits
<1>10. PagesTyped'
  BY <1>1, <1>2, <1>7, <1>8, <1>9 DEF PagesTyped, Created
<1>11. WalletsFit'
  <2>1. Storable(task[t].wallet)
    BY <1>2, <1>3 DEF HandlerFits
  <2>2. \A v \in stored': Storable(v)
    BY <1>1, <1>2, <2>1 DEF WalletsFit
  <2>3. \A v \in stored': Storable(v)'
    BY <1>1, <1>4, <2>2, StorableKept
  <2> QED
    BY <1>1, <1>2, <2>3 DEF WalletsFit
<1> QED
  BY <1>6, <1>8, <1>9, <1>10, <1>11 DEF PagesInv

(* The user is told of a wallet: the page asks the password for the last one left, if
   that is a Ledger's, or goes on to the backup of the one told of. *)
LEMMA ConfirmInv == PagesInv /\ Confirm => PagesInv'
<1> SUFFICES ASSUME PagesInv, Confirm PROVE PagesInv'
  OBVIOUS
<1> DEFINE w == form.wallet
<1>1. PagesTyped /\ WalletsFit /\ PageFits /\ FormFits /\ HandlersFit
  BY DEF PagesInv
<1>2. /\ "success" \in form.dialogs /\ told' = told \union {w}
      /\ UNCHANGED <<temp, made, saved, stored, strays>>
  BY DEF Confirm, stores
<1>3. /\ w \in saved /\ made[w].config # "default"
      /\ temp = w \/ temp \in strays
  BY <1>1, <1>2 DEF FormFits
<1>4. w \in Nat /\ temp \in Nat
  BY <1>1, <1>3 DEF PagesTyped, WalletsFit
<1>5. Grows
  BY <1>2 DEF Grows
<1>6. WalletsFit'
  <2>1. \A v \in stored': Storable(v)'
    BY <1>1, <1>2, <1>5, StorableKept DEF WalletsFit
  <2> QED
    BY <1>1, <1>2, <2>1 DEF WalletsFit
<1>7. CASE /\ made[temp].kind = "ledger"
           /\ page' = [page EXCEPT !.wallet = temp, !.password = TRUE]
           /\ form' = [form EXCEPT !.dialogs = @ \ {"success"}]
           /\ UNCHANGED <<place, task>>
  <2>1. /\ page' \in PageState /\ page'.custom = page.custom
        /\ page'.connected = page.connected /\ page'.config = page.config
        /\ page'.node = page.node /\ page'.net = page.net /\ page'.wallet = temp
    BY <1>1, <1>4, <1>7 DEF PagesTyped, PageState
  <2>2. /\ form' \in FormState /\ form'.wallet = form.wallet
        /\ form'.dialogs \subseteq form.dialogs
    BY <1>1, <1>7 DEF PagesTyped, FormState
  <2>3. SamePage
    BY <1>7, <2>1 DEF SamePage, FormShown
  <2>4. Storable(temp)'
    BY <1>1, <1>2, <1>3, <1>7 DEF Storable, WalletsFit
  <2>5. PageFits'
    BY <1>1, <1>2, <2>1, <2>4 DEF PageFits, FormShown, Storable
  <2>6. FormFits'
    BY <1>1, <1>2, <1>5, <2>2, <2>3, FormKept
  <2>7. HandlersFit'
    BY <1>1, <1>5, <1>7, <2>3, HandlersKept
  <2>8. PagesTyped'
    BY <1>1, <1>2, <1>7, <2>1, <2>2 DEF PagesTyped, Created
  <2> QED
    BY <1>6, <2>5, <2>6, <2>7, <2>8 DEF PagesInv
<1>8. CASE BackUp(w)
  <2>1. /\ page' = [FreshPage EXCEPT !.wallet = WalletMeant(w)]
        /\ form' = [FreshForm EXCEPT
                      !.dialogs = IF WalletMeant(w) = Nothing THEN {"error"} ELSE {}]
        /\ task' = [t \in Tasks |-> Left(task[t], FALSE)]
    BY <1>8 DEF BackUp
  <2>2. task' \in [Tasks -> Handler] /\ HandlersFit'
    BY <1>1, <1>5, <2>1, AllLeft
  <2>3. WalletMeant(w) \in {w, Nothing}
    BY DEF WalletMeant
  <2>4. /\ page' \in PageState /\ ~page'.custom /\ ~page'.connected /\ page'.node = "idle"
        /\ page'.net = "listed" /\ page'.wallet \in {w, Nothing}
    BY <1>4, <2>1, <2>3 DEF FreshPage, PageState, WalletKinds
  <2>5. \A v: v = w => Storable(v)'
    BY <1>2, <1>3 DEF Storable
  <2>6. PageFits'
    <3>1. page'.wallet # Nothing => Storable(page.wallet)'
      BY <1>2, <1>3, <2>4 DEF Storable
    <3> QED
      BY <2>4, <3>1 DEF PageFits, FormShown
  <2>7. /\ form' \in FormState /\ form'.dialogs \subseteq {"error"}
        /\ form'.wallet = Nothing
    BY <2>1 DEF FreshForm, FormState, Dialogs
  <2>8. FormFits'
    BY <2>7 DEF FormFits
  <2>9. PagesTyped'
    BY <1>1, <1>2, <2>2, <2>4, <2>7 DEF PagesTyped, Created
  <2> QED
    BY <1>6, <2>2, <2>6, <2>8, <2>9 DEF PagesInv
<1> QED
  BY <1>7, <1>8 DEF Confirm

(* Every step of the pages. *)
LEMMA PagesStep == PagesInv /\ [WalletNext]_walletVars => PagesInv'
<1> SUFFICES ASSUME PagesInv, [WalletNext]_walletVars PROVE PagesInv'
  OBVIOUS
<1>1. ASSUME NEW t \in Tasks, TaskStep(t) PROVE PagesInv'
  BY <1>1, CroStepInv, EthStepInv, DeriveStepInv, FinishInv, ImportInv, StoreInv DEF TaskStep
<1>2. CASE UNCHANGED walletVars
  <2>1. UNCHANGED <<place, page, task, temp, made, stores, history>> /\ form' = form
    BY <1>2 DEF walletVars, stores, history
  <2>2. WalletsFit /\ HandlersFit /\ form \in FormState /\ task \in [Tasks -> Handler]
    BY DEF PagesInv, PagesTyped
  <2>3. Grows /\ SamePage
    BY <2>1, MadeKept
  <2>4. HandlersFit'
    BY <2>1, <2>2, <2>3, HandlersKept
  <2> QED
    BY <2>1, <2>2, <2>4, FormEdited
<1> QED
  BY <1>1, <1>2, OpenInv, BackInv, FieldsInv, ChooseCustomInv, NodeInv, SubmitInv, ConnectInv,
     CloseInv, ConfirmInv, StoreWalletInv, RestoreInv
     DEF WalletNext

(* No page is open at first, and nothing is built. *)
LEMMA InitPages == WalletInit => PagesInv
<1> SUFFICES ASSUME WalletInit PROVE PagesInv
  OBVIOUS
<1>1. PagesTyped
  <2>1. Idle \in Handler /\ page \in PageState /\ form \in FormState
    BY IdleFits DEF WalletInit, FreshPage, PageState, FreshForm, FormState, WalletKinds
  <2>2. DOMAIN made = {}
    BY DEF WalletInit
  <2>3. Created = 0
    BY <2>2, FS_EmptySet DEF Created
  <2> QED
    BY <2>1, <2>2, <2>3 DEF WalletInit, PagesTyped
<1>2. HandlersFit
  BY IdleFits DEF WalletInit, HandlersFit
<1>3. WalletsFit /\ PageFits /\ FormFits
  BY DEF WalletInit, WalletsFit, PageFits, FormFits, FreshPage, FreshForm
<1> QED
  BY <1>1, <1>2, <1>3 DEF PagesInv

(* The fields of the Ledger take no step of their own in the pages. *)
LEMMA CreationIsWallet == [CreationNext]_allVars => [WalletNext]_walletVars
<1>1. ASSUME Building \/ Filling \/ FormLeft \/ FormReplaced \/ BoxTicked PROVE WalletNext
  BY <1>1 DEF Building, Filling, FormLeft, FormReplaced, BoxTicked, WalletNext
<1>2. ASSUME CreationNext PROVE [WalletNext]_walletVars
  BY <1>1, <1>2 DEF CreationNext
<1> QED
  BY <1>2 DEF allVars

(* StoredAsAnnounced: a wallet that is stored is one the user has been told of, its
   assets stored before it, of a node that has answered, unless it is a Ledger's,
   finished by a form that was gone. *)
THEOREM WalletsStoredAsAnnounced == CreationSpec => []StoredAsAnnounced
<1>1. CreationInit => PagesInv
  BY InitPages DEF CreationInit
<1>2. PagesInv /\ [CreationNext]_allVars => PagesInv'
  BY PagesStep, CreationIsWallet
<1>3. PagesInv => StoredAsAnnounced
  BY DEF PagesInv, WalletsFit, Storable, StoredAsAnnounced
<1> QED
  BY <1>1, <1>2, <1>3, PTL DEF CreationSpec

================================================================================
