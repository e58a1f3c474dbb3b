--------------------------- MODULE AssetPagesProofs ---------------------------
(***************************************************************************)
(* What holds of the assets of a wallet for any number of coins, tokens and *)
(* refreshes in flight: settings that are saved in peace outlive every      *)
(* refresh, no asset comes back after a migration, and a refresh nothing     *)
(* disturbs writes what it was given.  And of the pages that show them, of   *)
(* any wallets, chains and proposals, with any finite number of handlers     *)
(* under way: a page shows what the user has opened, the stores are those of *)
(* the wallet of the session, and no spinner is left behind.               *)
(***************************************************************************)
EXTENDS WalletAssets, PagesTogether, FiniteSetTheorems, TLAPS

(* Records by identifier. *)
Table(records) ==
  DOMAIN records \subseteq Ids /\ records \in [DOMAIN records -> Record]

AssetsTyped ==
  /\ balance \in [Coins -> Nat] /\ owned \subseteq Tokens /\ tokens \subseteq Tokens
  /\ Table(natives) /\ Table(screen) /\ gen \in 0 .. MaxMigrations
  /\ edits \in Nat /\ receipts \in Nat
  /\ migration \in {"none", "removed", "created"}
  /\ pc \in [Runs -> PCs] /\ removing \in [Runs -> SUBSET Tokens]
  /\ seen = [r \in Runs |-> seen[r]] /\ \A r \in Runs: Table(seen[r])
  /\ status \in [Runs -> [Ids -> {"fetch", "write", "done"}]]
  /\ answer \in [Runs -> [Ids -> Nat]]
  /\ lastEdit \in [Coins -> Nat] /\ clean \in [Coins -> BOOLEAN] /\ alone \in [Runs -> BOOLEAN]

(* The records a refresh has read and not written yet. *)
Pending(r) == {i \in Ids: status[r][i] # "done"}

(* The records of the last creation. *)
Last(i) == i[2] = gen

(* All records are of the last creation, the ones a page may save, too; a refresh that has
   read others finds nothing to write them to. *)
OneCreation ==
  /\ \A i \in DOMAIN natives: Last(i)
  /\ migration = "none" => \A i \in DOMAIN screen: Last(i)
  /\ migration = "removed" => DOMAIN natives = {}
  /\ \A r \in Runs: /\ pc[r] = "idle" => Pending(r) = {}
                    /\ \A i \in Pending(r): /\ i \in DOMAIN seen[r] /\ i[2] <= gen
                                            /\ migration = "removed" => ~Last(i)

(* As long as an edit is clean, nobody holds other settings that he may still write. *)
CleanRecords ==
  \A c \in Coins: clean[c] =>
    /\ \A i \in DOMAIN natives: CoinOf(i) = c => natives[i].config = lastEdit[c]
    /\ \A r \in Runs: \A i \in Pending(r):
         CoinOf(i) = c /\ Last(i) => seen[r][i].config = lastEdit[c]

(* What a refresh that is alone has left behind so far. *)
Written(r, i) ==
  IF status[r][i] = "done" THEN [seen[r][i] EXCEPT !.amount = answer[r][i]] ELSE seen[r][i]

AloneSoFar ==
  \A r \in Runs: alone[r] =>
    /\ DOMAIN natives = DOMAIN seen[r] /\ \A i \in DOMAIN natives: natives[i] = Written(r, i)
    /\ pc[r] \in {"remove", "removeFetch"} => tokens = removing[r]
    /\ pc[r] = "tokens" => tokens = {}
    /\ pc[r] = "natives" => tokens \in {owned, {}}

-----------------------------------------------------------------------------
(* The model's operators. *)

(* A record that is put into a table, or updated in it. *)
LEMMA PutTable ==
  ASSUME NEW records, Table(records), NEW i \in Ids, NEW rec \in Record
  PROVE  /\ Table(Put(records, i, rec)) /\ DOMAIN Put(records, i, rec) = DOMAIN records \union {i}
         /\ Put(records, i, rec)[i] = rec
         /\ \A j \in DOMAIN records: j # i => Put(records, i, rec)[j] = records[j]
BY DEF Put, Table

(* updateAsset writes one record, and every other stays as it was. *)
LEMMA UpdatedTable ==
  ASSUME Table(natives), NEW i \in Ids, NEW rec \in Record
  PROVE  /\ Table(UpdateAsset(i, rec)) /\ DOMAIN UpdateAsset(i, rec) = DOMAIN natives
         /\ i \in DOMAIN natives => UpdateAsset(i, rec)[i] = rec
         /\ \A j \in DOMAIN natives: j # i => UpdateAsset(i, rec)[j] = natives[j]
<1>1. CASE i \in DOMAIN natives
  <2> DEFINE new == Put(natives, i, rec)
  <2>1. /\ Table(new) /\ DOMAIN new = DOMAIN natives \union {i} /\ new[i] = rec
        /\ \A j \in DOMAIN natives: j # i => new[j] = natives[j]
    BY PutTable
  <2>2. UpdateAsset(i, rec) = new
    BY <1>1 DEF UpdateAsset
  <2> HIDE DEF new
  <2> QED
    BY <1>1, <2>1, <2>2
<1>2. CASE i \notin DOMAIN natives
  BY <1>2 DEF UpdateAsset
<1> QED
  BY <1>1, <1>2

(* The empty table, the records of a creation, and the ones a page may still save. *)
LEMMA FreshTable ==
  ASSUME NEW g \in 0 .. MaxMigrations, NEW coins \in SUBSET Coins
  PROVE  /\ Table(Fresh(coins, g))
         /\ \A i \in DOMAIN Fresh(coins, g): /\ i[2] = g /\ CoinOf(i) \in coins
                                             /\ Fresh(coins, g)[i].config = 0
<1>1. \A c \in coins: Id(c, g) \in Ids /\ Id(c, g)[2] = g /\ CoinOf(Id(c, g)) = c
  BY DEF Id, Ids, CoinOf
<1>2. [config |-> 0, amount |-> 0] \in Record
  BY DEF Record
<1> QED
  BY <1>1, <1>2 DEF Fresh, Table

(* A table without records. *)
LEMMA EmptyTable == Table(NoRecords) /\ DOMAIN NoRecords = {}
BY DEF Table, NoRecords

(* What a load takes from the table is a table of some of its records. *)
LEMMA LoadedTable ==
  ASSUME NEW records, Table(records), NEW saves
  PROVE  Table(Loaded(records, saves)) /\ DOMAIN Loaded(records, saves) \subseteq DOMAIN records
BY EmptyTable DEF Loaded

(* Two records of a coin and of one creation are the same. *)
LEMMA OneRecord ==
  ASSUME NEW i \in Ids, NEW j \in Ids, CoinOf(i) = CoinOf(j), i[2] = j[2]
  PROVE  i = j
BY DEF Ids, CoinOf

(* What a request for a balance comes to. *)
LEMMA AnswersAreBalances ==
  ASSUME AssetsTyped, NEW r \in Runs, NEW i \in DOMAIN seen[r]
  PROVE  EvmBalances(r, i) \subseteq Nat /\ CosmosBalances(r, i) \subseteq Nat
<1>1. Table(seen[r]) /\ CoinOf(i) \in Coins
  BY DEF AssetsTyped, Table, Ids, CoinOf
<1>2. seen[r][i].amount \in Nat /\ balance[CoinOf(i)] \in Nat
  BY <1>1 DEF AssetsTyped, Table, Record
<1> QED
  BY <1>2 DEF EvmBalances, CosmosBalances

(* What a refresh writes. *)
LEMMA WritesARecord ==
  ASSUME AssetsTyped, NEW r \in Runs, NEW i \in DOMAIN seen[r]
  PROVE  /\ RecordToWrite(r, i) \in Record /\ RecordToWrite(r, i).config = seen[r][i].config
         /\ RecordToWrite(r, i) = [seen[r][i] EXCEPT !.amount = answer[r][i]]
<1>1. seen[r][i] \in Record /\ answer[r][i] \in Nat
  BY DEF AssetsTyped, Table
<1> QED
  BY <1>1 DEF RecordToWrite, Record

AssetsInv == AssetsTyped /\ OneCreation /\ CleanRecords /\ AloneSoFar

(* The invariant holds at the start. *)
LEMMA AssetsStart == Init => AssetsInv
<1> SUFFICES ASSUME Init PROVE AssetsInv
  OBVIOUS
<1>1. PICK coins \in SUBSET Coins: natives = Fresh(coins, 0)
  BY DEF Init
<1>2. 0 \in 0 .. MaxMigrations /\ MaxMigrations \in Nat
  BY ConstantsAssumption
<1>3. Table(natives) /\ \A i \in DOMAIN natives: i[2] = 0 /\ natives[i].config = 0
  BY <1>1, <1>2, FreshTable
<1>4. AssetsTyped
  BY <1>2, <1>3, EmptyTable DEF Init, AssetsTyped, PCs
<1>5. \A r \in Runs: Pending(r) = {}
  BY DEF Init, Pending
<1>6. OneCreation /\ CleanRecords /\ AloneSoFar
  <2>1. /\ gen = 0 /\ screen = natives /\ migration = "none"
        /\ lastEdit = [c \in Coins |-> 0] /\ alone = [r \in Runs |-> FALSE]
    BY DEF Init
  <2> QED
    BY <1>3, <1>5, <2>1 DEF OneCreation, CleanRecords, AloneSoFar, Last
<1> QED
  BY <1>4, <1>6 DEF AssetsInv

-----------------------------------------------------------------------------
(* The steps. *)

(* What is read of the tables stays as it is while nobody writes them. *)
LEMMA AssetsStep ==
  ASSUME AssetsInv, [Next]_vars
  PROVE  AssetsInv'
<1> USE DEF AssetsInv
<1>0. CASE UNCHANGED vars
  BY <1>0 DEF vars, AssetsTyped, OneCreation, CleanRecords, AloneSoFar, Pending, Last, Written
<1>1. ASSUME NEW c \in Coins, Receive(c) PROVE AssetsInv'
  <2>1. /\ UNCHANGED <<owned, natives, tokens, run, user>> /\ receipts' = receipts + 1
        /\ balance' = [balance EXCEPT ![c] = receipts + 1] /\ alone' = [r \in Runs |-> FALSE]
    BY <1>1 DEF Receive
  <2>2. AssetsTyped'
    BY <2>1 DEF AssetsTyped, run, user
  <2> QED
    BY <2>1, <2>2 DEF OneCreation, CleanRecords, AloneSoFar, Pending, Last, run, user
<1>2. ASSUME NEW t \in Tokens, MoveToken(t) PROVE AssetsInv'
  <2>1. /\ UNCHANGED <<balance, natives, tokens, run, user>> /\ receipts' = receipts + 1
        /\ owned' \in {owned \ {t}, owned \cup {t}} /\ alone' = [r \in Runs |-> FALSE]
    BY <1>2 DEF MoveToken
  <2>2. AssetsTyped'
    BY <2>1 DEF AssetsTyped, run, user
  <2> QED
    BY <2>1, <2>2 DEF OneCreation, CleanRecords, AloneSoFar, Pending, Last, run, user
<1>3. ASSUME NEW r \in Runs, ReadAssets(r) PROVE AssetsInv'
  <2>1. /\ UNCHANGED <<chain, natives, tokens, user, removing, answer>>
        /\ seen' = [seen EXCEPT ![r] = natives] /\ pc' = [pc EXCEPT ![r] = "readTokens"]
        /\ status' = [status EXCEPT ![r] = [i \in Ids |-> IF i \in DOMAIN natives THEN "fetch" ELSE "done"]]
        /\ alone' = [alone EXCEPT ![r] = TRUE]
    BY <1>3 DEF ReadAssets
  <2>2. AssetsTyped'
    BY <2>1 DEF AssetsTyped, chain, user, PCs
  <2>3. /\ \A s \in Runs: s # r => Pending(s)' = Pending(s) /\ seen'[s] = seen[s] /\ pc'[s] = pc[s]
        /\ Pending(r)' = DOMAIN natives /\ seen'[r] = natives /\ pc'[r] = "readTokens"
    BY <2>1 DEF AssetsTyped, Pending, Table
  <2>4. \A i \in DOMAIN natives: i \in Ids /\ Last(i) /\ i[2] = gen /\ gen <= gen
    BY DEF OneCreation, AssetsTyped, Table, Last
  <2>5. OneCreation'
    BY <2>1, <2>3, <2>4 DEF OneCreation, Last, user
  <2>6. CleanRecords'
    BY <2>1, <2>3, <2>4 DEF CleanRecords, Last, user
  <2>7. AloneSoFar'
    <3>1. \A i \in DOMAIN natives: status'[r][i] = "fetch"
      BY <2>1, <2>4 DEF AssetsTyped
    <3>2. \A s \in Runs: s # r => status'[s] = status[s] /\ alone'[s] = alone[s]
      BY <2>1 DEF AssetsTyped
    <3>3. /\ DOMAIN natives' = DOMAIN seen'[r] /\ \A i \in DOMAIN natives': natives'[i] = Written(r, i)'
      BY <2>1, <2>3, <3>1 DEF Written
    <3>4. \A s \in Runs: s # r => \A i \in DOMAIN natives: Written(s, i)' = Written(s, i)
      BY <2>1, <2>3, <3>2 DEF Written
    <3>5. ASSUME NEW s \in Runs, s # r, alone'[s]
          PROVE  DOMAIN natives' = DOMAIN seen'[s] /\ \A i \in DOMAIN natives': natives'[i] = Written(s, i)'
      BY <2>1, <2>3, <3>2, <3>4, <3>5 DEF AloneSoFar
    <3> QED
      BY <2>1, <2>3, <3>2, <3>3, <3>5 DEF AloneSoFar, chain
  <2> QED
    BY <2>2, <2>5, <2>6, <2>7
<1>4. ASSUME NEW r \in Runs, ReadTokens(r) PROVE AssetsInv'
  <2>1. /\ UNCHANGED <<chain, natives, tokens, user, seen, status, answer, alone>>
        /\ removing' = [removing EXCEPT ![r] = tokens] /\ pc[r] = "readTokens"
        /\ pc' = [pc EXCEPT ![r] = IF DOMAIN natives = {} /\ tokens = {} THEN "natives"
                                   ELSE IF HasCronos(natives) THEN "removeFetch" ELSE "remove"]
    BY <1>4 DEF ReadTokens
  <2>2. /\ \A s \in Runs: s # r => pc'[s] = pc[s] /\ removing'[s] = removing[s]
        /\ pc'[r] \in {"natives", "remove", "removeFetch"} /\ removing'[r] = tokens
        /\ pc'[r] = "natives" => tokens = {}
    BY <2>1 DEF AssetsTyped
  <2>3. AssetsTyped'
    BY <2>1, <2>2 DEF AssetsTyped, chain, user, PCs
  <2>4. OneCreation' /\ CleanRecords'
    BY <2>1, <2>2 DEF OneCreation, CleanRecords, Pending, Last, user
  <2>5. AloneSoFar'
    BY <2>1, <2>2 DEF AloneSoFar, Written, chain
  <2> QED
    BY <2>3, <2>4, <2>5
<1>5. ASSUME NEW r \in Runs, RemoveTokens(r) PROVE AssetsInv'
  <2>1. /\ UNCHANGED <<chain, natives, user, seen, status, answer>>
        /\ tokens' = tokens \ removing[r] /\ pc[r] \in {"remove", "removeFetch"}
        /\ pc' = [pc EXCEPT ![r] = IF pc[r] = "remove" THEN "natives" ELSE "tokens"]
        /\ removing' = [removing EXCEPT ![r] = {}]
        /\ alone' = [s \in Runs |-> alone[s] /\ s = r]
    BY <1>5 DEF RemoveTokens, Removed, Writes
  <2>2. /\ \A s \in Runs: s # r => pc'[s] = pc[s] /\ ~alone'[s]
        /\ pc'[r] \in {"natives", "tokens"} /\ (alone'[r] => alone[r])
    BY <2>1 DEF AssetsTyped
  <2>3. AssetsTyped'
    BY <2>1, <2>2 DEF AssetsTyped, chain, user, PCs
  <2>4. OneCreation' /\ CleanRecords'
    BY <2>1, <2>2 DEF OneCreation, CleanRecords, Pending, Last, user
  <2>5. AloneSoFar'
    <3>1. alone[r] => tokens' = {}
      BY <2>1 DEF AloneSoFar
    <3> QED
      BY <2>1, <2>2, <3>1 DEF AloneSoFar, Written, chain
  <2> QED
    BY <2>3, <2>4, <2>5
<1>6. ASSUME NEW r \in Runs, TokensAnswered(r) \/ TokensFailed(r) PROVE AssetsInv'
  <2>1. /\ UNCHANGED <<chain, natives, user, seen, removing, status, answer>>
        /\ pc[r] = "tokens" /\ pc' = [pc EXCEPT ![r] = "natives"]
        /\ \/ tokens' = tokens \cup owned /\ alone' = [s \in Runs |-> alone[s] /\ s = r]
           \/ tokens' = tokens /\ alone' = alone
    BY <1>6 DEF TokensAnswered, TokensFailed, Writes
  <2>2. /\ \A s \in Runs: s # r => pc'[s] = pc[s] /\ (alone'[s] => alone[s] /\ tokens' = tokens)
        /\ pc'[r] = "natives" /\ (alone'[r] => alone[r])
    BY <2>1 DEF AssetsTyped
  <2>3. AssetsTyped'
    BY <2>1, <2>2 DEF AssetsTyped, chain, user, PCs
  <2>4. OneCreation' /\ CleanRecords'
    BY <2>1, <2>2 DEF OneCreation, CleanRecords, Pending, Last, user
  <2>5. AloneSoFar'
    <3>1. alone[r] => tokens' \in {owned, {}}
      BY <2>1 DEF AloneSoFar
    <3> QED
      BY <2>1, <2>2, <3>1 DEF AloneSoFar, Written, chain
  <2> QED
    BY <2>3, <2>4, <2>5
<1>7. ASSUME NEW r \in Runs, NEW i \in Ids, FetchBalance(r, i) PROVE AssetsInv'
  <2>1. /\ UNCHANGED <<chain, natives, tokens, user, pc, seen, removing, alone>>
        /\ pc[r] = "natives" /\ status[r][i] = "fetch" /\ status' = [status EXCEPT ![r][i] = "write"]
    BY <1>7 DEF FetchBalance
  <2>2. i \in DOMAIN seen[r]
    BY <2>1 DEF OneCreation, Pending
  <2>3. PICK a \in Nat: answer' = [answer EXCEPT ![r][i] = a]
    BY <1>7, <2>2, AnswersAreBalances DEF FetchBalance
  <2>4. AssetsTyped'
    BY <2>1, <2>3 DEF AssetsTyped, chain, user
  <2>5. \A s \in Runs: /\ Pending(s)' = Pending(s)
                       /\ \A j \in Ids: status[s][j] = "done" <=> status'[s][j] = "done"
                       /\ \A j \in Ids: status[s][j] = "done" => answer'[s][j] = answer[s][j]
    BY <2>1, <2>3 DEF AssetsTyped, Pending
  <2>6. OneCreation' /\ CleanRecords'
    BY <2>1, <2>5 DEF OneCreation, CleanRecords, Last, user
  <2>7. AloneSoFar'
    <3>1. \A s \in Runs, j \in Ids: Written(s, j)' = Written(s, j)
      BY <2>1, <2>5 DEF Written
    <3>2. \A j \in DOMAIN natives: j \in Ids
      BY DEF AssetsTyped, Table
    <3> QED
      BY <2>1, <3>1, <3>2 DEF AloneSoFar, chain
  <2> QED
    BY <2>4, <2>6, <2>7
<1>8. ASSUME NEW r \in Runs, NEW i \in Ids, WriteBalance(r, i) PROVE AssetsInv'
  <2>1. /\ UNCHANGED <<chain, tokens, user, pc, seen, removing, answer>>
        /\ status[r][i] = "write" /\ status' = [status EXCEPT ![r][i] = "done"]
        /\ natives' = UpdateAsset(i, RecordToWrite(r, i))
        /\ alone' = [s \in Runs |-> alone[s] /\ s = r]
    BY <1>8 DEF WriteBalance, Writes
  <2>2. i \in DOMAIN seen[r] /\ i \in Pending(r)
    BY <2>1 DEF OneCreation, Pending
  <2>3. /\ RecordToWrite(r, i) \in Record /\ RecordToWrite(r, i).config = seen[r][i].config
        /\ RecordToWrite(r, i) = [seen[r][i] EXCEPT !.amount = answer[r][i]]
    BY <2>2, WritesARecord
  <2>4. /\ Table(natives') /\ DOMAIN natives' = DOMAIN natives
        /\ i \in DOMAIN natives => natives'[i] = RecordToWrite(r, i)
        /\ \A j \in DOMAIN natives: j # i => natives'[j] = natives[j]
    <3>1. PICK rec: rec = RecordToWrite(r, i)
      OBVIOUS
    <3>2. Table(natives) /\ rec \in Record /\ natives' = UpdateAsset(i, rec)
      BY <2>1, <2>3, <3>1 DEF AssetsTyped
    <3> QED
      BY <3>1, <3>2, UpdatedTable
  <2>5. AssetsTyped'
    BY <2>1, <2>4 DEF AssetsTyped, chain, user
  <2>6. \A s \in Runs: Pending(s)' \subseteq Pending(s)
    BY <2>1 DEF AssetsTyped, Pending
  <2>7. OneCreation'
    BY <2>1, <2>4, <2>6 DEF OneCreation, Last, user
  <2>8. CleanRecords'
    <3>1. ASSUME NEW c \in Coins, clean[c], NEW j \in DOMAIN natives, CoinOf(j) = c
          PROVE  natives'[j].config = lastEdit[c]
      <4>1. natives[j].config = lastEdit[c]
        BY <3>1 DEF CleanRecords
      <4>2. CASE j = i
        <5>1. Last(i)
          BY <3>1, <4>2 DEF OneCreation
        <5> QED
          BY <2>2, <2>3, <2>4, <3>1, <4>2, <5>1 DEF CleanRecords
      <4> QED
        BY <2>4, <4>1, <4>2
    <3>2. UNCHANGED <<clean, lastEdit, gen, seen>>
      BY <2>1 DEF user
    <3> QED
      BY <2>4, <2>6, <3>1, <3>2 DEF CleanRecords, Last
  <2>9. AloneSoFar'
    <3>1. \A s \in Runs: alone'[s] => s = r /\ alone[r]
      BY <2>1 DEF AssetsTyped
    <3>2. \A j \in Ids: j # i => status'[r][j] = status[r][j]
      BY <2>1 DEF AssetsTyped
    <3>3. status'[r][i] = "done"
      BY <2>1 DEF AssetsTyped
    <3>4. \A j \in DOMAIN natives: j \in Ids
      BY DEF AssetsTyped, Table
    <3>5. \A j \in Ids: Written(r, j)' = IF j = i THEN RecordToWrite(r, i) ELSE Written(r, j)
      BY <2>1, <2>3, <3>2, <3>3 DEF Written
    <3> QED
      BY <2>1, <2>4, <3>1, <3>4, <3>5 DEF AloneSoFar, chain
  <2> QED
    BY <2>5, <2>7, <2>8, <2>9
<1>9. ASSUME NEW r \in Runs, EndRefresh(r) PROVE AssetsInv'
  <2>1. /\ UNCHANGED <<chain, natives, tokens, user, removing, status>>
        /\ \A i \in Ids: status[r][i] = "done"
        /\ pc' = [pc EXCEPT ![r] = "idle"] /\ seen' = [seen EXCEPT ![r] = NoRecords]
        /\ answer' = [answer EXCEPT ![r] = [i \in Ids |-> 0]] /\ alone' = [alone EXCEPT ![r] = FALSE]
    BY <1>9 DEF EndRefresh, Done
  <2>2. /\ \A s \in Runs: s # r => /\ seen'[s] = seen[s] /\ pc'[s] = pc[s]
                                   /\ answer'[s] = answer[s] /\ alone'[s] = alone[s]
        /\ seen'[r] = NoRecords /\ pc'[r] = "idle" /\ ~alone'[r]
        /\ \A s \in Runs: Pending(s)' = Pending(s)
        /\ Pending(r) = {}
    BY <2>1 DEF AssetsTyped, Pending
  <2>3. AssetsTyped'
    BY <2>1, EmptyTable DEF AssetsTyped, chain, user, PCs
  <2>4. OneCreation'
    BY <2>1, <2>2 DEF OneCreation, Last, user
  <2>5. CleanRecords'
    BY <2>1, <2>2 DEF CleanRecords, Last, user
  <2>6. AloneSoFar'
    BY <2>1, <2>2 DEF AloneSoFar, Written, chain
  <2> QED
    BY <2>3, <2>4, <2>5, <2>6
<1>10. ASSUME LoadAssets \/ EndMigration PROVE AssetsInv'
  <2>1. /\ UNCHANGED <<chain, natives, tokens, run, gen, edits, crashes, lastEdit, clean, alone>>
        /\ screen' = Loaded(natives, edits) /\ migration' = "none"
    BY <1>10 DEF LoadAssets, EndMigration
  <2>2. Table(screen') /\ DOMAIN screen' \subseteq DOMAIN natives
    BY <2>1, LoadedTable DEF AssetsTyped
  <2>3. AssetsTyped'
    BY <2>1, <2>2 DEF AssetsTyped, chain, run
  <2>4. OneCreation' /\ CleanRecords'
    BY <2>1, <2>2 DEF OneCreation, CleanRecords, Pending, Last, run
  <2>5. AloneSoFar'
    BY <2>1 DEF AloneSoFar, Written, run, chain
  <2> QED
    BY <2>3, <2>4, <2>5
<1>11. ASSUME NEW i \in Ids, SaveSettings(i) PROVE AssetsInv'
  <2>1. PICK c, edited: c = CoinOf(i) /\ edited = [screen[i] EXCEPT !.config = edits + 1]
    OBVIOUS
  <2>2. /\ UNCHANGED <<chain, tokens, run, gen, migration>> /\ edits' = edits + 1
        /\ i \in DOMAIN screen /\ migration = "none"
        /\ natives' = Put(natives, i, edited) /\ screen' = Loaded(Put(screen, i, edited), edits + 1)
        /\ lastEdit' = [lastEdit EXCEPT ![c] = edits + 1]
        /\ clean' = [clean EXCEPT ![c] = \A r \in Runs: pc[r] = "idle"]
        /\ alone' = [r \in Runs |-> FALSE]
    BY <1>11, <2>1 DEF SaveSettings, PagesBlocked
  <2>3. edited \in Record /\ edited.config = edits + 1 /\ c \in Coins
    <3>1. screen[i] \in Record /\ edits \in Nat
      BY <2>2 DEF AssetsTyped, Table
    <3> QED
      BY <2>1, <3>1 DEF Record, Ids, CoinOf
  <2>4. /\ Table(natives') /\ DOMAIN natives' = DOMAIN natives \union {i} /\ natives'[i] = edited
        /\ \A j \in DOMAIN natives: j # i => natives'[j] = natives[j]
    <3>1. Table(natives)
      BY DEF AssetsTyped
    <3> DEFINE new == Put(natives, i, edited)
    <3>2. /\ Table(new) /\ DOMAIN new = DOMAIN natives \union {i} /\ new[i] = edited
          /\ \A j \in DOMAIN natives: j # i => new[j] = natives[j]
      <4>1. edited \in Record
        BY <2>3
      <4> QED
        BY <3>1, <4>1, PutTable
    <3>3. natives' = new
      BY <2>2
    <3> HIDE DEF new
    <3> QED
      BY <3>2, <3>3
  <2>5. Table(screen') /\ DOMAIN screen' \subseteq DOMAIN screen
    <3>1. Table(Put(screen, i, edited)) /\ DOMAIN Put(screen, i, edited) = DOMAIN screen \union {i}
      BY <2>3, PutTable DEF AssetsTyped
    <3> QED
      BY <2>2, <3>1, LoadedTable
  <2>6. AssetsTyped'
    BY <2>2, <2>3, <2>4, <2>5 DEF AssetsTyped, chain, run
  <2>7. Last(i) /\ \A j \in DOMAIN natives: Last(j) /\ j \in Ids
    BY <2>2 DEF OneCreation, AssetsTyped, Table
  <2>8. OneCreation'
    BY <2>2, <2>4, <2>5, <2>7 DEF OneCreation, Pending, Last, run
  <2>9. CleanRecords'
    <3>1. /\ \A d \in Coins: d # c => clean'[d] = clean[d] /\ lastEdit'[d] = lastEdit[d]
          /\ clean'[c] => \A r \in Runs: pc[r] = "idle"
          /\ lastEdit'[c] = edits + 1
      BY <2>2, <2>3 DEF AssetsTyped
    <3>2. \A j \in DOMAIN natives: CoinOf(j) = c => j = i
      BY <2>1, <2>7, OneRecord DEF Last
    <3>3. clean'[c] => \A r \in Runs: Pending(r) = {}
      BY <3>1 DEF OneCreation
    <3>4. \A r \in Runs: Pending(r)' = Pending(r)
      BY <2>2 DEF Pending, run
    <3>5. ASSUME NEW d \in Coins, clean'[d], NEW j \in DOMAIN natives', CoinOf(j) = d
          PROVE  natives'[j].config = lastEdit'[d]
      <4>1. CASE d = c
        <5>1. j = i
          BY <2>4, <3>2, <3>5, <4>1
        <5> QED
          BY <2>3, <2>4, <3>1, <4>1, <5>1
      <4>2. CASE d # c
        <5>1. j # i /\ j \in DOMAIN natives
          BY <2>1, <2>4, <3>5, <4>2
        <5> QED
          BY <2>4, <3>1, <3>5, <4>2, <5>1 DEF CleanRecords
      <4> QED
        BY <4>1, <4>2
    <3>6. ASSUME NEW d \in Coins, clean'[d], NEW r \in Runs, NEW j \in Pending(r), CoinOf(j) = d, Last(j)
          PROVE  seen[r][j].config = lastEdit'[d]
      <4>1. d # c
        BY <3>1, <3>3, <3>6
      <4> QED
        BY <3>1, <3>6, <4>1 DEF CleanRecords
    <3>7. UNCHANGED <<seen, gen>>
      BY <2>2 DEF run
    <3> QED
      BY <3>4, <3>5, <3>6, <3>7 DEF CleanRecords, Last
  <2>10. AloneSoFar'
    BY <2>2 DEF AloneSoFar
  <2> QED
    BY <2>6, <2>8, <2>9, <2>10
<1>12. ASSUME RemoveForMigration PROVE AssetsInv'
  <2>1. /\ UNCHANGED <<chain, run, screen, edits, lastEdit, clean>>
        /\ gen < MaxMigrations /\ gen' = gen + 1 /\ migration' = "removed"
        /\ natives' = NoRecords /\ tokens' = {} /\ alone' = [r \in Runs |-> FALSE]
    BY <1>12 DEF RemoveForMigration
  <2>2. gen \in Nat /\ MaxMigrations \in Nat /\ gen' \in 0 .. MaxMigrations
    BY <2>1, ConstantsAssumption DEF AssetsTyped
  <2>3. AssetsTyped'
    BY <2>1, <2>2, EmptyTable DEF AssetsTyped, chain, run
  <2>4. \A r \in Runs: Pending(r)' = Pending(r) /\ \A i \in Pending(r): i[2] <= gen' /\ i[2] # gen'
    <3>1. \A r \in Runs: \A i \in Pending(r): i[2] \in 0 .. MaxMigrations /\ i[2] <= gen
      BY DEF OneCreation, Pending, Ids
    <3> QED
      BY <2>1, <2>2, <3>1 DEF Pending, run
  <2>5. OneCreation' /\ CleanRecords'
    BY <2>1, <2>4, EmptyTable DEF OneCreation, CleanRecords, Last, run
  <2>6. AloneSoFar'
    BY <2>1 DEF AloneSoFar
  <2> QED
    BY <2>3, <2>5, <2>6
<1>13. ASSUME CreateForMigration PROVE AssetsInv'
  <2> DEFINE new == Fresh(Coins, gen)
  <2>1. /\ UNCHANGED <<chain, tokens, run, gen, screen, edits>> /\ migration = "removed"
        /\ migration' = "created"
        /\ natives' = [i \in DOMAIN natives \cup DOMAIN new |-> IF i \in DOMAIN new THEN new[i] ELSE natives[i]]
        /\ lastEdit' = [c \in Coins |-> 0] /\ clean' = [c \in Coins |-> TRUE]
        /\ alone' = [r \in Runs |-> FALSE]
    BY <1>13 DEF CreateForMigration
  <2>2. Table(new) /\ \A i \in DOMAIN new: i[2] = gen /\ CoinOf(i) \in Coins /\ new[i].config = 0
    BY FreshTable DEF AssetsTyped
  <2> HIDE DEF new
  <2>3. DOMAIN natives = {}
    BY <2>1 DEF OneCreation
  <2>4. natives' = new
    <3>1. natives' = [i \in DOMAIN new |-> new[i]]
      BY <2>1, <2>3
    <3> QED
      BY <2>2, <3>1 DEF Table
  <2>5. AssetsTyped'
    BY <2>1, <2>2, <2>4 DEF AssetsTyped, chain, run
  <2>6. \A r \in Runs: Pending(r)' = Pending(r) /\ \A i \in Pending(r): ~Last(i)
    BY <2>1 DEF OneCreation, Pending, run
  <2>7. OneCreation' /\ CleanRecords'
    BY <2>1, <2>2, <2>4, <2>6 DEF OneCreation, CleanRecords, Last, run
  <2>8. AloneSoFar'
    BY <2>1 DEF AloneSoFar
  <2> QED
    BY <2>5, <2>7, <2>8
<1>14. ASSUME SaveDefaults PROVE AssetsInv'
  <2> DEFINE written == {CoinOf(i) : i \in DOMAIN natives}
  <2>1. /\ UNCHANGED <<chain, tokens, run, gen, screen, migration, edits>>
        /\ natives' = [i \in DOMAIN natives |-> WithDefaults(natives[i])]
        /\ lastEdit' = [c \in Coins |-> IF c \in written THEN 0 ELSE lastEdit[c]]
        /\ clean' = [c \in Coins |-> IF c \in written THEN \A r \in Runs : pc[r] = "idle" ELSE clean[c]]
        /\ alone' = [r \in Runs |-> FALSE]
    BY <1>14 DEF SaveDefaults
  <2>2. \A i \in DOMAIN natives: WithDefaults(natives[i]) \in Record /\ WithDefaults(natives[i]).config = 0
    <3>1. \A i \in DOMAIN natives: natives[i] \in Record
      BY DEF AssetsTyped, Table
    <3> QED
      BY <3>1 DEF WithDefaults, Record
  <2>3. /\ Table(natives') /\ DOMAIN natives' = DOMAIN natives
        /\ \A i \in DOMAIN natives: natives'[i].config = 0 /\ CoinOf(i) \in written
    BY <2>1, <2>2 DEF AssetsTyped, Table
  <2> HIDE DEF written
  <2>4. AssetsTyped'
    BY <2>1, <2>3 DEF AssetsTyped, chain, run
  <2>5. \A r \in Runs: Pending(r)' = Pending(r) /\ (pc[r] = "idle" => Pending(r) = {})
    BY <2>1 DEF OneCreation, Pending, run
  <2>6. OneCreation'
    BY <2>1, <2>3, <2>5 DEF OneCreation, Last, run
  <2>7. CleanRecords'
    BY <2>1, <2>3, <2>5 DEF CleanRecords, Last, run
  <2>8. AloneSoFar'
    BY <2>1 DEF AloneSoFar
  <2> QED
    BY <2>4, <2>6, <2>7, <2>8
<1>15. ASSUME Crash PROVE AssetsInv'
  <2>1. /\ UNCHANGED <<chain, natives, tokens, gen, edits, lastEdit, clean>>
        /\ pc' = [r \in Runs |-> "idle"] /\ seen' = [r \in Runs |-> NoRecords]
        /\ removing' = [r \in Runs |-> {}] /\ status' = [r \in Runs |-> [i \in Ids |-> "done"]]
        /\ answer' = [r \in Runs |-> [i \in Ids |-> 0]] /\ alone' = [r \in Runs |-> FALSE]
        /\ migration' = "none" /\ screen' = Loaded(natives, edits)
    BY <1>15 DEF Crash
  <2>2. Table(screen') /\ DOMAIN screen' \subseteq DOMAIN natives
    BY <2>1, LoadedTable DEF AssetsTyped
  <2>3. \A r \in Runs: Pending(r)' = {}
    BY <2>1 DEF Pending
  <2>4. AssetsTyped'
    BY <2>1, <2>2, EmptyTable DEF AssetsTyped, chain, PCs
  <2>5. OneCreation' /\ CleanRecords'
    BY <2>1, <2>2, <2>3 DEF OneCreation, CleanRecords, Last
  <2>6. AloneSoFar'
    BY <2>1 DEF AloneSoFar
  <2> QED
    BY <2>4, <2>5, <2>6
<1> QED
  BY <1>0, <1>1, <1>2, <1>3, <1>4, <1>5, <1>6, <1>7, <1>8, <1>9, <1>10, <1>11, <1>12, <1>13, <1>14, <1>15
     DEF Next, RefreshStep

(* The invariant holds in every behaviour. *)
LEMMA AssetsAlways == Spec => []AssetsInv
BY AssetsStart, AssetsStep, PTL DEF Spec

(* Records removed by a migration never come back, and settings that are saved while no
   refresh is in flight outlive all that follow (CleanEditsSurvive). *)
THEOREM EditsSurvive == Spec => []CleanEditsSurvive
<1>1. AssetsInv => CleanEditsSurvive
  <2> SUFFICES ASSUME AssetsInv PROVE CleanEditsSurvive
    OBVIOUS
  <2>1. \A i \in DOMAIN natives: i \in Ids /\ i[2] = gen
    BY DEF AssetsInv, OneCreation, AssetsTyped, Table, Last
  <2>2. DOMAIN natives \subseteq {Id(c, gen) : c \in Coins}
    BY <2>1 DEF Ids, Id
  <2>3. \A c \in Coins: clean[c] => \A i \in DOMAIN natives: CoinOf(i) = c => natives[i].config = lastEdit[c]
    BY DEF AssetsInv, CleanRecords
  <2>4. \A c \in Coins: clean[c] => Settings(c) \subseteq {lastEdit[c]}
    BY <2>3 DEF Settings
  <2> QED
    BY <2>2, <2>4 DEF CleanEditsSurvive
<1> QED
  BY <1>1, AssetsAlways, PTL

(* A refresh nothing disturbs leaves every asset with what it was given, and no token the
   address no longer owns (QuietRefreshExact). *)
THEOREM RefreshesExactly == Spec => []QuietRefreshExact
<1>1. AssetsInv => QuietRefreshExact
  <2> SUFFICES ASSUME AssetsInv, NEW r \in Runs, Done(r), alone[r]
               PROVE  /\ natives = [i \in DOMAIN seen[r] |-> [seen[r][i] EXCEPT !.amount = answer[r][i]]]
                      /\ tokens \in {owned, {}}
    BY DEF QuietRefreshExact
  <2>1. /\ DOMAIN natives = DOMAIN seen[r] /\ natives = [i \in DOMAIN natives |-> natives[i]]
        /\ tokens \in {owned, {}} /\ DOMAIN natives \subseteq Ids
    BY DEF AssetsInv, AloneSoFar, AssetsTyped, Table, Done
  <2>2. \A i \in DOMAIN natives: natives[i] = [seen[r][i] EXCEPT !.amount = answer[r][i]]
    BY <2>1 DEF AssetsInv, AloneSoFar, Written, Done
  <2> QED
    BY <2>1, <2>2
<1> QED
  BY <1>1, AssetsAlways, PTL

-----------------------------------------------------------------------------
(* The pages.  Their handlers, and the React state of a page. *)
Handler ==
  [kind: Kinds, item: Items \union {Nothing}, wallet: Wallets \union {Nothing},
   here: BOOLEAN, old: BOOLEAN]

View ==
  [chosen: Items \union {Nothing}, item: Items \union {Nothing}, open: BOOLEAN,
   shows: Items \union {Nothing}, dialog: {"none", "detail", "ask", "confirm"},
   mode: {"none", "adding", "vote", "deposit", "proposal"},
   filled: Chains \union {Nothing}, spin: BOOLEAN, busy: BOOLEAN, crossed: BOOLEAN]

(* A handler whose page is still there was started on the page that is open. *)
OfThePage(j, p) ==
  j.here =>
    \/ p = "home" /\ j.kind \in {"refresh", "balances", "sync", "nfts", "push"}
    \/ p = "assets" /\ j.kind \in {"transfers", "balance", "create", "device"}
    \/ p = "governance" /\ j.kind \in Figures \union {"proposal"}
    \/ p = "nft" /\ j.kind = "nft"

(* The handlers that set the stores keep a wallet: that of the session, or they are old. *)
Keeping == {"refresh", "balance", "create", "device", "proposal", "nft"}

OfTheWallet(j, w) ==
  /\ j.kind \in Keeping => j.wallet # Nothing
  /\ j.wallet # Nothing => j.wallet = w \/ j.old

(* Unless something else was awaited when an item was opened, all that is still awaited
   for the page is about that item. *)
OfTheItem(j, p, v) ==
  v.open /\ ~v.crossed =>
    /\ p = "assets" /\ j.kind \in {"transfers", "balance"} => j.here /\ j.item = v.chosen
    /\ p = "governance" /\ j.here /\ j.kind \in Figures => j.item = v.chosen

Fits(j, p, v, w) == OfThePage(j, p) /\ OfTheWallet(j, w) /\ OfTheItem(j, p, v)
HandlersFit == \A t \in Tasks: Fits(task[t], page, view, wallet)

(* A dialog is about the item that is open, and the values of a transfer are filled in
   whenever it is going to be confirmed. *)
DialogsFit ==
  /\ view.open => page \in {"assets", "governance"}
  /\ page = "governance" /\ view.dialog # "none" /\ view.mode \in {"vote", "deposit"} =>
       view.open
  /\ page = "nft" =>
       /\ view.item = view.chosen /\ view.item \in Chains \union {Nothing}
       /\ view.dialog = "confirm" => view.filled = view.item
       /\ view.dialog # "none" /\ opened => assetChain = view.item

(* The asset all pages share is the CRO asset unless an NFT has been opened. *)
SharedAsset == assetChain = "cro" \/ opened

PagesInv ==
  /\ PagesTypeOK
  /\ HandlersFit
  /\ StoresFollowTheWallet
  /\ DialogsFit
  /\ SharedAsset
  /\ ShownIsChosen
  /\ SpinnersAreServed

-----------------------------------------------------------------------------
(* Handlers that are started. *)

(* The handlers `started` are under way in `new`, in slots that were idle. *)
Joined(old, new, started) ==
  /\ new \in [Tasks -> Handler]
  /\ \A t \in Tasks: new[t] = old[t] \/ (old[t] = Idle /\ new[t] \in started)
  /\ \A k \in started: \E t \in Tasks: old[t] = Idle /\ new[t] = k

OneToOne(f, S) == \A k, l \in S: f[k] = f[l] => k = l

(* Two handlers at most are started at once, and there are slots for them. *)
LEMMA Slots ==
  ASSUME NEW free, IsFiniteSet(free), NEW a, NEW b, a # b,
         NEW started, started = {} \/ started = {a} \/ started = {a, b},
         Cardinality(free) >= Cardinality(started)
  PROVE  \E f \in [started -> free]: OneToOne(f, started)
<1>1. CASE started = {}
  <2>1. [k \in {} |-> k] \in [started -> free]
    BY <1>1
  <2> QED
    BY <2>1, <1>1 DEF OneToOne
<1>2. CASE started = {a}
  <2>1. Cardinality(started) = 1
    BY <1>2, FS_Singleton
  <2>2. free # {}
    BY <2>1, FS_EmptySet
  <2>3. PICK x \in free: TRUE
    BY <2>2
  <2>4. [k \in started |-> x] \in [started -> free]
    BY <2>3
  <2> QED
    BY <2>4, <1>2 DEF OneToOne
<1>3. CASE started = {a, b}
  <2>1. Cardinality(started) = 2
    <3>1. Cardinality({a}) = 1 /\ IsFiniteSet({a})
      BY FS_Singleton
    <3>2. Cardinality({a} \union {b}) = 2
      BY <3>1, FS_AddElement
    <3>3. {a} \union {b} = started
      BY <1>3
    <3> QED
      BY <3>2, <3>3
  <2>2. free # {} /\ Cardinality(free) \in Nat
    BY <2>1, FS_EmptySet, FS_CardinalityType
  <2>3. PICK x \in free: TRUE
    BY <2>2
  <2>4. Cardinality(free \ {x}) = Cardinality(free) - 1 /\ IsFiniteSet(free \ {x})
    BY <2>3, FS_RemoveElement
  <2>5. free \ {x} # {}
    BY <2>1, <2>2, <2>4, FS_EmptySet
  <2>6. PICK y \in free: y # x
    BY <2>5
  <2> DEFINE f == [k \in started |-> IF k = a THEN x ELSE y]
  <2>7. f \in [started -> free]
    BY <2>3, <2>6
  <2>8. OneToOne(f, started)
    BY <2>6, <1>3 DEF OneToOne
  <2> QED
    BY <2>7, <2>8
<1> QED
  BY <1>1, <1>2, <1>3

(* What `Begin` returns: each handler that is started is in a slot of its own. *)
LEMMA Begun ==
  ASSUME NEW tasks \in [Tasks -> Handler],
         NEW a \in Handler, NEW b \in Handler, a # b,
         NEW started, started = {} \/ started = {a} \/ started = {a, b},
         Cardinality({t \in Tasks: tasks[t] = Idle}) >= Cardinality(started)
  PROVE  Joined(tasks, Begin(started, tasks), started)
<1> DEFINE free == {t \in Tasks: tasks[t] = Idle}
           slot == CHOOSE f \in [started -> free]:
                     \A k, l \in started: f[k] = f[l] => k = l
           new == [t \in Tasks |-> IF \E k \in started: slot[k] = t
                                   THEN CHOOSE k \in started: slot[k] = t ELSE tasks[t]]
<1>1. IsFiniteSet(free)
  BY FS_Subset, PagesAssumption
<1>2. \E f \in [started -> free]: OneToOne(f, started)
  <2>1. Cardinality(free) >= Cardinality(started)
    OBVIOUS
  <2>2. a # b /\ (started = {} \/ started = {a} \/ started = {a, b})
    OBVIOUS
  <2> HIDE DEF free
  <2> QED
    BY <1>1, <2>1, <2>2, Slots, Zenon
<1>3. slot \in [started -> free] /\ OneToOne(slot, started)
  BY <1>2 DEF OneToOne
<1>4. new = Begin(started, tasks)
  BY DEF Begin
<1> HIDE DEF slot
<1>5. \A t \in Tasks: IF \E k \in started: slot[k] = t
                      THEN new[t] \in started /\ slot[new[t]] = t ELSE new[t] = tasks[t]
  OBVIOUS
<1>6. \A k \in started: slot[k] \in free /\ new[slot[k]] = k
  BY <1>3, <1>5
<1>7. started \subseteq Handler
  OBVIOUS
<1>8. \A t \in Tasks: new[t] \in Handler
  BY <1>5, <1>7
<1>9. new \in [Tasks -> Handler]
  BY <1>8
<1>10. \A t \in Tasks: new[t] = tasks[t] \/ (tasks[t] = Idle /\ new[t] \in started)
  <2> SUFFICES ASSUME NEW t \in Tasks, new[t] # tasks[t]
               PROVE  tasks[t] = Idle /\ new[t] \in started
    OBVIOUS
  <2>1. new[t] \in started /\ slot[new[t]] = t
    BY <1>5
  <2> QED
    BY <2>1, <1>6
<1> HIDE DEF new
<1> QED
  BY <1>4, <1>6, <1>9, <1>10 DEF Joined

(* What holds of all handlers, and of those that are started, holds of them together. *)
LEMMA JoinedFit ==
  ASSUME NEW old, NEW new, NEW started, Joined(old, new, started),
         NEW p, NEW v, NEW w, \A t \in Tasks: Fits(old[t], p, v, w),
         \A k \in started: Fits(k, p, v, w)
  PROVE  \A t \in Tasks: Fits(new[t], p, v, w)
BY DEF Joined

(* A handler that is under way stays where it is. *)
LEMMA JoinedGoing ==
  ASSUME NEW old, NEW new, NEW started, Joined(old, new, started)
  PROVE  \A t \in Tasks: old[t].kind # "idle" => new[t] = old[t]
BY DEF Joined, Idle

(* What a click starts. *)
LEMMA StartsOne ==
  ASSUME task \in [Tasks -> Handler], NEW k \in Handler, Starts({k})
  PROVE  Joined(task, task', {k})
<1>1. PICK other \in Handler: other # k
  <2>1. [k EXCEPT !.here = ~k.here] \in Handler /\ [k EXCEPT !.here = ~k.here].here # k.here
    BY DEF Handler
  <2> QED
    BY <2>1
<1>2. Cardinality({t \in Tasks: task[t] = Idle}) >= Cardinality({k}) /\ task' = Begin({k}, task)
  BY DEF Starts, IdleTasks
<1>3. Joined(task, Begin({k}, task), {k})
  BY <1>1, <1>2, Begun
<1> QED
  BY <1>2, <1>3

(* Starting nothing changes no slot. *)
LEMMA StartsNone ==
  ASSUME task \in [Tasks -> Handler], Starts({}), NEW k \in Handler
  PROVE  Joined(task, task', {})
<1>1. PICK other \in Handler: other # k
  <2>1. [k EXCEPT !.here = ~k.here] \in Handler /\ [k EXCEPT !.here = ~k.here].here # k.here
    BY DEF Handler
  <2> QED
    BY <2>1
<1>2. Cardinality({t \in Tasks: task[t] = Idle}) >= Cardinality({}) /\ task' = Begin({}, task)
  BY DEF Starts, IdleTasks
<1>3. Joined(task, Begin({}, task), {})
  BY <1>1, <1>2, Begun
<1> QED
  BY <1>2, <1>3

(* A click that starts two handlers. *)
LEMMA StartsTwo ==
  ASSUME task \in [Tasks -> Handler], NEW j \in Handler, NEW k \in Handler, j # k, Starts({j, k})
  PROVE  Joined(task, task', {j, k})
<1>1. Cardinality({t \in Tasks: task[t] = Idle}) >= Cardinality({j, k})
      /\ task' = Begin({j, k}, task)
  BY DEF Starts, IdleTasks
<1>2. Joined(task, Begin({j, k}, task), {j, k})
  BY <1>1, Begun
<1> QED
  BY <1>1, <1>2

(* fetchingDBState is set; on the home page that may start a refresh. *)
Again(value) == page = "home" /\ fetching # value

(* Setting fetchingDBState, which on the home page starts one handler more. *)
LEMMA Fetched ==
  ASSUME PagesTypeOK, NEW tasks \in [Tasks -> Handler], NEW value, NEW a \in Handler,
         a.kind # "refresh", NEW started, started = {} \/ started = {a},
         Fetches(value, tasks, started)
  PROVE  /\ fetching' = value /\ missed' = (missed /\ value)
         /\ Refresh \in Handler
         /\ Again(value) => /\ Joined(tasks, task', started \union {Refresh})
                            /\ view' = [view EXCEPT !.spin = TRUE]
         /\ ~Again(value) => Joined(tasks, task', started) /\ view' = view
<1>1. stores.session \in Wallets
  BY DEF PagesTypeOK, Stores
<1>2. "refresh" \in Kinds /\ Nothing \in Items \union {Nothing}
  BY DEF Kinds
<1>3. Refresh \in Handler /\ Refresh.kind = "refresh"
  BY <1>1, <1>2 DEF Refresh, Keeps, Handler
<1>4. CASE Again(value)
  <2>1. /\ Cardinality({t \in Tasks: tasks[t] = Idle}) >= Cardinality(started \union {Refresh})
        /\ task' = Begin(started \union {Refresh}, tasks)
        /\ fetching' = value /\ missed' = (missed /\ value)
        /\ view' = [view EXCEPT !.spin = TRUE]
    BY <1>4 DEF Fetches, Again
  <2>2. \/ started \union {Refresh} = {Refresh}
        \/ started \union {Refresh} = {Refresh, a}
    OBVIOUS
  <2>3. a # Refresh
    BY <1>3
  <2>4. Joined(tasks, Begin(started \union {Refresh}, tasks), started \union {Refresh})
    BY <1>3, <2>1, <2>2, <2>3, Begun
  <2> QED
    BY <1>3, <1>4, <2>1, <2>4
<1>5. CASE ~Again(value)
  <2>1. /\ Cardinality({t \in Tasks: tasks[t] = Idle}) >= Cardinality(started \union {})
        /\ task' = Begin(started \union {}, tasks)
        /\ fetching' = value /\ missed' = (missed /\ value)
        /\ view' = view
    BY <1>5 DEF Fetches, Again
  <2>2. started \union {} = started
    OBVIOUS
  <2>3. a # Refresh
    BY <1>3
  <2>4. Joined(tasks, Begin(started, tasks), started)
    BY <1>3, <2>1, <2>2, <2>3, Begun
  <2> QED
    BY <1>3, <1>5, <2>1, <2>2, <2>4
<1> QED
  BY <1>4, <1>5

-----------------------------------------------------------------------------
(* Clicks that change the React state of the page alone. *)

(* The parts of the type invariant most steps need. *)
LEMMA TypedParts ==
  PagesTypeOK =>
    /\ page \in Pages /\ view \in View /\ task \in [Tasks -> Handler]
    /\ wallet \in Wallets /\ stores \in [Stores -> Wallets] /\ stores.session \in Wallets
    /\ stores.rows \in Wallets
BY DEF PagesTypeOK, View, Handler, Stores

(* A step that only changes the React state, and opens nothing. *)
LEMMA ViewOnly ==
  ASSUME PagesInv, UNCHANGED <<page, task, session, assets, spinners>>,
         view' \in View, view'.spin = view.spin, view'.busy = view.busy,
         view'.open /\ ~view'.crossed =>
           /\ view.open /\ ~view.crossed
           /\ view'.item = view.item /\ view'.chosen = view.chosen /\ view'.shows = view.shows,
         DialogsFit'
  PROVE  PagesInv'
<1>1. PagesTypeOK'
  BY DEF PagesInv, PagesTypeOK, View, session, assets, spinners
<1>2. HandlersFit'
  BY DEF PagesInv, HandlersFit, Fits, OfThePage, OfTheWallet, OfTheItem, session
<1>3. StoresFollowTheWallet' /\ SharedAsset'
  BY DEF PagesInv, StoresFollowTheWallet, SharedAsset, session, assets
<1>4. ShownIsChosen'
  BY DEF PagesInv, ShownIsChosen, spinners
<1>5. SpinnersAreServed'
  BY DEF PagesInv, SpinnersAreServed, spinners
<1> QED
  BY <1>1, <1>2, <1>3, <1>4, <1>5 DEF PagesInv

(* The asset is closed. *)
LEMMA CloseAssetInv == PagesInv /\ CloseAsset => PagesInv'
<1> SUFFICES ASSUME PagesInv, CloseAsset PROVE PagesInv'
  OBVIOUS
<1>1. view \in View /\ DialogsFit
  BY TypedParts DEF PagesInv
<1>2. /\ view' \in View /\ ~view'.open /\ view'.spin = view.spin /\ view'.busy = view.busy
      /\ page' = "assets"
  BY <1>1 DEF CloseAsset, View
<1>3. DialogsFit'
  BY <1>2 DEF DialogsFit
<1> QED
  BY <1>2, <1>3, ViewOnly DEF CloseAsset

(* A missing asset is asked for. *)
LEMMA EnableAssetInv == PagesInv /\ EnableAsset => PagesInv'
<1> SUFFICES ASSUME PagesInv, EnableAsset PROVE PagesInv'
  OBVIOUS
<1>1. view \in View /\ DialogsFit
  BY TypedParts DEF PagesInv
<1>2. /\ view' \in View /\ ~view'.open /\ view'.spin = view.spin /\ view'.busy = view.busy
      /\ page' = "assets"
  BY <1>1 DEF EnableAsset, View
<1>3. DialogsFit'
  BY <1>2 DEF DialogsFit
<1> QED
  BY <1>2, <1>3, ViewOnly DEF EnableAsset

(* The dialog of the page changes, and its mode. *)
SameItem == /\ view'.open = view.open /\ view'.crossed = view.crossed
            /\ view'.item = view.item /\ view'.chosen = view.chosen /\ view'.shows = view.shows
            /\ view'.spin = view.spin /\ view'.busy = view.busy

(* A step that only turns to another dialog about the same item. *)
LEMMA DialogOnly ==
  ASSUME PagesInv, UNCHANGED <<page, task, session, assets, spinners>>,
         view' \in View, SameItem, DialogsFit'
  PROVE  PagesInv'
BY ViewOnly DEF SameItem

(* The dialog of the missing asset is closed. *)
LEMMA CancelEnableInv == PagesInv /\ CancelEnable => PagesInv'
<1> SUFFICES ASSUME PagesInv, CancelEnable PROVE PagesInv'
  OBVIOUS
<1>1. view \in View /\ DialogsFit
  BY TypedParts DEF PagesInv
<1>2. view' \in View /\ SameItem /\ page' = "assets"
  BY <1>1 DEF CancelEnable, View, SameItem
<1>3. DialogsFit'
  BY <1>1, <1>2 DEF DialogsFit, SameItem
<1> QED
  BY <1>2, <1>3, DialogOnly DEF CancelEnable

(* A proposal the user has voted on is opened from the history. *)
LEMMA OpenVotedInv == \A p \in Proposals: PagesInv /\ OpenVoted(p) => PagesInv'
<1> SUFFICES ASSUME NEW p \in Proposals, PagesInv, OpenVoted(p) PROVE PagesInv'
  OBVIOUS
<1>1. view \in View /\ DialogsFit /\ p \in Items \union {Nothing}
  BY TypedParts DEF PagesInv, Items
<1>2. /\ view' \in View /\ view'.crossed /\ view'.spin = view.spin /\ view'.busy = view.busy
      /\ page' = "governance" /\ view'.open
  BY <1>1 DEF OpenVoted, View
<1>3. DialogsFit'
  BY <1>2 DEF DialogsFit
<1> QED
  BY <1>2, <1>3, ViewOnly DEF OpenVoted

(* The proposal is closed. *)
LEMMA CloseProposalInv == PagesInv /\ CloseProposal => PagesInv'
<1> SUFFICES ASSUME PagesInv, CloseProposal PROVE PagesInv'
  OBVIOUS
<1>1. view \in View /\ DialogsFit
  BY TypedParts DEF PagesInv
<1>2. /\ view' \in View /\ ~view'.open /\ view'.spin = view.spin /\ view'.busy = view.busy
      /\ page' = "governance" /\ view'.dialog = "none"
  BY <1>1 DEF CloseProposal, View, NoDialog
<1>3. DialogsFit'
  BY <1>2 DEF DialogsFit
<1> QED
  BY <1>2, <1>3, ViewOnly DEF CloseProposal

(* A vote is asked for. *)
LEMMA AskVoteInv == PagesInv /\ AskVote => PagesInv'
<1> SUFFICES ASSUME PagesInv, AskVote PROVE PagesInv'
  OBVIOUS
<1>1. view \in View /\ DialogsFit
  BY TypedParts DEF PagesInv
<1>2. view' \in View /\ SameItem /\ page' = "governance" /\ view'.open
  BY <1>1 DEF AskVote, Asked, View, SameItem
<1>3. DialogsFit'
  BY <1>2 DEF DialogsFit
<1> QED
  BY <1>2, <1>3, DialogOnly DEF AskVote

(* A new proposal is asked for. *)
LEMMA AskProposalInv == PagesInv /\ AskProposal => PagesInv'
<1> SUFFICES ASSUME PagesInv, AskProposal PROVE PagesInv'
  OBVIOUS
<1>1. view \in View /\ DialogsFit
  BY TypedParts DEF PagesInv
<1>2. /\ view' \in View /\ SameItem /\ page' = "governance" /\ ~view'.open
      /\ view'.mode = "proposal"
  BY <1>1 DEF AskProposal, Asked, View, SameItem
<1>3. DialogsFit'
  BY <1>2 DEF DialogsFit
<1> QED
  BY <1>2, <1>3, DialogOnly DEF AskProposal

(* A deposit is asked for. *)
LEMMA AskDepositInv == PagesInv /\ AskDeposit => PagesInv'
<1> SUFFICES ASSUME PagesInv, AskDeposit PROVE PagesInv'
  OBVIOUS
<1>1. view \in View /\ DialogsFit
  BY TypedParts DEF PagesInv
<1>2. view' \in View /\ SameItem /\ page' = "governance" /\ view'.open
  BY <1>1 DEF AskDeposit, View, SameItem
<1>3. DialogsFit'
  BY <1>2 DEF DialogsFit
<1> QED
  BY <1>2, <1>3, DialogOnly DEF AskDeposit

(* The dialogs of the governance page that are open already. *)
LEMMA GoesOnAsking ==
  ASSUME PagesInv, page = "governance", view.dialog # "none",
         NEW d \in {"none", "confirm"}, view' = [view EXCEPT !.dialog = d],
         UNCHANGED <<page, task, session, assets, spinners>>
  PROVE  PagesInv'
<1>1. view \in View /\ DialogsFit
  BY TypedParts DEF PagesInv
<1>2. view' \in View /\ SameItem /\ view'.mode = view.mode
  BY <1>1 DEF View, SameItem
<1>3. DialogsFit'
  BY <1>1, <1>2 DEF DialogsFit, SameItem
<1> QED
  BY <1>2, <1>3, DialogOnly

(* The dialogs of the governance page are filled in, or closed. *)
LEMMA AsksInv == PagesInv /\ (Asks \/ FillDeposit \/ CancelGovernance) => PagesInv'
BY GoesOnAsking DEF Asks, FillDeposit, CancelGovernance, NoDialog

(* The dialogs of the NFTs page. *)
LEMMA NftDialog ==
  ASSUME PagesInv, page = "nft", view.dialog # "none",
         NEW d \in {"none", "detail", "ask"}, view' = [view EXCEPT !.dialog = d],
         UNCHANGED <<page, task, session, assets, spinners>>
  PROVE  PagesInv'
<1>1. view \in View /\ DialogsFit
  BY TypedParts DEF PagesInv
<1>2. view' \in View /\ SameItem /\ view'.mode = view.mode /\ view'.dialog = d
  BY <1>1 DEF View, SameItem
<1>3. DialogsFit'
  BY <1>1, <1>2 DEF DialogsFit, SameItem, assets
<1> QED
  BY <1>2, <1>3, DialogOnly

(* The dialogs of an NFT are turned. *)
LEMMA NftTurnsInv ==
  PagesInv /\ (CloseNft \/ AskTransfer \/ AskTokenTransfer \/ BackToNft \/ BackToRecipient) => PagesInv'
<1> SUFFICES ASSUME PagesInv, CloseNft \/ AskTransfer \/ AskTokenTransfer \/ BackToNft
                              \/ BackToRecipient
             PROVE PagesInv'
  OBVIOUS
<1>1. PICK from \in {"detail", "ask", "confirm"}, to \in {"none", "detail", "ask"}:
        Turns(from, to)
  BY DEF CloseNft, AskTransfer, AskTokenTransfer, BackToNft, BackToRecipient
<1> QED
  BY <1>1, NftDialog DEF Turns

(* The recipient is filled in, for the NFT that is shown. *)
LEMMA FillInInv == PagesInv /\ FillIn => PagesInv'
<1> SUFFICES ASSUME PagesInv, FillIn PROVE PagesInv'
  OBVIOUS
<1>1. view \in View /\ DialogsFit
  BY TypedParts DEF PagesInv
<1>2. view.item \in Chains \union {Nothing}
  BY <1>1 DEF FillIn, DialogsFit
<1>3. /\ view' \in View /\ SameItem /\ view'.mode = view.mode /\ view'.dialog = "confirm"
      /\ view'.filled = view.item
  BY <1>1, <1>2 DEF FillIn, View, SameItem
<1>4. DialogsFit'
  BY <1>1, <1>3 DEF DialogsFit, SameItem, assets, FillIn
<1> QED
  BY <1>3, <1>4, DialogOnly DEF FillIn

-----------------------------------------------------------------------------
(* What changes with the handlers and the stores. *)

(* A handler that fits still does when nothing is opened. *)
LEMMA StillFits ==
  ASSUME NEW j, NEW p, NEW v, NEW w, NEW next, Fits(j, p, v, w),
         next.open /\ ~next.crossed => v.open /\ ~v.crossed /\ next.chosen = v.chosen
  PROVE  Fits(j, p, next, w)
BY DEF Fits, OfThePage, OfTheWallet, OfTheItem

(* An empty slot fits everywhere. *)
LEMMA IdleFits ==
  /\ Idle \in Handler
  /\ \A p, v, w: Fits(Idle, p, v, w)
<1>1. Idle \in Handler
  BY DEF Idle, Handler, Kinds
<1>2. \A p, v, w: Fits(Idle, p, v, w)
  BY DEF Idle, Fits, OfThePage, OfTheWallet, OfTheItem, Keeping, Figures
<1> QED
  BY <1>1, <1>2

(* A handler ends, the others go on. *)
LEMMA EndedFit ==
  ASSUME task \in [Tasks -> Handler], NEW t \in Tasks, Ends(t), NEW p, NEW v, NEW w,
         \A u \in Tasks: u # t => Fits(task[u], p, v, w)
  PROVE  /\ task' \in [Tasks -> Handler] /\ \A u \in Tasks: Fits(task'[u], p, v, w)
         /\ \A u \in Tasks: u # t => task'[u] = task[u]
BY IdleFits DEF Ends

(* A handler goes on as one of another kind, without a wallet. *)
LEMMA BecomesFit ==
  ASSUME task \in [Tasks -> Handler], NEW t \in Tasks, NEW kind \in Kinds, Becomes(t, kind)
  PROVE  /\ task' \in [Tasks -> Handler]
         /\ \A u \in Tasks: u # t => task'[u] = task[u]
         /\ task'[t].kind = kind /\ task'[t].item = task[t].item
         /\ task'[t].here = task[t].here /\ task'[t].wallet = Nothing /\ ~task'[t].old
<1> DEFINE k == [New(kind, task[t].item) EXCEPT !.here = task[t].here]
<1>1. task[t].item \in Items \union {Nothing} /\ task[t].here \in BOOLEAN
  BY DEF Handler
<1>2. k \in Handler
  BY <1>1 DEF New, Handler
<1>3. /\ k.kind = kind /\ k.item = task[t].item /\ k.here = task[t].here
      /\ k.wallet = Nothing /\ ~k.old
  BY DEF New
<1>4. task' = [task EXCEPT ![t] = k]
  BY DEF Becomes
<1> HIDE DEF k
<1> QED
  BY <1>2, <1>3, <1>4

(* Stores set for the wallet of the session, or by an old handler, follow it. *)
LEMMA SetsFollow ==
  ASSUME PagesTypeOK, StoresFollowTheWallet, NEW names \in SUBSET Stores, NEW w \in Wallets,
         NEW stale \in BOOLEAN, w = wallet \/ stale, Sets(names, w, stale), wallet' = wallet
  PROVE  /\ stores' \in [Stores -> Wallets] /\ late' \in SUBSET Stores
         /\ StoresFollowTheWallet'
<1>1. stores' = [s \in Stores |-> IF s \in names THEN w ELSE stores[s]]
      /\ late' = IF stale THEN late \union names ELSE late \ names
  BY DEF Sets
<1>2. stores \in [Stores -> Wallets] /\ late \in SUBSET Stores
  BY DEF PagesTypeOK
<1>3. \A s \in Stores: stores'[s] = wallet' \/ s \in late'
  BY <1>1, <1>2 DEF StoresFollowTheWallet
<1> QED
  BY <1>1, <1>2, <1>3 DEF StoresFollowTheWallet

(* So they do when the CRO asset becomes the current one. *)
LEMMA SetsDefaultFollow ==
  ASSUME PagesTypeOK, StoresFollowTheWallet, NEW names \in SUBSET Stores, NEW w \in Wallets,
         NEW stale \in BOOLEAN, w = wallet \/ stale, SetsDefault(names, w, stale),
         wallet' = wallet
  PROVE  /\ stores' \in [Stores -> Wallets] /\ late' \in SUBSET Stores
         /\ StoresFollowTheWallet' /\ SharedAsset' /\ assetChain' \in Chains
         /\ assetChain' = "cro" /\ ~opened' /\ opened' \in BOOLEAN
<1>1. names \union {"asset"} \in SUBSET Stores
  BY DEF Stores
<1>2. Sets(names \union {"asset"}, w, stale) /\ assetChain' = "cro" /\ opened' = FALSE
  BY DEF SetsDefault, DefaultChain
<1> QED
  BY <1>1, <1>2, SetsFollow DEF SharedAsset, Chains

(* A step that leaves the stores alone. *)
LEMMA SameStores ==
  ASSUME PagesInv, UNCHANGED <<session, assets>>
  PROVE  StoresFollowTheWallet' /\ SharedAsset'
BY DEF PagesInv, StoresFollowTheWallet, SharedAsset, session, assets

Going(tasks, kinds) == \E t \in Tasks: tasks[t].kind \in kinds
GoingHere(tasks, kinds) == \E t \in Tasks: tasks[t].kind \in kinds /\ tasks[t].here

Readers == {"sync", "nfts", "push", "create"}
Senders == Sends \union {"voted"}
Refreshers == {"refresh", "balances"}

Served(p, v, tasks, f, l, m) ==
  /\ f => m \/ Going(tasks, Readers)
  /\ l => Going(tasks, {"transfers"})
  /\ p = "home" /\ v.spin => GoingHere(tasks, Refreshers)
  /\ v.busy => GoingHere(tasks, Senders)

(* The invariant about the spinners, with its variables as arguments. *)
LEMMA ServedIsServed ==
  /\ SpinnersAreServed <=> Served(page, view, task, fetching, loading, missed)
  /\ SpinnersAreServed' <=> Served(page', view', task', fetching', loading', missed')
BY DEF SpinnersAreServed, Served, Going, GoingHere, Readers, Senders, Refreshers

(* Starting handlers ends none. *)
LEMMA JoinedStillGoing ==
  ASSUME NEW old, NEW new, NEW started, Joined(old, new, started), NEW kinds,
         "idle" \notin kinds
  PROVE  /\ Going(old, kinds) => Going(new, kinds)
         /\ GoingHere(old, kinds) => GoingHere(new, kinds)
         /\ \A k \in started: k.kind \in kinds => Going(new, kinds)
         /\ \A k \in started: k.kind \in kinds /\ k.here => GoingHere(new, kinds)
<1>1. \A t \in Tasks: old[t].kind \in kinds => new[t] = old[t]
  BY JoinedGoing
<1>2. \A k \in started: \E t \in Tasks: new[t] = k
  BY DEF Joined
<1> QED
  BY <1>1, <1>2 DEF Going, GoingHere

(* Starting handlers leaves no spinner behind. *)
LEMMA JoinedServed ==
  ASSUME NEW old, NEW new, NEW started, Joined(old, new, started),
         NEW p, NEW v, NEW f, NEW l, NEW m, Served(p, v, old, f, l, m)
  PROVE  Served(p, v, new, f, l, m)
<1>1. /\ "idle" \notin Readers /\ "idle" \notin {"transfers"}
      /\ "idle" \notin Refreshers /\ "idle" \notin Senders
  BY DEF Readers, Refreshers, Senders, Sends
<1> QED
  BY <1>1, JoinedStillGoing DEF Served

-----------------------------------------------------------------------------
(* Clicks that start a handler. *)

(* A handler is started on the page that is open; the rest of the page is as it was, but
   for what it says is going on. *)
LEMMA StartsOnPage ==
  ASSUME PagesInv, NEW k \in Handler, Starts({k}), UNCHANGED <<page, session>>,
         view' \in View, view'.open = view.open, view'.crossed = view.crossed,
         view'.item = view.item, view'.chosen = view.chosen, view'.shows = view.shows,
         view'.spin = view.spin, DialogsFit', Fits(k, page, view, wallet)
  PROVE  /\ task' \in [Tasks -> Handler] /\ HandlersFit'
         /\ Joined(task, task', {k})
<1>1. task \in [Tasks -> Handler]
  BY TypedParts DEF PagesInv
<1>2. Joined(task, task', {k})
  BY <1>1, StartsOne
<1>3. \A t \in Tasks: Fits(task'[t], page, view, wallet)
  BY <1>2, JoinedFit DEF PagesInv, HandlersFit
<1>4. \A t \in Tasks: Fits(task'[t], page', view', wallet')
  BY <1>3, StillFits DEF session
<1> QED
  BY <1>2, <1>4 DEF HandlersFit, Joined

(* The button that sends: the handler it starts is the one it waits for. *)
LEMMA SendsOnPage ==
  ASSUME PagesInv, NEW k \in Handler, k.kind \in Sends, k.here, Starts({k}),
         UNCHANGED <<page, session, assets, spinners>>,
         view' = [view EXCEPT !.busy = TRUE], Fits(k, page, view, wallet)
  PROVE  PagesInv'
<1>1. view \in View /\ DialogsFit
  BY TypedParts DEF PagesInv
<1>2. /\ view' \in View /\ view'.open = view.open /\ view'.crossed = view.crossed
      /\ view'.item = view.item /\ view'.chosen = view.chosen /\ view'.shows = view.shows
      /\ view'.spin = view.spin /\ view'.dialog = view.dialog /\ view'.mode = view.mode
      /\ view'.filled = view.filled
  BY <1>1 DEF View
<1>3. DialogsFit'
  BY <1>1, <1>2 DEF DialogsFit, assets
<1>4. task' \in [Tasks -> Handler] /\ HandlersFit' /\ Joined(task, task', {k})
  BY <1>2, <1>3, StartsOnPage
<1>5. StoresFollowTheWallet' /\ SharedAsset'
  BY SameStores
<1>6. ShownIsChosen'
  BY <1>2 DEF PagesInv, ShownIsChosen, spinners
<1>7. PagesTypeOK'
  BY <1>2, <1>4 DEF PagesInv, PagesTypeOK, View, Handler, session, assets, spinners
<1>8. SpinnersAreServed'
  <2>1. Served(page, view, task', fetching, loading, missed)
    BY <1>4, JoinedServed, ServedIsServed DEF PagesInv
  <2>2. GoingHere(task', Senders)
    BY <1>4, JoinedStillGoing DEF Senders, Sends
  <2>3. Served(page', view', task', fetching', loading', missed')
    BY <1>2, <2>1, <2>2 DEF Served, spinners
  <2> QED
    BY <2>3, ServedIsServed
<1> QED
  BY <1>3, <1>4, <1>5, <1>6, <1>7, <1>8 DEF PagesInv

(* A vote or a deposit is confirmed. *)
LEMMA ConfirmVoteInv == PagesInv /\ (ConfirmVote \/ ConfirmDeposit) => PagesInv'
<1> SUFFICES ASSUME PagesInv, ConfirmVote \/ ConfirmDeposit PROVE PagesInv'
  OBVIOUS
<1>1. view \in View /\ DialogsFit /\ ShownIsChosen /\ wallet \in Wallets
  BY TypedParts DEF PagesInv
<1>2. PICK kind \in {"vote", "deposit"}: Confirms(kind, New(kind, view.item))
  BY DEF ConfirmVote, ConfirmDeposit
<1>3. view.item \in Items \union {Nothing} /\ kind \in Kinds
  BY <1>1 DEF View, Kinds, Figures
<1>4. /\ New(kind, view.item) \in Handler /\ New(kind, view.item).kind = kind
      /\ New(kind, view.item).item = view.item /\ New(kind, view.item).wallet = Nothing
      /\ New(kind, view.item).here = TRUE /\ New(kind, view.item).old = FALSE
  BY <1>3 DEF New, Handler
<1>5. page = "governance" /\ view.open
  BY <1>1, <1>2 DEF Confirms, DialogsFit
<1>6. ~view.crossed => view.item = view.chosen
  BY <1>1, <1>5 DEF ShownIsChosen
<1>7. Fits(New(kind, view.item), page, view, wallet)
  BY <1>4, <1>5, <1>6 DEF Fits, OfThePage, OfTheWallet, OfTheItem, Keeping, Figures
<1>8. kind \in Sends
  BY DEF Sends
<1> QED
  BY <1>2, <1>4, <1>7, <1>8, SendsOnPage DEF Confirms

(* A proposal is submitted. *)
LEMMA SubmitProposalInv == PagesInv /\ SubmitProposal => PagesInv'
<1> SUFFICES ASSUME PagesInv, SubmitProposal PROVE PagesInv'
  OBVIOUS
<1>1. wallet \in Wallets /\ Nothing \notin Wallets
  BY TypedParts, PagesAssumption DEF PagesInv
<1> DEFINE k == Keeps("proposal", Nothing, wallet)
<1>2. "proposal" \in Kinds
  BY DEF Kinds
<1>3. /\ k \in Handler /\ k.kind = "proposal" /\ k.wallet = wallet /\ k.here = TRUE
  BY <1>1, <1>2 DEF Keeps, Handler
<1>4. Starts({k}) /\ page = "governance" /\ view' = [view EXCEPT !.busy = TRUE]
      /\ UNCHANGED <<page, session, assets, spinners>>
  BY DEF SubmitProposal, Confirms
<1> HIDE DEF k
<1>5. Fits(k, page, view, wallet)
  BY <1>1, <1>3, <1>4 DEF Fits, OfThePage, OfTheWallet, OfTheItem, Figures
<1>6. k.kind \in Sends
  BY <1>3 DEF Sends
<1> QED
  BY <1>3, <1>4, <1>5, <1>6, SendsOnPage

(* The transfer of an NFT is confirmed. *)
LEMMA ConfirmTransferInv == PagesInv /\ ConfirmTransfer => PagesInv'
<1> SUFFICES ASSUME PagesInv, ConfirmTransfer PROVE PagesInv'
  OBVIOUS
<1>1. wallet \in Wallets /\ Nothing \notin Wallets /\ view \in View
  BY TypedParts, PagesAssumption DEF PagesInv
<1> DEFINE k == Keeps("nft", view.filled, wallet)
<1>2. "nft" \in Kinds /\ view.filled \in Items \union {Nothing}
  BY <1>1 DEF Kinds, View, Items
<1>3. /\ k \in Handler /\ k.kind = "nft" /\ k.wallet = wallet /\ k.here = TRUE
  BY <1>1, <1>2 DEF Keeps, Handler
<1>4. Starts({k}) /\ page = "nft" /\ view' = [view EXCEPT !.busy = TRUE]
      /\ UNCHANGED <<page, session, assets, spinners>>
  BY DEF ConfirmTransfer
<1> HIDE DEF k
<1>5. Fits(k, page, view, wallet)
  BY <1>1, <1>3, <1>4 DEF Fits, OfThePage, OfTheWallet, OfTheItem, Figures
<1>6. k.kind \in Sends
  BY <1>3 DEF Sends
<1> QED
  BY <1>3, <1>4, <1>5, <1>6, SendsOnPage

(* The address of the missing asset is asked of the Ledger. *)
LEMMA ReadAddressInv == PagesInv /\ ReadAddress => PagesInv'
<1> SUFFICES ASSUME PagesInv, ReadAddress PROVE PagesInv'
  OBVIOUS
<1>1. wallet \in Wallets /\ Nothing \notin Wallets /\ view \in View /\ DialogsFit
  BY TypedParts, PagesAssumption DEF PagesInv
<1> DEFINE k == Keeps("device", Nothing, wallet)
<1>2. "device" \in Kinds
  BY DEF Kinds
<1>3. /\ k \in Handler /\ k.kind = "device" /\ k.wallet = wallet /\ k.here = TRUE
  BY <1>1, <1>2 DEF Keeps, Handler
<1>4. Starts({k}) /\ page = "assets" /\ UNCHANGED <<page, view, session, assets, spinners>>
  BY DEF ReadAddress
<1> HIDE DEF k
<1>5. Fits(k, page, view, wallet)
  BY <1>1, <1>3, <1>4 DEF Fits, OfThePage, OfTheWallet, OfTheItem, Figures
<1>6. DialogsFit'
  BY <1>1, <1>4 DEF DialogsFit, assets
<1>7. task' \in [Tasks -> Handler] /\ HandlersFit' /\ Joined(task, task', {k})
  BY <1>1, <1>3, <1>4, <1>5, <1>6, StartsOnPage
<1>8. StoresFollowTheWallet' /\ SharedAsset'
  BY <1>4, SameStores
<1>9. ShownIsChosen'
  BY <1>4 DEF PagesInv, ShownIsChosen, spinners
<1>10. PagesTypeOK'
  BY <1>4, <1>7 DEF PagesInv, PagesTypeOK, View, Handler, session, assets, spinners
<1>11. SpinnersAreServed'
  <2>1. Served(page, view, task', fetching, loading, missed)
    BY <1>7, JoinedServed, ServedIsServed DEF PagesInv
  <2> QED
    BY <1>4, <2>1, ServedIsServed DEF spinners
<1> QED
  BY <1>6, <1>7, <1>8, <1>9, <1>10, <1>11 DEF PagesInv

(* The missing assets are created. *)
LEMMA CreateAssetsInv == PagesInv /\ CreateAssets => PagesInv'
<1> SUFFICES ASSUME PagesInv, CreateAssets PROVE PagesInv'
  OBVIOUS
<1>1. wallet \in Wallets /\ Nothing \notin Wallets /\ view \in View /\ DialogsFit
  BY TypedParts, PagesAssumption DEF PagesInv
<1> DEFINE k == Keeps("create", Nothing, wallet)
<1>2. "create" \in Kinds
  BY DEF Kinds
<1>3. /\ k \in Handler /\ k.kind = "create" /\ k.wallet = wallet /\ k.here = TRUE
  BY <1>1, <1>2 DEF Keeps, Handler
<1>4. Starts({k}) /\ page = "assets" /\ UNCHANGED <<page, session, assets, loading, missed>>
      /\ view' = [view EXCEPT !.dialog = "none"] /\ fetching' = TRUE
  BY DEF CreateAssets
<1> HIDE DEF k
<1>5. Fits(k, page, view, wallet)
  BY <1>1, <1>3, <1>4 DEF Fits, OfThePage, OfTheWallet, OfTheItem, Figures
<1>6. /\ view' \in View /\ view'.open = view.open /\ view'.crossed = view.crossed
      /\ view'.item = view.item /\ view'.chosen = view.chosen /\ view'.shows = view.shows
      /\ view'.spin = view.spin /\ view'.busy = view.busy
  BY <1>1, <1>4 DEF View
<1>7. DialogsFit'
  BY <1>1, <1>4, <1>6 DEF DialogsFit, assets
<1>8. task' \in [Tasks -> Handler] /\ HandlersFit' /\ Joined(task, task', {k})
  BY <1>1, <1>3, <1>4, <1>5, <1>6, <1>7, StartsOnPage
<1>9. StoresFollowTheWallet' /\ SharedAsset'
  BY <1>4, SameStores
<1>10. ShownIsChosen'
  BY <1>4, <1>6 DEF PagesInv, ShownIsChosen
<1>11. PagesTypeOK'
  BY <1>4, <1>6, <1>8 DEF PagesInv, PagesTypeOK, View, Handler, session, assets
<1>12. SpinnersAreServed'
  <2>1. Served(page, view, task', fetching, loading, missed)
    BY <1>8, JoinedServed, ServedIsServed DEF PagesInv
  <2>2. Going(task', Readers)
    BY <1>3, <1>8, JoinedStillGoing DEF Readers
  <2>3. Served(page', view', task', fetching', loading', missed')
    BY <1>4, <1>6, <2>1, <2>2 DEF Served
  <2> QED
    BY <2>3, ServedIsServed
<1> QED
  BY <1>7, <1>8, <1>9, <1>10, <1>11, <1>12 DEF PagesInv

(* A row of the assets is clicked. *)
LEMMA OpenAssetInv == \A c \in Chains: PagesInv /\ OpenAsset(c) => PagesInv'
<1> SUFFICES ASSUME NEW c \in Chains, PagesInv, OpenAsset(c) PROVE PagesInv'
  OBVIOUS
<1>1. /\ wallet \in Wallets /\ view \in View /\ DialogsFit /\ task \in [Tasks -> Handler]
      /\ c \in Items /\ PagesTypeOK /\ StoresFollowTheWallet /\ SharedAsset
  BY TypedParts DEF PagesInv, Items
<1> DEFINE k == Transfers(c)
<1>2. k \in Handler /\ k.kind = "transfers" /\ k.item = c /\ k.wallet = Nothing /\ k.here = TRUE
  BY <1>1 DEF Transfers, New, Handler, Kinds
<1>3. /\ page = "assets" /\ ~view.open /\ view.dialog = "none" /\ loading' = TRUE
      /\ UNCHANGED <<page, session, fetching, missed, assetChain, opened>>
      /\ Sets({"session"}, wallet, FALSE) /\ Starts({k}) /\ view' = Shown(view, c)
  BY DEF OpenAsset, NoDialog, StoresSession
<1> HIDE DEF k
<1>4. PICK crossing \in BOOLEAN: crossing = Crossing(c)
  BY DEF Crossing
<1>5. view' = [view EXCEPT !.chosen = c, !.item = c, !.open = TRUE, !.crossed = crossing]
  BY <1>3, <1>4 DEF Shown
<1>6. /\ view' \in View /\ view'.chosen = c /\ view'.item = c /\ view'.open = TRUE
      /\ view'.crossed = crossing /\ view'.spin = view.spin /\ view'.busy = view.busy
      /\ view'.dialog = view.dialog
  BY <1>1, <1>5 DEF View
<1>7. DialogsFit'
  BY <1>3, <1>6 DEF DialogsFit
<1>8. Joined(task, task', {k})
  BY <1>1, <1>2, <1>3, StartsOne
<1>9. HandlersFit'
  <2>1. ASSUME NEW t \in Tasks PROVE Fits(task[t], page, view', wallet)
    <3>1. Fits(task[t], page, view, wallet)
      BY DEF PagesInv, HandlersFit
    <3>2. ~crossing /\ task[t].kind \in {"transfers", "balance"} =>
            task[t].here /\ task[t].item = c
      BY <1>4 DEF Crossing
    <3> QED
      BY <1>3, <1>6, <3>1, <3>2 DEF Fits, OfThePage, OfTheWallet, OfTheItem
  <2>2. Fits(k, page, view', wallet)
    BY <1>2, <1>3, <1>6 DEF Fits, OfThePage, OfTheWallet, OfTheItem, Keeping
  <2>3. \A t \in Tasks: Fits(task'[t], page, view', wallet)
    BY <1>8, <2>1, <2>2, JoinedFit
  <2> QED
    BY <1>3, <2>3 DEF HandlersFit, session
<1>10. /\ stores' \in [Stores -> Wallets] /\ late' \in SUBSET Stores
       /\ StoresFollowTheWallet' /\ SharedAsset'
  <2>1. {"session"} \in SUBSET Stores
    BY DEF Stores
  <2> QED
    BY <1>1, <1>3, <2>1, SetsFollow DEF SharedAsset, session
<1>11. ShownIsChosen'
  BY <1>3, <1>6 DEF ShownIsChosen
<1>12. PagesTypeOK'
  BY <1>1, <1>3, <1>6, <1>8, <1>10 DEF Joined, PagesTypeOK, View, Handler, session
<1>13. SpinnersAreServed'
  <2>1. Served(page, view, task', fetching, loading, missed)
    BY <1>8, JoinedServed, ServedIsServed DEF PagesInv
  <2>2. Going(task', {"transfers"})
    BY <1>2, <1>8, JoinedStillGoing
  <2>3. Served(page', view', task', fetching', loading', missed')
    BY <1>3, <1>6, <2>1, <2>2 DEF Served
  <2> QED
    BY <2>3, ServedIsServed
<1> QED
  BY <1>7, <1>9, <1>10, <1>11, <1>12, <1>13 DEF PagesInv

(* The tab of the transfers is opened again. *)
LEMMA PickTransfersInv == PagesInv /\ PickTransfers => PagesInv'
<1> SUFFICES ASSUME PagesInv, PickTransfers PROVE PagesInv'
  OBVIOUS
<1>1. /\ wallet \in Wallets /\ view \in View /\ DialogsFit /\ task \in [Tasks -> Handler]
      /\ view.item \in Items \union {Nothing} /\ ShownIsChosen /\ Nothing \notin Wallets
  BY TypedParts, PagesAssumption DEF PagesInv, View
<1> DEFINE j == Transfers(view.item)
           k == Balance(view.item)
<1>2. /\ j \in Handler /\ j.kind = "transfers" /\ j.item = view.item /\ j.wallet = Nothing
      /\ j.here = TRUE
  BY <1>1 DEF Transfers, New, Handler, Kinds
<1>3. /\ k \in Handler /\ k.kind = "balance" /\ k.item = view.item /\ k.wallet = wallet
      /\ k.here = TRUE
  BY <1>1 DEF Balance, Keeps, Handler, Kinds
<1>4. /\ page = "assets" /\ view.open /\ loading' = TRUE /\ Starts({j, k})
      /\ UNCHANGED <<page, view, session, assets, fetching, missed>>
  BY DEF PickTransfers
<1> HIDE DEF j, k
<1>5. Joined(task, task', {j, k})
  BY <1>1, <1>2, <1>3, <1>4, StartsTwo
<1>6. HandlersFit'
  <2>1. ~view.crossed => view.item = view.chosen
    BY <1>1, <1>4 DEF ShownIsChosen
  <2>2. Fits(j, page, view, wallet)
    BY <1>2, <1>4, <2>1 DEF Fits, OfThePage, OfTheWallet, OfTheItem, Keeping
  <2>3. Fits(k, page, view, wallet)
    BY <1>1, <1>3, <1>4, <2>1 DEF Fits, OfThePage, OfTheWallet, OfTheItem, Keeping
  <2>4. \A t \in Tasks: Fits(task'[t], page, view, wallet)
    BY <1>5, <2>2, <2>3, JoinedFit DEF PagesInv, HandlersFit
  <2> QED
    BY <1>4, <2>4 DEF HandlersFit, session
<1>7. StoresFollowTheWallet' /\ SharedAsset'
  BY <1>4, SameStores
<1>8. ShownIsChosen' /\ DialogsFit'
  BY <1>1, <1>4 DEF ShownIsChosen, DialogsFit, assets
<1>9. PagesTypeOK'
  BY <1>4, <1>5 DEF PagesInv, Joined, PagesTypeOK, Handler, session, assets
<1>10. SpinnersAreServed'
  <2>1. Served(page, view, task', fetching, loading, missed)
    BY <1>5, JoinedServed, ServedIsServed DEF PagesInv
  <2>2. Going(task', {"transfers"})
    BY <1>2, <1>5, JoinedStillGoing
  <2>3. Served(page', view', task', fetching', loading', missed')
    BY <1>4, <2>1, <2>2 DEF Served
  <2> QED
    BY <2>3, ServedIsServed
<1> QED
  BY <1>6, <1>7, <1>8, <1>9, <1>10 DEF PagesInv

(* A proposal is shown: its own figures, or none and a spinner. *)
LEMMA FiguringShows ==
  ASSUME NEW v \in View, NEW p \in Items \union {Nothing}, NEW votes
  PROVE  /\ Figuring(v, p, votes) \in View
         /\ Figuring(v, p, votes).chosen = v.chosen /\ Figuring(v, p, votes).item = v.item
         /\ Figuring(v, p, votes).open = v.open /\ Figuring(v, p, votes).crossed = v.crossed
         /\ Figuring(v, p, votes).dialog = v.dialog /\ Figuring(v, p, votes).mode = v.mode
         /\ Figuring(v, p, votes).filled = v.filled /\ Figuring(v, p, votes).busy = v.busy
         /\ Figuring(v, p, votes).shows = p \/ Figuring(v, p, votes).spin
<1>1. PICK shows \in Items \union {Nothing}: shows = IF p \in votes THEN Nothing ELSE p
  OBVIOUS
<1>2. PICK spin \in BOOLEAN: spin = ((p \in votes) \/ v.spin)
  OBVIOUS
<1>3. Figuring(v, p, votes) = [v EXCEPT !.shows = shows, !.spin = spin]
  BY <1>1, <1>2 DEF Figuring
<1>4. shows = p \/ spin
  BY <1>1, <1>2
<1> QED
  BY <1>3, <1>4 DEF View

(* A proposal is opened. *)
LEMMA OpenProposalInv == \A p \in Proposals: PagesInv /\ OpenProposal(p) => PagesInv'
<1> SUFFICES ASSUME NEW p \in Proposals, PagesInv, Opens(p) PROVE PagesInv'
  BY DEF OpenProposal, OpenListed, OpenInVoting, OpenInDeposit
<1>1. /\ wallet \in Wallets /\ view \in View /\ DialogsFit /\ task \in [Tasks -> Handler]
      /\ p \in Items \union {Nothing}
  BY TypedParts DEF PagesInv, Items
<1> DEFINE k == New("tally", p)
           started == IF p \in voting THEN {k} ELSE {}
<1>2. k \in Handler /\ k.kind = "tally" /\ k.item = p /\ k.wallet = Nothing /\ k.here = TRUE
  BY <1>1 DEF New, Handler, Kinds, Figures
<1>3. PICK other \in BOOLEAN: other = Other(p)
  BY DEF Other
<1> DEFINE base == [view EXCEPT !.chosen = p, !.item = p, !.open = TRUE, !.crossed = other]
<1>4. /\ page = "governance" /\ ~view.open /\ view.dialog = "none"
      /\ UNCHANGED <<page, session, assets, spinners>> /\ Starts(started)
      /\ view' = Figuring(base, p, voting)
  BY <1>3 DEF Opens, NoDialog
<1>5. /\ base \in View /\ base.chosen = p /\ base.item = p /\ base.open = TRUE
      /\ base.crossed = other /\ base.dialog = view.dialog /\ base.busy = view.busy
  BY <1>1 DEF View
<1>6. started = {} \/ started = {k}
  OBVIOUS
<1> HIDE DEF k, base, started
<1>7. /\ view' \in View /\ view'.chosen = p /\ view'.item = p /\ view'.open = TRUE
      /\ view'.crossed = other /\ view'.dialog = "none" /\ view'.busy = view.busy
      /\ view'.shows = p \/ view'.spin
  BY <1>1, <1>4, <1>5, FiguringShows
<1>8. DialogsFit'
  BY <1>4, <1>7 DEF DialogsFit
<1>9. Joined(task, task', started)
  BY <1>1, <1>2, <1>4, <1>6, StartsOne, StartsNone
<1>10. HandlersFit'
  <2>1. ASSUME NEW t \in Tasks PROVE Fits(task[t], page, view', wallet)
    <3>1. Fits(task[t], page, view, wallet)
      BY DEF PagesInv, HandlersFit
    <3>2. ~other /\ task[t].here /\ task[t].kind \in Figures => task[t].item = p
      BY <1>3 DEF Other
    <3> QED
      BY <1>4, <1>7, <3>1, <3>2 DEF Fits, OfThePage, OfTheWallet, OfTheItem
  <2>2. Fits(k, page, view', wallet)
    BY <1>2, <1>4, <1>7 DEF Fits, OfThePage, OfTheWallet, OfTheItem, Keeping, Figures
  <2>3. \A t \in Tasks: Fits(task'[t], page, view', wallet)
    BY <1>6, <1>9, <2>1, <2>2, JoinedFit
  <2> QED
    BY <1>4, <2>3 DEF HandlersFit, session
<1>11. StoresFollowTheWallet' /\ SharedAsset'
  BY <1>4, SameStores
<1>12. ShownIsChosen'
  BY <1>4, <1>7 DEF ShownIsChosen
<1>13. PagesTypeOK'
  BY <1>4, <1>7, <1>9 DEF PagesInv, Joined, PagesTypeOK, View, Handler, session, assets, spinners
<1>14. SpinnersAreServed'
  <2>1. Served(page, view, task', fetching, loading, missed)
    BY <1>9, JoinedServed, ServedIsServed DEF PagesInv
  <2>2. Served(page', view', task', fetching', loading', missed')
    BY <1>4, <1>7, <2>1 DEF Served, spinners
  <2> QED
    BY <2>2, ServedIsServed
<1> QED
  BY <1>8, <1>10, <1>11, <1>12, <1>13, <1>14 DEF PagesInv

(* An NFT is opened. *)
LEMMA OpenNftInv == \A n \in Chains: PagesInv /\ OpenNft(n) => PagesInv'
<1> SUFFICES ASSUME NEW n \in Chains, PagesInv, OpenNft(n) PROVE PagesInv'
  OBVIOUS
<1>1. /\ wallet \in Wallets /\ view \in View /\ DialogsFit /\ n \in Items \union {Nothing}
      /\ PagesTypeOK /\ StoresFollowTheWallet /\ stores.rows \in Wallets
  BY TypedParts DEF PagesInv, Items
<1>2. /\ page = "nft" /\ Sets({"asset"}, stores.rows, "rows" \in late)
      /\ assetChain' = n /\ opened' = TRUE /\ UNCHANGED <<page, task, session, spinners>>
      /\ view' = [view EXCEPT !.chosen = n, !.item = n, !.dialog = "detail"]
  BY DEF OpenNft
<1>3. /\ view' \in View /\ view'.chosen = n /\ view'.item = n /\ view'.dialog = "detail"
      /\ view'.open = view.open /\ view'.busy = view.busy
  BY <1>1, <1>2 DEF View
<1>4. ~view.open
  BY <1>1, <1>2 DEF DialogsFit
<1>5. DialogsFit'
  BY <1>2, <1>3, <1>4 DEF DialogsFit
<1>6. HandlersFit'
  BY <1>2, <1>3, <1>4, StillFits DEF PagesInv, HandlersFit, session
<1>7. /\ stores' \in [Stores -> Wallets] /\ late' \in SUBSET Stores
      /\ StoresFollowTheWallet'
  <2>1. {"asset"} \in SUBSET Stores /\ "rows" \in Stores /\ wallet' = wallet
    BY <1>2 DEF Stores, session
  <2>2. stores.rows = wallet \/ "rows" \in late
    BY <1>1, <2>1 DEF StoresFollowTheWallet
  <2>3. PICK stale \in BOOLEAN: stale <=> "rows" \in late
    <3>1. CASE "rows" \in late
      BY <3>1
    <3>2. CASE "rows" \notin late
      BY <3>2
    <3> QED
      BY <3>1, <3>2
  <2>4. Sets({"asset"}, stores.rows, stale) /\ (stores.rows = wallet \/ stale)
    BY <1>2, <2>2, <2>3 DEF Sets
  <2> QED
    BY <1>1, <2>1, <2>4, SetsFollow
<1>8. SharedAsset' /\ ShownIsChosen'
  BY <1>2, <1>3, <1>4 DEF SharedAsset, ShownIsChosen
<1>9. PagesTypeOK'
  BY <1>1, <1>2, <1>3, <1>7 DEF PagesTypeOK, View, session, spinners
<1>10. SpinnersAreServed'
  BY <1>2, <1>3, ServedIsServed DEF PagesInv, Served, spinners
<1> QED
  BY <1>5, <1>6, <1>7, <1>8, <1>9, <1>10 DEF PagesInv

-----------------------------------------------------------------------------
(* The menu, the choice of the wallet, and fetchingDBState. *)

(* The refresh of the home page is started with a wallet that fits. *)
LEMMA RefreshFits ==
  ASSUME PagesTypeOK, StoresFollowTheWallet, NEW v, ~v.open \/ page = "home"
  PROVE  /\ Refresh \in Handler /\ Refresh.kind = "refresh" /\ Refresh.here
         /\ Fits(Refresh, "home", v, wallet)
<1>1. stores.session \in Wallets /\ Nothing \notin Wallets
  BY TypedParts, PagesAssumption
<1>2. stores.session = wallet \/ "session" \in late
  BY DEF StoresFollowTheWallet, Stores
<1>3. /\ Refresh \in Handler /\ Refresh.kind = "refresh" /\ Refresh.here
      /\ Refresh.wallet = stores.session /\ Refresh.old = ("session" \in late)
  BY <1>1 DEF Refresh, Keeps, Handler, Kinds
<1>4. Refresh.wallet = wallet \/ Refresh.old
  BY <1>2, <1>3
<1>5. OfThePage(Refresh, "home") /\ OfTheWallet(Refresh, wallet)
  BY <1>1, <1>3, <1>4 DEF OfThePage, OfTheWallet
<1>6. OfTheItem(Refresh, "home", v)
  BY DEF OfTheItem
<1> QED
  BY <1>3, <1>5, <1>6 DEF Fits

(* A page is left: its handlers are not of a page any more. *)
LEMMA GoneFit ==
  ASSUME task \in [Tasks -> Handler], NEW w, \A t \in Tasks: OfTheWallet(task[t], w)
  PROVE  /\ Gone(task) \in [Tasks -> Handler]
         /\ \A t \in Tasks: Gone(task)[t].kind = task[t].kind /\ ~Gone(task)[t].here
         /\ \A t \in Tasks: task[t] = Idle => Gone(task)[t] = Idle
         /\ \A t \in Tasks: \A p, v: ~v.open => Fits(Gone(task)[t], p, v, w)
<1>1. ASSUME NEW t \in Tasks
      PROVE  /\ Gone(task)[t] \in Handler /\ Gone(task)[t].kind = task[t].kind
             /\ ~Gone(task)[t].here /\ Gone(task)[t].wallet = task[t].wallet
             /\ Gone(task)[t].old = task[t].old
  <2>1. Gone(task)[t] = [task[t] EXCEPT !.here = FALSE] /\ task[t] \in Handler
    BY DEF Gone
  <2> QED
    BY <2>1 DEF Handler
<1>2. ASSUME NEW t \in Tasks, task[t] = Idle PROVE Gone(task)[t] = Idle
  <2>1. [Idle EXCEPT !.here = FALSE] = Idle
    <3>1. Idle = [x \in DOMAIN Idle |-> Idle[x]] /\ Idle.here = FALSE
      BY DEF Idle
    <3>2. [Idle EXCEPT !.here = FALSE] = [x \in DOMAIN Idle |-> Idle[x]]
      BY <3>1
    <3> QED
      BY <3>1, <3>2
  <2> QED
    BY <1>2, <2>1 DEF Gone
<1>3. ASSUME NEW t \in Tasks, NEW p, NEW v, ~v.open PROVE Fits(Gone(task)[t], p, v, w)
  BY <1>1, <1>3 DEF Fits, OfThePage, OfTheWallet, OfTheItem
<1>4. Gone(task) \in [Tasks -> Handler]
  BY <1>1 DEF Gone
<1> QED
  BY <1>1, <1>2, <1>3, <1>4

(* What is under way goes on when the page is left. *)
LEMMA GoneGoing ==
  ASSUME task \in [Tasks -> Handler], NEW kinds, Going(task, kinds)
  PROVE  Going(Gone(task), kinds)
BY DEF Going, Gone, Handler

(* The page that is opened, whose handlers are `tasks` and those just started. *)
LEMMA OpenPageInv == \A p \in Pages: PagesInv /\ OpenPage(p) => PagesInv'
<1> SUFFICES ASSUME NEW p \in Pages, PagesInv, OpenPage(p) PROVE PagesInv'
  OBVIOUS
<1>1. /\ wallet \in Wallets /\ task \in [Tasks -> Handler] /\ PagesTypeOK
      /\ StoresFollowTheWallet /\ SharedAsset /\ \A t \in Tasks: OfTheWallet(task[t], wallet)
  BY TypedParts DEF PagesInv, HandlersFit, Fits
<1>2. PICK home \in BOOLEAN: home = (p = "home")
  OBVIOUS
<1>3. page' = p /\ view' = [FreshView EXCEPT !.spin = home]
  BY <1>2 DEF OpenPage, Enter
<1>4. /\ view' \in View /\ ~view'.open /\ view'.spin = home /\ ~view'.busy
      /\ view'.dialog = "none" /\ view'.item = Nothing /\ view'.chosen = Nothing
  BY <1>3 DEF FreshView, View
<1>5. UNCHANGED <<session, spinners>>
  BY DEF OpenPage
<1>6. /\ Gone(task) \in [Tasks -> Handler]
      /\ \A t \in Tasks: Fits(Gone(task)[t], p, view', wallet)
  BY <1>1, <1>4, GoneFit
<1>7. /\ Refresh \in Handler /\ Refresh.kind = "refresh" /\ Refresh.here
      /\ Fits(Refresh, "home", view', wallet)
  BY <1>1, <1>4, RefreshFits
<1>8. IF home THEN Joined(Gone(task), task', {Refresh}) ELSE task' = Gone(task)
  <2>1. CASE p = "home"
    <3>1. IdleTasks # {} /\ task' = Begin({Refresh}, Gone(task))
      BY <2>1 DEF OpenPage
    <3> DEFINE free == {t \in Tasks: Gone(task)[t] = Idle}
    <3>2. free # {} /\ IsFiniteSet(free)
      <4>1. free # {}
        BY <1>1, <3>1, GoneFit DEF IdleTasks
      <4>2. IsFiniteSet(free)
        BY PagesAssumption, FS_Subset
      <4> QED
        BY <4>1, <4>2
    <3>3. Cardinality({Refresh}) = 1
      BY FS_Singleton
    <3>4. Cardinality(free) >= Cardinality({Refresh})
      <4> HIDE DEF free
      <4>1. Cardinality(free) \in Nat /\ Cardinality(free) # 0
        BY <3>2, FS_EmptySet, FS_CardinalityType
      <4> QED
        BY <3>3, <4>1
    <3>5. PICK other \in Handler: other # Refresh
      BY <1>7, IdleFits DEF Idle
    <3>6. Joined(Gone(task), Begin({Refresh}, Gone(task)), {Refresh})
      BY <1>6, <1>7, <3>4, <3>5, Begun
    <3> QED
      BY <1>2, <2>1, <3>1, <3>6
  <2>2. CASE p # "home"
    BY <1>2, <2>2 DEF OpenPage
  <2> QED
    BY <2>1, <2>2
<1>9. HandlersFit' /\ task' \in [Tasks -> Handler]
  <2>1. CASE home
    <3> DEFINE old == Gone(task)
    <3>1. \A k \in {Refresh}: Fits(k, p, view', wallet)
      BY <1>2, <1>7, <2>1
    <3>2. Joined(old, task', {Refresh}) /\ \A t \in Tasks: Fits(old[t], p, view', wallet)
      BY <1>6, <1>8, <2>1
    <3> HIDE DEF old
    <3>3. \A t \in Tasks: Fits(task'[t], p, view', wallet)
      BY <3>1, <3>2, JoinedFit
    <3> QED
      BY <1>3, <1>5, <3>2, <3>3 DEF HandlersFit, session, Joined
  <2>2. CASE ~home
    BY <1>3, <1>5, <1>6, <1>8, <2>2 DEF HandlersFit, session
  <2> QED
    BY <2>1, <2>2
<1>10. DialogsFit' /\ ShownIsChosen'
  BY <1>4 DEF DialogsFit, ShownIsChosen
<1>11. /\ stores' \in [Stores -> Wallets] /\ late' \in SUBSET Stores
       /\ StoresFollowTheWallet' /\ SharedAsset' /\ UNCHANGED <<assetChain, opened>>
  <2>1. CASE p = "governance"
    <3>1. Sets({"session"}, wallet, FALSE) /\ UNCHANGED <<assetChain, opened>>
      BY <2>1 DEF OpenPage, StoresSession
    <3>2. {"session"} \in SUBSET Stores
      BY DEF Stores
    <3> QED
      BY <1>1, <1>5, <3>1, <3>2, SetsFollow DEF SharedAsset, session
  <2>2. CASE p # "governance"
    <3>1. UNCHANGED assets
      BY <2>2 DEF OpenPage
    <3> QED
      BY <1>1, <1>5, <3>1, SameStores DEF assets, PagesTypeOK
  <2> QED
    BY <2>1, <2>2
<1>12. PagesTypeOK'
  BY <1>1, <1>3, <1>4, <1>5, <1>9, <1>11 DEF PagesTypeOK, View, Handler, session, spinners
<1>13. SpinnersAreServed'
  <2>1. Served(page, view, task, fetching, loading, missed)
    BY ServedIsServed DEF PagesInv
  <2>2. /\ fetching => missed \/ Going(Gone(task), Readers)
        /\ loading => Going(Gone(task), {"transfers"})
    BY <1>1, <2>1, GoneGoing DEF Served
  <2>3. /\ fetching => missed \/ Going(task', Readers)
        /\ loading => Going(task', {"transfers"})
    <3>1. "idle" \notin Readers
      BY DEF Readers
    <3> QED
      BY <1>8, <2>2, <3>1, JoinedStillGoing
  <2>4. p = "home" => GoingHere(task', Refreshers)
    <3>1. "idle" \notin Refreshers /\ Refresh.kind \in Refreshers
      BY <1>7 DEF Refreshers
    <3> DEFINE old == Gone(task)
    <3>2. home => Joined(old, task', {Refresh})
      BY <1>8
    <3> HIDE DEF old
    <3>3. home => GoingHere(task', Refreshers)
      BY <1>7, <3>1, <3>2, JoinedStillGoing
    <3> QED
      BY <1>2, <3>3
  <2>5. Served(page', view', task', fetching', loading', missed')
    BY <1>3, <1>4, <1>5, <2>3, <2>4 DEF Served, spinners
  <2> QED
    BY <2>5, ServedIsServed
<1> QED
  BY <1>9, <1>10, <1>11, <1>12, <1>13 DEF PagesInv

(* The wallet is switched: what the stores hold is that of the new wallet, and the
   handlers that keep another one are old. *)
LEMMA SwitchWalletInv == \A w \in Wallets: PagesInv /\ SwitchWallet(w) => PagesInv'
<1> SUFFICES ASSUME NEW w \in Wallets, PagesInv, SwitchWallet(w) PROVE PagesInv'
  OBVIOUS
<1>1. /\ task \in [Tasks -> Handler] /\ PagesTypeOK /\ HandlersFit
      /\ DialogsFit /\ ShownIsChosen /\ Nothing \notin Wallets
  BY TypedParts, PagesAssumption DEF PagesInv
<1>2. /\ page = "wallets" /\ wallet' = w /\ unused' = unused \ {w}
      /\ UNCHANGED <<page, view, voting, spinners>>
      /\ task' = [t \in Tasks |-> [task[t] EXCEPT !.old = (task[t].wallet # Nothing)]]
      /\ Sets(Stores \union {"asset"}, w, FALSE) /\ assetChain' = "cro" /\ opened' = FALSE
  BY DEF SwitchWallet, SetsDefault, DefaultChain
<1>3. stores' = [s \in Stores |-> w] /\ late' = {}
  <2>1. late \subseteq Stores
    BY <1>1 DEF PagesTypeOK
  <2> QED
    BY <1>2, <2>1 DEF Sets
<1>4. ASSUME NEW t \in Tasks
      PROVE  /\ task'[t] \in Handler /\ task'[t].kind = task[t].kind
             /\ task'[t].item = task[t].item /\ task'[t].here = task[t].here
             /\ task'[t].wallet = task[t].wallet
             /\ task[t].wallet # Nothing => task'[t].old
  <2>1. PICK old \in BOOLEAN: old = (task[t].wallet # Nothing)
    OBVIOUS
  <2>2. task'[t] = [task[t] EXCEPT !.old = old]
    BY <1>2, <2>1
  <2>3. task[t] \in Handler
    BY <1>1
  <2> QED
    BY <2>1, <2>2, <2>3 DEF Handler
<1>5. task' \in [Tasks -> Handler]
  BY <1>2, <1>4
<1>6. HandlersFit'
  <2>1. ASSUME NEW t \in Tasks PROVE Fits(task'[t], page, view, w)
    BY <1>1, <1>4 DEF HandlersFit, Fits, OfThePage, OfTheWallet, OfTheItem
  <2> QED
    BY <1>2, <2>1 DEF HandlersFit
<1>7. StoresFollowTheWallet' /\ SharedAsset'
  BY <1>2, <1>3 DEF StoresFollowTheWallet, SharedAsset
<1>8. DialogsFit' /\ ShownIsChosen'
  BY <1>1, <1>2 DEF DialogsFit, ShownIsChosen, spinners
<1>9. PagesTypeOK'
  <2>1. stores' \in [Stores -> Wallets] /\ late' \subseteq Stores
    BY <1>3
  <2>2. assetChain' \in Chains /\ wallet' \in Wallets /\ unused' \subseteq Wallets
        /\ voting' \subseteq Items \union {Nothing}
    BY <1>1, <1>2 DEF PagesTypeOK, Chains
  <2>3. {fetching', loading', opened', missed'} \subseteq BOOLEAN
    BY <1>1, <1>2 DEF PagesTypeOK, spinners
  <2> QED
    BY <1>1, <1>2, <1>5, <2>1, <2>2, <2>3 DEF PagesTypeOK, Handler
<1>10. SpinnersAreServed'
  <2>1. Served(page, view, task, fetching, loading, missed)
    BY ServedIsServed DEF PagesInv
  <2>2. \A kinds: /\ Going(task, kinds) => Going(task', kinds)
                  /\ GoingHere(task, kinds) => GoingHere(task', kinds)
    BY <1>4 DEF Going, GoingHere
  <2>3. Served(page', view', task', fetching', loading', missed')
    BY <1>2, <2>1, <2>2 DEF Served, spinners
  <2> QED
    BY <2>3, ServedIsServed
<1> QED
  BY <1>6, <1>7, <1>8, <1>9, <1>10 DEF PagesInv

(* fetchingDBState is set: with the handlers `tasks`, which fit, and one that is started. *)
LEMMA FetchesFit ==
  ASSUME PagesInv, NEW tasks \in [Tasks -> Handler],
         \A t \in Tasks: Fits(tasks[t], page, view, wallet),
         NEW a \in Handler, a.kind # "refresh", Fits(a, page, view, wallet),
         NEW started, started = {} \/ started = {a}, NEW value \in BOOLEAN,
         value => started = {a} /\ a.kind \in Readers,
         Fetches(value, tasks, started),
         UNCHANGED <<page, session, loading, assetChain, opened>>,
         Served(page, view, tasks, FALSE, loading, missed)
  PROVE  /\ task' \in [Tasks -> Handler] /\ view' \in View /\ HandlersFit' /\ DialogsFit'
         /\ ShownIsChosen' /\ SpinnersAreServed' /\ {fetching', missed'} \subseteq BOOLEAN
         /\ UNCHANGED <<loading, wallet, voting, unused, page>>
<1>1. /\ view \in View /\ PagesTypeOK /\ StoresFollowTheWallet /\ DialogsFit /\ ShownIsChosen
      /\ missed \in BOOLEAN
  BY TypedParts DEF PagesInv, PagesTypeOK
<1>2. /\ fetching' = value /\ missed' = (missed /\ value)
      /\ Refresh \in Handler
      /\ Again(value) => /\ Joined(tasks, task', started \union {Refresh})
                         /\ view' = [view EXCEPT !.spin = TRUE]
      /\ ~Again(value) => Joined(tasks, task', started) /\ view' = view
  BY <1>1, Fetched
<1>3. fetching' \in BOOLEAN /\ missed' \in BOOLEAN
  BY <1>1, <1>2
<1>4. /\ view' \in View /\ view'.open = view.open /\ view'.crossed = view.crossed
      /\ view'.item = view.item /\ view'.chosen = view.chosen /\ view'.shows = view.shows
      /\ view'.busy = view.busy /\ view'.dialog = view.dialog /\ view'.mode = view.mode
      /\ view'.filled = view.filled
      /\ view'.spin = view.spin \/ Again(value)
  <2>1. CASE Again(value)
    BY <1>1, <1>2, <2>1 DEF View
  <2>2. CASE ~Again(value)
    BY <1>1, <1>2, <2>2
  <2> QED
    BY <2>1, <2>2
<1>5. PICK all: Joined(tasks, task', all) /\ (all = started \/ (Again(value) /\ all = started \union {Refresh}))
                /\ (Again(value) => Refresh \in all) /\ started \subseteq all
  BY <1>2
<1>6. HandlersFit'
  <2>1. Again(value) => /\ Refresh.kind = "refresh" /\ Refresh.here
                        /\ Fits(Refresh, page, view, wallet)
    BY <1>1, RefreshFits DEF Again
  <2>2. \A k \in all: Fits(k, page, view, wallet)
    BY <1>5, <2>1
  <2>3. \A t \in Tasks: Fits(task'[t], page, view, wallet)
    BY <1>5, <2>2, JoinedFit
  <2>4. \A t \in Tasks: Fits(task'[t], page, view', wallet)
    BY <1>4, <2>3, StillFits
  <2> QED
    BY <2>4 DEF HandlersFit, session
<1>7. DialogsFit'
  BY <1>1, <1>4 DEF DialogsFit
<1>8. ShownIsChosen'
  BY <1>1, <1>4 DEF ShownIsChosen, Again
<1>9. SpinnersAreServed'
  <2>1. Served(page, view, task', FALSE, loading, missed)
    BY <1>5, JoinedServed
  <2>2. value => Going(task', Readers)
    <3>1. "idle" \notin Readers
      BY DEF Readers
    <3> QED
      BY <1>5, <3>1, JoinedStillGoing
  <2>3. Again(value) => GoingHere(task', Refreshers)
    BY <1>1, <1>5, RefreshFits, JoinedStillGoing DEF Refreshers, Again
  <2>4. Served(page', view', task', fetching', loading', missed')
    BY <1>2, <1>4, <2>1, <2>2, <2>3 DEF Served
  <2> QED
    BY <2>4, ServedIsServed
<1> QED
  BY <1>2, <1>3, <1>4, <1>5, <1>6, <1>7, <1>8, <1>9 DEF session, Joined

(* The button that refreshes everything is clicked. *)
LEMMA SyncAllInv == PagesInv /\ SyncAll => PagesInv'
<1> SUFFICES ASSUME PagesInv, SyncAll PROVE PagesInv'
  OBVIOUS
<1>1. /\ view \in View /\ task \in [Tasks -> Handler] /\ PagesTypeOK
      /\ Served(page, view, task, fetching, loading, missed)
  BY TypedParts, ServedIsServed DEF PagesInv
<1> DEFINE k == New("sync", Nothing)
<1>2. k \in Handler /\ k.kind = "sync" /\ k.here = TRUE /\ k.wallet = Nothing
  BY DEF New, Handler, Kinds
<1>3. /\ page = "home" /\ Fetches(TRUE, task, {k})
      /\ UNCHANGED <<page, session, assets, loading>>
  BY DEF SyncAll
<1> HIDE DEF k
<1>4. Fits(k, page, view, wallet)
  BY <1>2, <1>3 DEF Fits, OfThePage, OfTheWallet, OfTheItem, Keeping
<1>5. \A t \in Tasks: Fits(task[t], page, view, wallet)
  BY DEF PagesInv, HandlersFit
<1>6. Served(page, view, task, FALSE, loading, missed)
  BY <1>1 DEF Served
<1>7. k.kind \in Readers /\ k.kind # "refresh" /\ UNCHANGED <<assetChain, opened>>
  BY <1>2, <1>3 DEF Readers, assets
<1>8. /\ task' \in [Tasks -> Handler] /\ view' \in View /\ HandlersFit' /\ DialogsFit'
      /\ ShownIsChosen' /\ SpinnersAreServed' /\ {fetching', missed'} \subseteq BOOLEAN
      /\ UNCHANGED <<loading, wallet, voting, unused, page>>
  BY <1>1, <1>2, <1>3, <1>4, <1>5, <1>6, <1>7, FetchesFit
<1>9. StoresFollowTheWallet' /\ SharedAsset'
  BY <1>3, SameStores
<1>10. PagesTypeOK'
  BY <1>1, <1>3, <1>8 DEF PagesTypeOK, View, Handler, assets
<1> QED
  BY <1>8, <1>9, <1>10 DEF PagesInv

(* A row of the home page is clicked. *)
LEMMA ChooseAssetInv == \A c \in Chains: PagesInv /\ ChooseAsset(c) => PagesInv'
<1> SUFFICES ASSUME NEW c \in Chains, PagesInv, ChooseAsset(c) PROVE PagesInv'
  OBVIOUS
<1>1. /\ view \in View /\ task \in [Tasks -> Handler] /\ PagesTypeOK /\ wallet \in Wallets
      /\ StoresFollowTheWallet /\ SharedAsset
      /\ Served(page, view, task, fetching, loading, missed)
  BY TypedParts, ServedIsServed DEF PagesInv
<1> DEFINE k == New("push", c)
<1>2. k \in Handler /\ k.kind = "push" /\ k.here = TRUE /\ k.wallet = Nothing
  BY DEF New, Handler, Kinds, Items
<1>3. /\ page = "home" /\ Fetches(TRUE, task, {k}) /\ Sets({"session"}, wallet, FALSE)
      /\ UNCHANGED <<page, session, loading, assetChain, opened>>
  BY DEF ChooseAsset, StoresSession
<1> HIDE DEF k
<1>4. Fits(k, page, view, wallet)
  BY <1>2, <1>3 DEF Fits, OfThePage, OfTheWallet, OfTheItem, Keeping
<1>5. \A t \in Tasks: Fits(task[t], page, view, wallet)
  BY DEF PagesInv, HandlersFit
<1>6. Served(page, view, task, FALSE, loading, missed)
  BY <1>1 DEF Served
<1>7. k.kind \in Readers /\ k.kind # "refresh"
  BY <1>2 DEF Readers
<1>8. /\ task' \in [Tasks -> Handler] /\ view' \in View /\ HandlersFit' /\ DialogsFit'
      /\ ShownIsChosen' /\ SpinnersAreServed' /\ {fetching', missed'} \subseteq BOOLEAN
      /\ UNCHANGED <<loading, wallet, voting, unused, page>>
  BY <1>1, <1>2, <1>3, <1>4, <1>5, <1>6, <1>7, FetchesFit
<1>9. /\ stores' \in [Stores -> Wallets] /\ late' \in SUBSET Stores
      /\ StoresFollowTheWallet' /\ SharedAsset'
  <2>1. {"session"} \in SUBSET Stores
    BY DEF Stores
  <2> QED
    BY <1>1, <1>3, <2>1, SetsFollow DEF SharedAsset, session
<1>10. PagesTypeOK'
  BY <1>1, <1>3, <1>8, <1>9 DEF PagesTypeOK, View, Handler
<1> QED
  BY <1>8, <1>9, <1>10 DEF PagesInv

-----------------------------------------------------------------------------
(* The handlers: one goes on, or ends; the others are as they were. *)

(* What is known of a handler that takes a step. *)
LEMMA HandlerFits ==
  ASSUME PagesInv, NEW t \in Tasks
  PROVE  /\ task \in [Tasks -> Handler] /\ task[t] \in Handler /\ view \in View
         /\ Fits(task[t], page, view, wallet) /\ PagesTypeOK /\ StoresFollowTheWallet
         /\ SharedAsset /\ DialogsFit /\ ShownIsChosen
         /\ Nothing \notin Wallets /\ Nothing \notin Items
         /\ task[t].kind \in Keeping => task[t].wallet \in Wallets
         /\ task[t].kind \in Keeping => task[t].wallet = wallet \/ task[t].old
         /\ task[t].old \in BOOLEAN /\ task[t].item \in Items \union {Nothing}
<1>1. task \in [Tasks -> Handler] /\ view \in View
  BY TypedParts DEF PagesInv
<1>2. task[t] \in Handler /\ Fits(task[t], page, view, wallet)
  BY <1>1 DEF PagesInv, HandlersFit
<1>3. Nothing \notin Wallets /\ Nothing \notin Items
  BY PagesAssumption DEF Items, Chains
<1>4. /\ task[t].kind \in Keeping => task[t].wallet \in Wallets
      /\ task[t].kind \in Keeping => task[t].wallet = wallet \/ task[t].old
      /\ task[t].old \in BOOLEAN /\ task[t].item \in Items \union {Nothing}
  BY <1>2 DEF Fits, OfTheWallet, Handler
<1> QED
  BY <1>1, <1>2, <1>3, <1>4 DEF PagesInv

(* A step of a handler keeps the invariant if what it becomes still fits; it may
   have read that proposals have come into their voting period. *)
LEMMA ReadingStepInv ==
  ASSUME PagesInv, NEW t \in Tasks, task' \in [Tasks -> Handler],
         \A u \in Tasks: u # t => task'[u] = task[u],
         Fits(task'[t], page, view', wallet), UNCHANGED <<page, wallet, unused>>,
         voting' \in SUBSET (Items \union {Nothing}), view' \in View,
         view'.open /\ ~view'.crossed =>
           view.open /\ ~view.crossed /\ view'.chosen = view.chosen,
         DialogsFit', ShownIsChosen', StoresFollowTheWallet', SharedAsset',
         stores' \in [Stores -> Wallets], late' \in SUBSET Stores, assetChain' \in Chains,
         fetching' \in BOOLEAN, loading' \in BOOLEAN, opened' \in BOOLEAN, missed' \in BOOLEAN,
         fetching' /\ ~missed' =>
           fetching /\ ~missed /\ (task[t].kind \in Readers => task'[t].kind \in Readers),
         loading' => loading /\ task[t].kind # "transfers",
         page = "home" /\ view'.spin =>
           /\ view.spin
           /\ task[t].here /\ task[t].kind \in Refreshers =>
                task'[t].here /\ task'[t].kind \in Refreshers,
         view'.busy =>
           /\ view.busy
           /\ task[t].here /\ task[t].kind \in Senders =>
                task'[t].here /\ task'[t].kind \in Senders
  PROVE  PagesInv'
<1>1. HandlersFit'
  <2>1. ASSUME NEW u \in Tasks PROVE Fits(task'[u], page, view', wallet)
    <3>1. CASE u = t
      BY <3>1
    <3>2. CASE u # t
      <4>1. Fits(task[u], page, view, wallet)
        BY DEF PagesInv, HandlersFit
      <4>2. Fits(task[u], page, view', wallet)
        BY <4>1, StillFits
      <4> QED
        BY <3>2, <4>2
    <3> QED
      BY <3>1, <3>2
  <2> QED
    BY <2>1 DEF HandlersFit
<1>2. PagesTypeOK'
  BY DEF PagesInv, PagesTypeOK, View, Handler
<1>3. SpinnersAreServed'
  <2>1. Served(page, view, task, fetching, loading, missed)
    BY ServedIsServed DEF PagesInv
  <2>2. ASSUME NEW kinds, task[t].kind \in kinds => task'[t].kind \in kinds
        PROVE  Going(task, kinds) => Going(task', kinds)
    BY <2>2 DEF Going
  <2>3. ASSUME NEW kinds,
               task[t].here /\ task[t].kind \in kinds => task'[t].here /\ task'[t].kind \in kinds
        PROVE  GoingHere(task, kinds) => GoingHere(task', kinds)
    BY <2>3 DEF GoingHere
  <2>4. fetching' => missed' \/ Going(task', Readers)
    BY <2>1, <2>2 DEF Served
  <2>5. loading' => Going(task', {"transfers"})
    BY <2>1, <2>2 DEF Served
  <2>6. page' = "home" /\ view'.spin => GoingHere(task', Refreshers)
    BY <2>1, <2>3 DEF Served
  <2>7. view'.busy => GoingHere(task', Senders)
    BY <2>1, <2>3 DEF Served
  <2>8. Served(page', view', task', fetching', loading', missed')
    BY <2>4, <2>5, <2>6, <2>7 DEF Served
  <2> QED
    BY <2>8, ServedIsServed
<1> QED
  BY <1>1, <1>2, <1>3 DEF PagesInv

(* ... when the list of the proposals is not read. *)
LEMMA StepInv ==
  ASSUME PagesInv, NEW t \in Tasks, task' \in [Tasks -> Handler],
         \A u \in Tasks: u # t => task'[u] = task[u],
         Fits(task'[t], page, view', wallet), UNCHANGED <<page, session>>, view' \in View,
         view'.open /\ ~view'.crossed =>
           view.open /\ ~view.crossed /\ view'.chosen = view.chosen,
         DialogsFit', ShownIsChosen', StoresFollowTheWallet', SharedAsset',
         stores' \in [Stores -> Wallets], late' \in SUBSET Stores, assetChain' \in Chains,
         fetching' \in BOOLEAN, loading' \in BOOLEAN, opened' \in BOOLEAN, missed' \in BOOLEAN,
         fetching' /\ ~missed' =>
           fetching /\ ~missed /\ (task[t].kind \in Readers => task'[t].kind \in Readers),
         loading' => loading /\ task[t].kind # "transfers",
         page = "home" /\ view'.spin =>
           /\ view.spin
           /\ task[t].here /\ task[t].kind \in Refreshers =>
                task'[t].here /\ task'[t].kind \in Refreshers,
         view'.busy =>
           /\ view.busy
           /\ task[t].here /\ task[t].kind \in Senders =>
                task'[t].here /\ task'[t].kind \in Senders
  PROVE  PagesInv'
<1>1. UNCHANGED <<wallet, unused>> /\ voting' \in SUBSET (Items \union {Nothing})
  BY DEF PagesInv, PagesTypeOK, session
<1> QED
  BY <1>1, ReadingStepInv

(* What a handler that ends leaves behind. *)
LEMMA EndsInv ==
  ASSUME PagesInv, NEW t \in Tasks, Ends(t),
         UNCHANGED <<page, session, fetching, missed>>, view' \in View,
         view'.open /\ ~view'.crossed =>
           view.open /\ ~view.crossed /\ view'.chosen = view.chosen,
         DialogsFit', ShownIsChosen', StoresFollowTheWallet', SharedAsset',
         stores' \in [Stores -> Wallets], late' \in SUBSET Stores, assetChain' \in Chains,
         opened' \in BOOLEAN, loading' \in BOOLEAN,
         task[t].kind \notin Readers,
         loading' => loading /\ task[t].kind # "transfers",
         page = "home" /\ view'.spin =>
           view.spin /\ ~(task[t].here /\ task[t].kind \in Refreshers),
         view'.busy => view.busy /\ ~(task[t].here /\ task[t].kind \in Senders)
  PROVE  PagesInv'
<1>1. task \in [Tasks -> Handler] /\ PagesTypeOK
  BY HandlerFits
<1>2. /\ task' \in [Tasks -> Handler] /\ task'[t] = Idle
      /\ \A u \in Tasks: u # t => task'[u] = task[u]
  BY <1>1, IdleFits DEF Ends
<1>3. Fits(task'[t], page, view', wallet)
  BY <1>2, IdleFits
<1>4. fetching' \in BOOLEAN /\ missed' \in BOOLEAN
  BY <1>1 DEF PagesTypeOK
<1> QED
  BY <1>2, <1>3, <1>4, StepInv

(* ... when it sets no store. *)
LEMMA EndsQuietly ==
  ASSUME PagesInv, NEW t \in Tasks, Ends(t),
         UNCHANGED <<page, session, assets, fetching, missed>>, view' \in View,
         view'.open /\ ~view'.crossed =>
           view.open /\ ~view.crossed /\ view'.chosen = view.chosen,
         DialogsFit', ShownIsChosen', loading' \in BOOLEAN,
         task[t].kind \notin Readers,
         loading' => loading /\ task[t].kind # "transfers",
         page = "home" /\ view'.spin =>
           view.spin /\ ~(task[t].here /\ task[t].kind \in Refreshers),
         view'.busy => view.busy /\ ~(task[t].here /\ task[t].kind \in Senders)
  PROVE  PagesInv'
<1>1. StoresFollowTheWallet' /\ SharedAsset'
  BY SameStores
<1>2. /\ stores' \in [Stores -> Wallets] /\ late' \in SUBSET Stores /\ assetChain' \in Chains
      /\ opened' \in BOOLEAN
  BY DEF PagesInv, PagesTypeOK, assets
<1> QED
  BY <1>1, <1>2, EndsInv

(* The refresh of the home page ends. *)
LEMMA RefreshEndsInv == \A t \in Tasks: PagesInv /\ RefreshEnds(t) => PagesInv'
<1> SUFFICES ASSUME NEW t \in Tasks, PagesInv, RefreshEnds(t) PROVE PagesInv'
  OBVIOUS
<1>1. /\ view \in View /\ DialogsFit /\ ShownIsChosen /\ PagesTypeOK
      /\ Fits(task[t], page, view, wallet)
  BY HandlerFits
<1>2. /\ task[t].kind = "balances" /\ Ends(t) /\ UNCHANGED <<page, session, assets, spinners>>
      /\ view' = IF task[t].here THEN [view EXCEPT !.spin = FALSE] ELSE view
  BY DEF RefreshEnds, Active
<1>3. task[t].here => page = "home"
  BY <1>1, <1>2 DEF Fits, OfThePage, Figures
<1>4. /\ view' \in View /\ view'.open = view.open /\ view'.crossed = view.crossed
      /\ view'.item = view.item /\ view'.chosen = view.chosen /\ view'.shows = view.shows
      /\ view'.dialog = view.dialog /\ view'.mode = view.mode /\ view'.filled = view.filled
      /\ view'.busy = view.busy
      /\ IF task[t].here THEN ~view'.spin ELSE view'.spin = view.spin
  BY <1>1, <1>2 DEF View
<1>5. DialogsFit'
  BY <1>1, <1>2, <1>4 DEF DialogsFit, assets
<1>6. ShownIsChosen'
  BY <1>1, <1>2, <1>3, <1>4 DEF ShownIsChosen, spinners
<1>7. /\ task[t].kind \notin Readers /\ task[t].kind \notin Senders
      /\ loading' \in BOOLEAN /\ loading' = loading /\ UNCHANGED <<fetching, missed>>
  BY <1>1, <1>2 DEF Readers, Senders, Sends, PagesTypeOK, spinners
<1> QED
  BY <1>2, <1>4, <1>5, <1>6, <1>7, EndsQuietly

(* The transfers come. *)
LEMMA TransfersComeInv == \A t \in Tasks: PagesInv /\ TransfersCome(t) => PagesInv'
<1> SUFFICES ASSUME NEW t \in Tasks, PagesInv, TransfersCome(t) PROVE PagesInv'
  OBVIOUS
<1>1. /\ view \in View /\ DialogsFit /\ ShownIsChosen /\ PagesTypeOK
      /\ Fits(task[t], page, view, wallet) /\ task[t].item \in Items \union {Nothing}
  BY HandlerFits
<1>2. /\ task[t].kind = "transfers" /\ Ends(t) /\ loading' = FALSE
      /\ UNCHANGED <<page, session, assets, fetching, missed>>
      /\ view' = IF task[t].here THEN [view EXCEPT !.shows = task[t].item] ELSE view
  BY DEF TransfersCome, Active
<1>3. /\ task[t].here => page = "assets"
      /\ page = "assets" /\ view.open /\ ~view.crossed =>
           task[t].here /\ task[t].item = view.chosen
  BY <1>1, <1>2 DEF Fits, OfThePage, OfTheItem, Figures
<1>4. /\ view' \in View /\ view'.open = view.open /\ view'.crossed = view.crossed
      /\ view'.item = view.item /\ view'.chosen = view.chosen
      /\ view'.dialog = view.dialog /\ view'.mode = view.mode /\ view'.filled = view.filled
      /\ view'.busy = view.busy /\ view'.spin = view.spin
      /\ IF task[t].here THEN view'.shows = task[t].item ELSE view'.shows = view.shows
  BY <1>1, <1>2 DEF View
<1>5. DialogsFit'
  BY <1>1, <1>2, <1>4 DEF DialogsFit, assets
<1>6. ShownIsChosen'
  BY <1>1, <1>2, <1>3, <1>4 DEF ShownIsChosen
<1>7. /\ task[t].kind \notin Readers /\ task[t].kind \notin Senders
      /\ task[t].kind \notin Refreshers
  BY <1>2 DEF Readers, Senders, Sends, Refreshers
<1>8. loading' \in BOOLEAN /\ ~loading'
  BY <1>2
<1> QED
  BY <1>2, <1>4, <1>5, <1>6, <1>7, <1>8, EndsQuietly

(* The balance comes. *)
LEMMA BalanceComesInv == \A t \in Tasks: PagesInv /\ BalanceComes(t) => PagesInv'
<1> SUFFICES ASSUME NEW t \in Tasks, PagesInv, BalanceComes(t) PROVE PagesInv'
  OBVIOUS
<1>1. /\ view \in View /\ DialogsFit /\ ShownIsChosen /\ PagesTypeOK /\ StoresFollowTheWallet
      /\ SharedAsset
      /\ Fits(task[t], page, view, wallet) /\ task[t].item \in Items \union {Nothing}
      /\ task[t].kind \in Keeping => task[t].wallet \in Wallets
      /\ task[t].kind \in Keeping => task[t].wallet = wallet \/ task[t].old
      /\ task[t].old \in BOOLEAN
  BY HandlerFits
<1>2. /\ task[t].kind = "balance" /\ Ends(t) /\ Sets({"rows"}, task[t].wallet, task[t].old)
      /\ UNCHANGED <<page, session, assetChain, opened, spinners>>
      /\ view' = IF task[t].here THEN [view EXCEPT !.item = task[t].item] ELSE view
  BY DEF BalanceComes, Active
<1>3. /\ task[t].here => page = "assets"
      /\ page = "assets" /\ view.open /\ ~view.crossed => task[t].item = view.chosen
  BY <1>1, <1>2 DEF Fits, OfThePage, OfTheItem, Figures
<1>4. /\ view' \in View /\ view'.open = view.open /\ view'.crossed = view.crossed
      /\ view'.shows = view.shows /\ view'.chosen = view.chosen
      /\ view'.dialog = view.dialog /\ view'.mode = view.mode /\ view'.filled = view.filled
      /\ view'.busy = view.busy /\ view'.spin = view.spin
      /\ IF task[t].here THEN view'.item = task[t].item ELSE view'.item = view.item
  BY <1>1, <1>2 DEF View
<1>5. DialogsFit'
  BY <1>1, <1>2, <1>3, <1>4 DEF DialogsFit
<1>6. ShownIsChosen'
  BY <1>1, <1>2, <1>3, <1>4 DEF ShownIsChosen, spinners
<1>7. /\ task[t].kind \notin Readers /\ task[t].kind \notin Senders
      /\ task[t].kind \notin Refreshers /\ task[t].kind \in Keeping
  BY <1>2 DEF Readers, Senders, Sends, Refreshers, Keeping
<1>8. /\ stores' \in [Stores -> Wallets] /\ late' \in SUBSET Stores /\ StoresFollowTheWallet'
  <2>1. {"rows"} \in SUBSET Stores
    BY DEF Stores
  <2> QED
    BY <1>1, <1>2, <1>7, <2>1, SetsFollow DEF session
<1>9. /\ SharedAsset' /\ assetChain' \in Chains /\ opened' \in BOOLEAN /\ loading' \in BOOLEAN
      /\ loading' = loading /\ UNCHANGED <<fetching, missed>>
  BY <1>1, <1>2 DEF SharedAsset, PagesTypeOK, spinners
<1> QED
  BY <1>2, <1>4, <1>5, <1>6, <1>7, <1>8, <1>9, EndsInv

(* The Ledger answers, or does not. *)
LEMMA AddressComesInv == \A t \in Tasks: PagesInv /\ AddressComes(t) => PagesInv'
<1> SUFFICES ASSUME NEW t \in Tasks, PagesInv, AddressComes(t) PROVE PagesInv'
  OBVIOUS
<1>1. /\ view \in View /\ DialogsFit /\ ShownIsChosen /\ PagesTypeOK /\ StoresFollowTheWallet
      /\ SharedAsset /\ Fits(task[t], page, view, wallet)
      /\ task[t].kind \in Keeping => task[t].wallet \in Wallets
      /\ task[t].kind \in Keeping => task[t].wallet = wallet \/ task[t].old
      /\ task[t].old \in BOOLEAN
  BY HandlerFits
<1>2. /\ task[t].kind = "device" /\ Ends(t)
      /\ UNCHANGED <<page, session, assetChain, opened, spinners>>
      /\ \/ Sets({"rows"}, task[t].wallet, task[t].old)
         \/ UNCHANGED <<stores, late>>
      /\ view' = [view EXCEPT !.mode = "none"] \/ view' = view
      /\ view' = view \/ task[t].here
  BY DEF AddressComes, Active
<1>3. task[t].here => page = "assets"
  BY <1>1, <1>2 DEF Fits, OfThePage, Figures
<1>4. /\ view' \in View /\ view'.open = view.open /\ view'.crossed = view.crossed
      /\ view'.shows = view.shows /\ view'.chosen = view.chosen /\ view'.item = view.item
      /\ view'.dialog = view.dialog /\ view'.filled = view.filled
      /\ view'.busy = view.busy /\ view'.spin = view.spin
      /\ view'.mode = view.mode \/ page = "assets"
  BY <1>1, <1>2, <1>3 DEF View
<1>5. DialogsFit'
  BY <1>1, <1>2, <1>4 DEF DialogsFit
<1>6. ShownIsChosen'
  BY <1>1, <1>2, <1>4 DEF ShownIsChosen, spinners
<1>7. /\ task[t].kind \notin Readers /\ task[t].kind \notin Senders
      /\ task[t].kind \notin Refreshers /\ task[t].kind \in Keeping
  BY <1>2 DEF Readers, Senders, Sends, Refreshers, Keeping
<1>8. /\ stores' \in [Stores -> Wallets] /\ late' \in SUBSET Stores /\ StoresFollowTheWallet'
  <2>1. CASE Sets({"rows"}, task[t].wallet, task[t].old)
    <3>1. {"rows"} \in SUBSET Stores
      BY DEF Stores
    <3> QED
      BY <1>1, <1>2, <1>7, <2>1, <3>1, SetsFollow DEF session
  <2>2. CASE UNCHANGED <<stores, late>>
    BY <1>1, <1>2, <2>2 DEF StoresFollowTheWallet, PagesTypeOK, session
  <2> QED
    BY <1>2, <2>1, <2>2
<1>9. /\ SharedAsset' /\ assetChain' \in Chains /\ opened' \in BOOLEAN /\ loading' \in BOOLEAN
      /\ loading' = loading /\ UNCHANGED <<fetching, missed>>
  BY <1>1, <1>2 DEF SharedAsset, PagesTypeOK, spinners
<1> QED
  BY <1>2, <1>4, <1>5, <1>6, <1>7, <1>8, <1>9, EndsInv

(* The refresh stores what it has read for its wallet. *)
LEMMA RefreshShowsInv == \A t \in Tasks: PagesInv /\ RefreshShows(t) => PagesInv'
<1> SUFFICES ASSUME NEW t \in Tasks, PagesInv, RefreshShows(t) PROVE PagesInv'
  OBVIOUS
<1>1. /\ view \in View /\ DialogsFit /\ ShownIsChosen /\ PagesTypeOK /\ StoresFollowTheWallet
      /\ Fits(task[t], page, view, wallet) /\ task \in [Tasks -> Handler]
      /\ task[t].kind \in Keeping => task[t].wallet \in Wallets
      /\ task[t].kind \in Keeping => task[t].wallet = wallet \/ task[t].old
      /\ task[t].old \in BOOLEAN
  BY HandlerFits
<1>2. /\ task[t].kind = "refresh" /\ Becomes(t, "balances")
      /\ SetsDefault({"rows", "nfts"}, task[t].wallet, task[t].old)
      /\ UNCHANGED <<page, view, session, spinners>>
  BY DEF RefreshShows, Active
<1>3. "balances" \in Kinds /\ task[t].kind \in Keeping /\ {"rows", "nfts"} \in SUBSET Stores
  BY <1>2 DEF Kinds, Keeping, Stores
<1>4. /\ task' \in [Tasks -> Handler]
      /\ \A u \in Tasks: u # t => task'[u] = task[u]
      /\ task'[t].kind = "balances" /\ task'[t].item = task[t].item
      /\ task'[t].here = task[t].here /\ task'[t].wallet = Nothing
  BY <1>1, <1>2, <1>3, BecomesFit
<1>5. Fits(task'[t], page, view', wallet)
  BY <1>1, <1>2, <1>4 DEF Fits, OfThePage, OfTheWallet, OfTheItem, Keeping, Figures
<1>6. /\ stores' \in [Stores -> Wallets] /\ late' \in SUBSET Stores
      /\ StoresFollowTheWallet' /\ SharedAsset' /\ assetChain' \in Chains
      /\ ~opened' /\ opened' \in BOOLEAN
  BY <1>1, <1>2, <1>3, SetsDefaultFollow DEF session
<1>7. DialogsFit' /\ ShownIsChosen'
  BY <1>1, <1>2, <1>6 DEF DialogsFit, ShownIsChosen, spinners
<1>8. /\ fetching' \in BOOLEAN /\ loading' \in BOOLEAN /\ missed' \in BOOLEAN
      /\ fetching' = fetching /\ loading' = loading /\ missed' = missed
  BY <1>1, <1>2 DEF PagesTypeOK, spinners
<1>9. /\ task[t].kind \notin Readers /\ task[t].kind \notin Senders
      /\ task'[t].kind \in Refreshers
  BY <1>2, <1>4 DEF Readers, Senders, Sends, Refreshers
<1> QED
  BY <1>1, <1>2, <1>4, <1>5, <1>6, <1>7, <1>8, <1>9, StepInv

(* The refresh of everything shows the assets. *)
LEMMA SyncShowsInv == \A t \in Tasks: PagesInv /\ SyncShows(t) => PagesInv'
<1> SUFFICES ASSUME NEW t \in Tasks, PagesInv, SyncShows(t) PROVE PagesInv'
  OBVIOUS
<1>1. /\ view \in View /\ DialogsFit /\ ShownIsChosen /\ PagesTypeOK /\ StoresFollowTheWallet
      /\ Fits(task[t], page, view, wallet) /\ task \in [Tasks -> Handler] /\ SharedAsset
  BY HandlerFits
<1>2. /\ task[t].kind = "sync" /\ Becomes(t, "nfts")
      /\ Sets({"rows"}, stores.session, "session" \in late)
      /\ UNCHANGED <<page, view, session, assetChain, opened, spinners>>
  BY DEF SyncShows, Active
<1>3. "nfts" \in Kinds /\ {"rows"} \in SUBSET Stores
  BY DEF Kinds, Stores
<1>4. /\ task' \in [Tasks -> Handler]
      /\ \A u \in Tasks: u # t => task'[u] = task[u]
      /\ task'[t].kind = "nfts" /\ task'[t].item = task[t].item
      /\ task'[t].here = task[t].here /\ task'[t].wallet = Nothing
  BY <1>1, <1>2, <1>3, BecomesFit
<1>5. Fits(task'[t], page, view', wallet)
  BY <1>1, <1>2, <1>4 DEF Fits, OfThePage, OfTheWallet, OfTheItem, Keeping, Figures
<1>6. /\ stores' \in [Stores -> Wallets] /\ late' \in SUBSET Stores /\ StoresFollowTheWallet'
  <2>1. stores.session \in Wallets
    BY <1>1, TypedParts
  <2>2. stores.session = wallet \/ "session" \in late
    BY <1>1 DEF StoresFollowTheWallet, Stores
  <2>3. PICK stale \in BOOLEAN: stale <=> "session" \in late
    <3>1. CASE "session" \in late
      BY <3>1
    <3>2. CASE "session" \notin late
      BY <3>2
    <3> QED
      BY <3>1, <3>2
  <2>4. Sets({"rows"}, stores.session, stale) /\ (stores.session = wallet \/ stale)
    BY <1>2, <2>2, <2>3 DEF Sets
  <2> QED
    BY <1>1, <1>2, <1>3, <2>1, <2>4, SetsFollow DEF session
<1>7. /\ DialogsFit' /\ ShownIsChosen' /\ SharedAsset' /\ assetChain' \in Chains
      /\ opened' \in BOOLEAN
  BY <1>1, <1>2 DEF DialogsFit, ShownIsChosen, SharedAsset, PagesTypeOK, spinners
<1>8. /\ fetching' \in BOOLEAN /\ loading' \in BOOLEAN /\ missed' \in BOOLEAN
      /\ fetching' = fetching /\ loading' = loading /\ missed' = missed
  BY <1>1, <1>2 DEF PagesTypeOK, spinners
<1>9. /\ task'[t].kind \in Readers /\ task[t].kind \notin Senders
      /\ task[t].kind \notin Refreshers
  BY <1>2, <1>4 DEF Readers, Senders, Sends, Refreshers
<1> QED
  BY <1>1, <1>2, <1>4, <1>5, <1>6, <1>7, <1>8, <1>9, StepInv

(* A handler ends, and fetchingDBState is reset. *)
LEMMA EndsFetching ==
  ASSUME PagesInv, NEW t \in Tasks, task[t].kind \in {"nfts", "create"},
         Fetches(FALSE, [task EXCEPT ![t] = Idle], {}),
         UNCHANGED <<page, session, assetChain, opened, loading>>,
         StoresFollowTheWallet', stores' \in [Stores -> Wallets], late' \in SUBSET Stores
  PROVE  PagesInv'
<1> DEFINE tasks == [task EXCEPT ![t] = Idle]
<1>1. /\ task \in [Tasks -> Handler] /\ PagesTypeOK /\ SharedAsset
  BY HandlerFits
<1>2. tasks \in [Tasks -> Handler] /\ \A u \in Tasks: u # t => tasks[u] = task[u]
  BY <1>1, IdleFits
<1>3. tasks[t] = Idle
  BY <1>1
<1>4. Fetches(FALSE, tasks, {})
  OBVIOUS
<1> HIDE DEF tasks
<1>5. \A u \in Tasks: Fits(tasks[u], page, view, wallet)
  BY <1>2, <1>3, IdleFits DEF PagesInv, HandlersFit
<1>6. Served(page, view, tasks, FALSE, loading, missed)
  <2>1. Served(page, view, task, fetching, loading, missed)
    BY ServedIsServed DEF PagesInv
  <2>2. /\ task[t].kind \notin {"transfers"} /\ task[t].kind \notin Refreshers
        /\ task[t].kind \notin Senders
    BY DEF Refreshers, Senders, Sends
  <2>3. \A kinds: task[t].kind \notin kinds =>
          /\ Going(task, kinds) => Going(tasks, kinds)
          /\ GoingHere(task, kinds) => GoingHere(tasks, kinds)
    BY <1>2 DEF Going, GoingHere
  <2> QED
    BY <2>1, <2>2, <2>3 DEF Served
<1>7. Idle.kind # "refresh" /\ FALSE \in BOOLEAN
  BY DEF Idle
<1>8. Idle \in Handler /\ Fits(Idle, page, view, wallet)
  BY IdleFits
<1>9. /\ task' \in [Tasks -> Handler] /\ view' \in View /\ HandlersFit' /\ DialogsFit'
      /\ ShownIsChosen' /\ SpinnersAreServed' /\ {fetching', missed'} \subseteq BOOLEAN
      /\ UNCHANGED <<loading, wallet, voting, unused, page>>
  BY <1>2, <1>4, <1>5, <1>6, <1>7, <1>8, FetchesFit
<1>10. PagesTypeOK'
  BY <1>1, <1>9 DEF PagesTypeOK, View, Handler
<1>11. SharedAsset'
  BY <1>1 DEF SharedAsset
<1> QED
  BY <1>9, <1>10, <1>11 DEF PagesInv

(* The refresh of everything ends. *)
LEMMA SyncEndsInv == \A t \in Tasks: PagesInv /\ SyncEnds(t) => PagesInv'
<1> SUFFICES ASSUME NEW t \in Tasks, PagesInv, SyncEnds(t) PROVE PagesInv'
  OBVIOUS
<1>1. /\ task[t].kind = "nfts" /\ Fetches(FALSE, [task EXCEPT ![t] = Idle], {})
      /\ UNCHANGED <<page, session, assets, loading>>
  BY DEF SyncEnds, Active
<1>2. UNCHANGED <<page, session, assetChain, opened, loading>>
  BY <1>1 DEF assets
<1>3. /\ StoresFollowTheWallet' /\ stores' \in [Stores -> Wallets] /\ late' \in SUBSET Stores
  BY <1>1, SameStores DEF PagesInv, PagesTypeOK, assets
<1> QED
  BY <1>1, <1>2, <1>3, EndsFetching

(* The missing assets are there. *)
LEMMA AssetsCreatedInv == \A t \in Tasks: PagesInv /\ AssetsCreated(t) => PagesInv'
<1> SUFFICES ASSUME NEW t \in Tasks, PagesInv, AssetsCreated(t) PROVE PagesInv'
  OBVIOUS
<1>1. /\ task[t].kind = "create" /\ Fetches(FALSE, [task EXCEPT ![t] = Idle], {})
      /\ UNCHANGED <<page, session, assetChain, opened, loading>>
  BY DEF AssetsCreated, Active
<1>2. PICK names \in {{"rows"}, {"rows", "session"}}:
        Sets(names, task[t].wallet, task[t].old)
  BY DEF AssetsCreated
<1>3. names \in SUBSET Stores
  BY DEF Stores
<1>4. /\ StoresFollowTheWallet /\ PagesTypeOK /\ task[t].wallet \in Wallets
      /\ task[t].wallet = wallet \/ task[t].old
      /\ task[t].old \in BOOLEAN
  BY <1>1, HandlerFits DEF Keeping
<1>5. /\ StoresFollowTheWallet' /\ stores' \in [Stores -> Wallets] /\ late' \in SUBSET Stores
  BY <1>1, <1>2, <1>3, <1>4, SetsFollow DEF session
<1> QED
  BY <1>1, <1>5, EndsFetching

(* The assets page is reached from the home page. *)
LEMMA ArriveInv == \A t \in Tasks: PagesInv /\ Arrive(t) => PagesInv'
<1> SUFFICES ASSUME NEW t \in Tasks, PagesInv, Arrive(t) PROVE PagesInv'
  OBVIOUS
<1>1. /\ view \in View /\ DialogsFit /\ ShownIsChosen /\ PagesTypeOK
      /\ task \in [Tasks -> Handler] /\ SharedAsset /\ task[t].item \in Items \union {Nothing}
  BY HandlerFits
<1>2. task[t].kind = "push" /\ UNCHANGED <<session, assets>>
  BY DEF Arrive, Active
<1>3. StoresFollowTheWallet' /\ SharedAsset'
  BY <1>2, SameStores
<1>4. /\ stores' \in [Stores -> Wallets] /\ late' \in SUBSET Stores /\ assetChain' \in Chains
      /\ opened' \in BOOLEAN /\ wallet' = wallet /\ unused' = unused /\ opened' = opened
      /\ voting' = voting
  BY <1>1, <1>2 DEF PagesTypeOK, assets, session
<1>5. CASE page = "assets"
  <2>1. Ends(t) /\ missed' = TRUE /\ UNCHANGED <<page, view, fetching, loading>>
    BY <1>5 DEF Arrive
  <2>2. /\ task' \in [Tasks -> Handler] /\ task'[t] = Idle
        /\ \A u \in Tasks: u # t => task'[u] = task[u]
    BY <1>1, <2>1, IdleFits DEF Ends
  <2>3. Fits(task'[t], page, view', wallet)
    BY <2>2, IdleFits
  <2>4. DialogsFit' /\ ShownIsChosen'
    BY <1>1, <1>2, <1>4, <2>1 DEF DialogsFit, ShownIsChosen, assets
  <2>5. /\ fetching' \in BOOLEAN /\ loading' \in BOOLEAN /\ missed' \in BOOLEAN
        /\ task[t].kind \notin Senders
    BY <1>1, <1>2, <2>1 DEF PagesTypeOK, Senders, Sends
  <2> QED
    BY <1>1, <1>2, <1>3, <1>4, <1>5, <2>1, <2>2, <2>3, <2>4, <2>5, StepInv
<1>6. CASE page # "assets"
  <2> DEFINE item == task[t].item
             k == Transfers(item)
  <2>1. PICK crossing \in BOOLEAN: crossing = Crossing(item)
    BY DEF Crossing
  <2>2. /\ page' = "assets" /\ fetching' = FALSE /\ loading' = TRUE /\ missed' = FALSE
        /\ task' = [Gone(task) EXCEPT ![t] = k]
        /\ view' = [FreshView EXCEPT !.chosen = item, !.item = item, !.open = TRUE,
                                     !.crossed = crossing]
    BY <1>6, <2>1 DEF Arrive, Shown
  <2>3. /\ view' \in View /\ view'.chosen = item /\ view'.item = item /\ view'.open = TRUE
        /\ view'.crossed = crossing /\ ~view'.busy /\ view'.dialog = "none"
    BY <1>1, <2>2 DEF FreshView, View
  <2>4. /\ k \in Handler /\ k.kind = "transfers" /\ k.item = item /\ k.wallet = Nothing
        /\ k.here = TRUE
    BY <1>1 DEF Transfers, New, Handler, Kinds
  <2>5. \A u \in Tasks: OfThePage(task[u], page) /\ OfTheWallet(task[u], wallet)
    BY DEF PagesInv, HandlersFit, Fits
  <2>6. /\ Gone(task) \in [Tasks -> Handler]
        /\ \A u \in Tasks: Gone(task)[u].kind = task[u].kind /\ ~Gone(task)[u].here
        /\ \A u \in Tasks: \A p, v: ~v.open => Fits(Gone(task)[u], p, v, wallet)
    BY <1>1, <2>5, GoneFit
  <2>7. /\ task' \in [Tasks -> Handler] /\ task'[t] = k
        /\ \A u \in Tasks: u # t => task'[u] = Gone(task)[u]
    BY <2>2, <2>4, <2>6
  <2> HIDE DEF k, item
  <2>8. HandlersFit'
    <3>1. ~crossing => \A u \in Tasks: task[u].kind \notin {"transfers", "balance"}
      BY <1>6, <2>1, <2>5 DEF Crossing, OfThePage, Figures
    <3>2. ASSUME NEW u \in Tasks, u # t PROVE Fits(task'[u], "assets", view', wallet)
      <4>1. Fits(task'[u], "assets", FreshView, wallet)
        BY <2>6, <2>7, <3>2 DEF FreshView
      <4>2. ~task'[u].here /\ task'[u].kind = task[u].kind
        BY <2>6, <2>7, <3>2
      <4> QED
        BY <2>3, <3>1, <4>1, <4>2 DEF Fits, OfThePage, OfTheWallet, OfTheItem
    <3>3. Fits(task'[t], "assets", view', wallet)
      BY <2>3, <2>4, <2>7 DEF Fits, OfThePage, OfTheWallet, OfTheItem, Keeping
    <3> QED
      BY <1>4, <2>2, <3>2, <3>3 DEF HandlersFit
  <2>9. DialogsFit' /\ ShownIsChosen'
    BY <2>2, <2>3 DEF DialogsFit, ShownIsChosen
  <2>10. PagesTypeOK'
    BY <1>1, <1>4, <2>2, <2>3, <2>7 DEF PagesTypeOK, View, Handler, Pages
  <2>11. SpinnersAreServed'
    <3>1. Going(task', {"transfers"})
      BY <2>4, <2>7 DEF Going
    <3>2. Served(page', view', task', fetching', loading', missed')
      BY <2>2, <2>3, <3>1 DEF Served
    <3> QED
      BY <3>2, ServedIsServed
  <2> QED
    BY <1>3, <2>8, <2>9, <2>10, <2>11 DEF PagesInv
<1> QED
  BY <1>5, <1>6

(* What a handler of the governance page sets on it. *)
LEMMA SettledView ==
  ASSUME NEW v \in View, NEW modes
  PROVE  /\ Settled(v, modes) \in View /\ ~Settled(v, modes).busy
         /\ Settled(v, modes).chosen = v.chosen /\ Settled(v, modes).item = v.item
         /\ Settled(v, modes).open = v.open /\ Settled(v, modes).crossed = v.crossed
         /\ Settled(v, modes).mode = v.mode /\ Settled(v, modes).filled = v.filled
         /\ Settled(v, modes).shows = v.shows /\ Settled(v, modes).spin = v.spin
         /\ Settled(v, modes).dialog \in {"none", v.dialog}
<1>1. PICK d \in {"none", v.dialog}: d = IF v.mode \in modes THEN "none" ELSE v.dialog
  OBVIOUS
<1>2. Settled(v, modes) = [v EXCEPT !.busy = FALSE, !.dialog = d]
  BY <1>1 DEF Settled
<1> QED
  BY <1>2 DEF View

(* The figures of a proposal change what is shown of it, and the spinner. *)
LEMMA TalliedView ==
  ASSUME PagesInv, NEW t \in Tasks, NEW answered \in BOOLEAN
  PROVE  /\ Tallied(t, answered) \in View
         /\ Tallied(t, answered).chosen = view.chosen /\ Tallied(t, answered).item = view.item
         /\ Tallied(t, answered).open = view.open
         /\ Tallied(t, answered).crossed = view.crossed
         /\ Tallied(t, answered).mode = view.mode /\ Tallied(t, answered).filled = view.filled
         /\ Tallied(t, answered).dialog = view.dialog
         /\ Tallied(t, answered).busy = view.busy
         /\ \/ task[t].here /\ Tallied(t, answered).shows = task[t].item
            \/ /\ Tallied(t, answered).shows = view.shows
               /\ Tallied(t, answered).spin = view.spin
<1>1. view \in View /\ task[t].item \in Items \union {Nothing}
  BY HandlerFits
<1>2. CASE task[t].here /\ answered
  <2>1. Tallied(t, answered) = [view EXCEPT !.shows = task[t].item, !.spin = FALSE]
    BY <1>2 DEF Tallied
  <2> QED
    BY <1>1, <1>2, <2>1 DEF View
<1>3. CASE ~(task[t].here /\ answered)
  <2>1. Tallied(t, answered) = view
    BY <1>3 DEF Tallied
  <2> QED
    BY <1>1, <2>1
<1> QED
  BY <1>2, <1>3

(* A handler of the governance page that is still there is about the proposal shown. *)
OnGovernance ==
  \A t \in Tasks: task[t].kind \in Figures =>
    /\ task[t].here => page = "governance"
    /\ task[t].here /\ view.open /\ ~view.crossed => task[t].item = view.chosen

(* What the governance page shows is a proposal that is open. *)
LEMMA AboutTheProposal == PagesInv => OnGovernance
BY DEF PagesInv, HandlersFit, Fits, OfThePage, OfTheItem, OnGovernance, Figures

(* The figures of a proposal come. *)
LEMMA TallyComesInv == \A t \in Tasks: PagesInv /\ TallyComes(t) => PagesInv'
<1> SUFFICES ASSUME NEW t \in Tasks, PagesInv, TallyComes(t) PROVE PagesInv'
  OBVIOUS
<1>1. view \in View /\ DialogsFit /\ ShownIsChosen /\ PagesTypeOK
  BY HandlerFits
<1>2. /\ task[t].kind = "tally" /\ Ends(t) /\ UNCHANGED <<page, session, assets, spinners>>
  BY DEF TallyComes, Active
<1>3. PICK answered \in BOOLEAN: view' = Tallied(t, answered)
  BY DEF TallyComes
<1>4. /\ task[t].here => page = "governance"
      /\ task[t].here /\ view.open /\ ~view.crossed => task[t].item = view.chosen
  BY <1>2, AboutTheProposal DEF OnGovernance, Figures
<1>5. /\ view' \in View /\ view'.open = view.open /\ view'.crossed = view.crossed
      /\ view'.item = view.item /\ view'.chosen = view.chosen
      /\ view'.dialog = view.dialog /\ view'.mode = view.mode /\ view'.filled = view.filled
      /\ view'.busy = view.busy
      /\ \/ task[t].here /\ view'.shows = task[t].item
         \/ view'.shows = view.shows /\ view'.spin = view.spin
  BY <1>3, TalliedView
<1>6. DialogsFit'
  BY <1>1, <1>2, <1>5 DEF DialogsFit, assets
<1>7. ShownIsChosen'
  BY <1>1, <1>2, <1>4, <1>5 DEF ShownIsChosen, spinners
<1>8. /\ task[t].kind \notin Readers /\ task[t].kind \notin Senders
      /\ task[t].kind \notin Refreshers
      /\ loading' \in BOOLEAN /\ loading' = loading /\ UNCHANGED <<fetching, missed>>
  BY <1>1, <1>2 DEF Readers, Senders, Sends, Refreshers, PagesTypeOK, spinners
<1> QED
  BY <1>2, <1>4, <1>5, <1>6, <1>7, <1>8, EndsQuietly

(* The vote is sent. *)
LEMMA VoteSentInv == \A t \in Tasks: PagesInv /\ VoteSent(t) => PagesInv'
<1> SUFFICES ASSUME NEW t \in Tasks, PagesInv, VoteSent(t) PROVE PagesInv'
  OBVIOUS
<1>1. /\ view \in View /\ DialogsFit /\ ShownIsChosen /\ PagesTypeOK
      /\ Fits(task[t], page, view, wallet) /\ task \in [Tasks -> Handler]
      /\ task[t].item \in Items \union {Nothing}
  BY HandlerFits
<1>2. /\ task[t].kind = "vote" /\ Becomes(t, "voted")
      /\ UNCHANGED <<page, session, assets, spinners>>
      /\ view' = IF task[t].here THEN Figuring(view, task[t].item, voting) ELSE view
  BY DEF VoteSent, Active
<1>3. /\ task[t].here => page = "governance"
      /\ task[t].here /\ view.open /\ ~view.crossed => task[t].item = view.chosen
  BY <1>2, AboutTheProposal DEF OnGovernance, Figures
<1>4. /\ view' \in View /\ view'.open = view.open /\ view'.crossed = view.crossed
      /\ view'.item = view.item /\ view'.chosen = view.chosen
      /\ view'.dialog = view.dialog /\ view'.mode = view.mode /\ view'.filled = view.filled
      /\ view'.busy = view.busy
      /\ \/ task[t].here /\ (view'.shows = task[t].item \/ view'.spin)
         \/ view'.shows = view.shows /\ view'.spin = view.spin
  BY <1>1, <1>2, FiguringShows
<1>5. "voted" \in Kinds
  BY DEF Kinds, Figures
<1>6. /\ task' \in [Tasks -> Handler]
      /\ \A u \in Tasks: u # t => task'[u] = task[u]
      /\ task'[t].kind = "voted" /\ task'[t].item = task[t].item
      /\ task'[t].here = task[t].here /\ task'[t].wallet = Nothing
  BY <1>1, <1>2, <1>5, BecomesFit
<1>7. Fits(task'[t], page, view', wallet)
  BY <1>3, <1>4, <1>6 DEF Fits, OfThePage, OfTheWallet, OfTheItem, Keeping, Figures
<1>8. DialogsFit'
  BY <1>1, <1>2, <1>4 DEF DialogsFit, assets
<1>9. ShownIsChosen'
  BY <1>1, <1>2, <1>3, <1>4 DEF ShownIsChosen, spinners
<1>10. StoresFollowTheWallet' /\ SharedAsset'
  BY <1>2, SameStores
<1>11. /\ stores' \in [Stores -> Wallets] /\ late' \in SUBSET Stores /\ assetChain' \in Chains
       /\ fetching' \in BOOLEAN /\ loading' \in BOOLEAN /\ missed' \in BOOLEAN
       /\ opened' \in BOOLEAN
       /\ fetching' = fetching /\ loading' = loading /\ missed' = missed
  BY <1>1, <1>2 DEF PagesTypeOK, spinners, assets
<1>12. /\ task[t].kind \notin Readers /\ task'[t].kind \in Senders
       /\ task[t].kind \notin Refreshers
  BY <1>2, <1>6 DEF Readers, Senders, Refreshers
<1> QED
  BY <1>2, <1>3, <1>4, <1>6, <1>7, <1>8, <1>9, <1>10, <1>11, <1>12, StepInv

(* A handler that sends has failed, or its answer is of no use: its dialogs are gone. *)
LEMMA FailsInv ==
  ASSUME PagesInv, NEW t \in Tasks, task[t].kind \in {"vote", "deposit", "proposal"}, Ends(t),
         UNCHANGED <<page, session, assets, spinners>>, NEW modes,
         view' = IF task[t].here THEN Settled(view, modes) ELSE view
  PROVE  PagesInv'
<1>1. view \in View /\ DialogsFit /\ ShownIsChosen /\ PagesTypeOK
      /\ Fits(task[t], page, view, wallet)
  BY HandlerFits
<1>2. task[t].here => page = "governance"
  BY <1>1 DEF Fits, OfThePage
<1>3. /\ view' \in View /\ view'.open = view.open /\ view'.crossed = view.crossed
      /\ view'.item = view.item /\ view'.chosen = view.chosen /\ view'.shows = view.shows
      /\ view'.dialog \in {"none", view.dialog} /\ view'.mode = view.mode
      /\ view'.filled = view.filled /\ view'.spin = view.spin
      /\ IF task[t].here THEN ~view'.busy ELSE view' = view
  BY <1>1, SettledView
<1>4. DialogsFit'
  BY <1>1, <1>2, <1>3 DEF DialogsFit, assets
<1>5. ShownIsChosen'
  BY <1>1, <1>3 DEF ShownIsChosen, spinners
<1>6. /\ task[t].kind \notin Readers /\ task[t].kind \notin Refreshers
      /\ task[t].kind # "transfers"
      /\ loading' \in BOOLEAN /\ loading' = loading /\ UNCHANGED <<fetching, missed>>
  BY <1>1 DEF Readers, Refreshers, PagesTypeOK, spinners
<1> QED
  BY <1>3, <1>4, <1>5, <1>6, EndsQuietly

(* A vote, a deposit or a proposal fails. *)
LEMMA GovernanceFailsInv ==
  \A t \in Tasks: PagesInv /\ (VoteFails(t) \/ DepositFails(t) \/ ProposalFails(t)) => PagesInv'
<1> SUFFICES ASSUME NEW t \in Tasks, PagesInv,
                    VoteFails(t) \/ DepositFails(t) \/ ProposalFails(t)
             PROVE  PagesInv'
  OBVIOUS
<1>1. CASE VoteFails(t)
  <2> DEFINE modes == IF view.dialog = "confirm" THEN {"vote"} ELSE {}
  <2>1. /\ task[t].kind = "vote" /\ Ends(t) /\ UNCHANGED <<page, session, assets, spinners>>
        /\ view' = IF task[t].here THEN Settled(view, modes) ELSE view
    BY <1>1 DEF VoteFails, Active
  <2> HIDE DEF modes
  <2> QED
    BY <2>1, FailsInv
<1>2. CASE DepositFails(t)
  <2>1. task[t].kind = "deposit" /\ Ends(t) /\ UNCHANGED <<page, session, assets, spinners>>
    BY <1>2 DEF DepositFails, Active
  <2>2. PICK closed: view' = IF task[t].here THEN Settled(view, closed) ELSE view
    BY <1>2 DEF DepositFails
  <2> QED
    BY <2>1, <2>2, FailsInv
<1>3. CASE ProposalFails(t)
  <2> DEFINE modes == {"proposal", "vote"}
  <2>1. /\ task[t].kind = "proposal" /\ Ends(t) /\ UNCHANGED <<page, session, assets, spinners>>
        /\ view' = IF task[t].here THEN Settled(view, modes) ELSE view
    BY <1>3 DEF ProposalFails, Active
  <2> HIDE DEF modes
  <2> QED
    BY <2>1, FailsInv
<1> QED
  BY <1>1, <1>2, <1>3

(* The user is told of the vote. *)
LEMMA VoteEndsInv == \A t \in Tasks: PagesInv /\ VoteEnds(t) => PagesInv'
<1> SUFFICES ASSUME NEW t \in Tasks, PagesInv, VoteEnds(t) PROVE PagesInv'
  OBVIOUS
<1>1. view \in View /\ DialogsFit /\ ShownIsChosen /\ PagesTypeOK
  BY HandlerFits
<1>2. /\ task[t].kind = "voted" /\ Ends(t) /\ UNCHANGED <<page, session, assets, spinners>>
  BY DEF VoteEnds, Active
<1>3. PICK answered \in BOOLEAN, modes \in SUBSET {"vote", "proposal"}:
        view' = IF ~task[t].here THEN Tallied(t, answered)
                ELSE Settled(Tallied(t, answered), modes)
  <2>1. PICK answered \in BOOLEAN:
          view' = IF ~task[t].here THEN Tallied(t, answered)
                  ELSE Settled(Tallied(t, answered),
                               {"vote"} \union IF Tallied(t, answered).dialog = "ask"
                                               THEN {"proposal"} ELSE {})
    BY DEF VoteEnds
  <2> DEFINE modes == {"vote"} \union IF Tallied(t, answered).dialog = "ask"
                                      THEN {"proposal"} ELSE {}
  <2>2. modes \in SUBSET {"vote", "proposal"}
    OBVIOUS
  <2> QED
    BY <2>1, <2>2
<1>4. /\ task[t].here => page = "governance"
      /\ task[t].here /\ view.open /\ ~view.crossed => task[t].item = view.chosen
  BY <1>2, AboutTheProposal DEF OnGovernance, Figures
<1> DEFINE v == Tallied(t, answered)
<1>5. /\ v \in View /\ v.open = view.open /\ v.crossed = view.crossed
      /\ v.item = view.item /\ v.chosen = view.chosen
      /\ v.dialog = view.dialog /\ v.mode = view.mode /\ v.filled = view.filled
      /\ v.busy = view.busy
      /\ \/ task[t].here /\ v.shows = task[t].item
         \/ v.shows = view.shows /\ v.spin = view.spin
  BY TalliedView
<1>6. view' = IF ~task[t].here THEN v ELSE Settled(v, modes)
  BY <1>3
<1> HIDE DEF v
<1>7. /\ view' \in View /\ view'.open = view.open /\ view'.crossed = view.crossed
      /\ view'.item = view.item /\ view'.chosen = view.chosen
      /\ view'.dialog \in {"none", view.dialog} /\ view'.mode = view.mode
      /\ view'.filled = view.filled
      /\ IF task[t].here THEN ~view'.busy ELSE view'.busy = view.busy
      /\ \/ task[t].here /\ view'.shows = task[t].item
         \/ view'.shows = view.shows /\ view'.spin = view.spin
  BY <1>5, <1>6, SettledView
<1>8. DialogsFit'
  BY <1>1, <1>2, <1>4, <1>7 DEF DialogsFit, assets
<1>9. ShownIsChosen'
  BY <1>1, <1>2, <1>4, <1>7 DEF ShownIsChosen, spinners
<1>10. /\ task[t].kind \notin Readers /\ task[t].kind \notin Refreshers
       /\ loading' \in BOOLEAN /\ loading' = loading /\ UNCHANGED <<fetching, missed>>
  BY <1>1, <1>2 DEF Readers, Refreshers, PagesTypeOK, spinners
<1> QED
  BY <1>2, <1>4, <1>7, <1>8, <1>9, <1>10, EndsQuietly

(* The deposit is sent. *)
LEMMA DepositSentInv == \A t \in Tasks: PagesInv /\ DepositSent(t) => PagesInv'
<1> SUFFICES ASSUME NEW t \in Tasks, PagesInv, DepositSent(t) PROVE PagesInv'
  OBVIOUS
<1>1. /\ view \in View /\ DialogsFit /\ ShownIsChosen /\ PagesTypeOK /\ StoresFollowTheWallet
      /\ task \in [Tasks -> Handler] /\ stores.session \in Wallets
  BY HandlerFits, TypedParts
<1> DEFINE modes == {"deposit"}
<1>2. /\ task[t].kind = "deposit" /\ Becomes(t, "refresh proposal")
      /\ SetsDefault({}, stores.session, "session" \in late) \/ UNCHANGED assets
      /\ UNCHANGED <<page, session, spinners>>
      /\ view' = IF task[t].here THEN Settled(view, modes) ELSE view
  BY DEF DepositSent, Active
<1> HIDE DEF modes
<1>3. /\ task[t].here => page = "governance"
      /\ task[t].here /\ view.open /\ ~view.crossed => task[t].item = view.chosen
  BY <1>2, AboutTheProposal DEF OnGovernance, Figures
<1>4. /\ view' \in View /\ view'.open = view.open /\ view'.crossed = view.crossed
      /\ view'.item = view.item /\ view'.chosen = view.chosen /\ view'.shows = view.shows
      /\ view'.dialog \in {"none", view.dialog} /\ view'.mode = view.mode
      /\ view'.filled = view.filled /\ view'.spin = view.spin
      /\ IF task[t].here THEN ~view'.busy ELSE view' = view
  <2>1. view' = IF task[t].here THEN Settled(view, modes) ELSE view
    BY <1>2
  <2>2. view \in View
    BY <1>1
  <2> QED
    BY <2>1, <2>2, SettledView
<1>5. "refresh proposal" \in Kinds
  BY DEF Kinds, Figures
<1>6. /\ task' \in [Tasks -> Handler]
      /\ \A u \in Tasks: u # t => task'[u] = task[u]
      /\ task'[t].kind = "refresh proposal" /\ task'[t].item = task[t].item
      /\ task'[t].here = task[t].here /\ task'[t].wallet = Nothing
  BY <1>1, <1>2, <1>5, BecomesFit
<1>7. Fits(task'[t], page, view', wallet)
  BY <1>3, <1>4, <1>6 DEF Fits, OfThePage, OfTheWallet, OfTheItem, Keeping, Figures
<1>8. /\ stores' \in [Stores -> Wallets] /\ late' \in SUBSET Stores
      /\ StoresFollowTheWallet' /\ SharedAsset' /\ assetChain' \in Chains
      /\ opened' \in BOOLEAN /\ (~opened' \/ UNCHANGED assets)
  <2>1. CASE UNCHANGED assets
    BY <1>1, <1>2, <2>1, SameStores DEF PagesTypeOK, assets
  <2>2. CASE SetsDefault({}, stores.session, "session" \in late)
    <3>1. stores.session = wallet \/ "session" \in late
      BY <1>1 DEF StoresFollowTheWallet, Stores
    <3>2. PICK stale \in BOOLEAN: stale <=> "session" \in late
      <4>1. CASE "session" \in late
        BY <4>1
      <4>2. CASE "session" \notin late
        BY <4>2
      <4> QED
        BY <4>1, <4>2
    <3>3. SetsDefault({}, stores.session, stale) /\ (stores.session = wallet \/ stale)
      BY <2>2, <3>1, <3>2 DEF SetsDefault, Sets
    <3>4. {} \in SUBSET Stores
      OBVIOUS
    <3> QED
      BY <1>1, <1>2, <3>3, <3>4, SetsDefaultFollow DEF session
  <2> QED
    BY <1>2, <2>1, <2>2
<1>9. DialogsFit'
  BY <1>1, <1>2, <1>3, <1>4, <1>8 DEF DialogsFit, assets
<1>10. ShownIsChosen'
  BY <1>1, <1>2, <1>4 DEF ShownIsChosen, spinners
<1>11. /\ fetching' \in BOOLEAN /\ loading' \in BOOLEAN /\ missed' \in BOOLEAN
       /\ fetching' = fetching /\ loading' = loading /\ missed' = missed
  BY <1>1, <1>2 DEF PagesTypeOK, spinners
<1>12. /\ task[t].kind \notin Readers /\ task[t].kind \notin Refreshers
       /\ task[t].kind # "transfers"
  BY <1>2 DEF Readers, Refreshers
<1> QED
  BY <1>2, <1>4, <1>6, <1>7, <1>8, <1>9, <1>10, <1>11, <1>12, StepInv

(* The proposal is read again after a deposit. *)
LEMMA ProposalComesInv == \A t \in Tasks: PagesInv /\ ProposalComes(t) => PagesInv'
<1> SUFFICES ASSUME NEW t \in Tasks, PagesInv, ProposalComes(t) PROVE PagesInv'
  OBVIOUS
<1>1. /\ view \in View /\ DialogsFit /\ ShownIsChosen /\ PagesTypeOK
      /\ task[t].item \in Items \union {Nothing}
  BY HandlerFits
<1> DEFINE item == task[t].item
           base == [view EXCEPT !.item = item]
<1>2. /\ task[t].kind = "refresh proposal" /\ (Becomes(t, "tally") \/ Ends(t))
      /\ UNCHANGED <<page, wallet, unused, assets, spinners>>
      /\ view' = IF task[t].here THEN Figuring(base, item, voting') ELSE view
      /\ voting' \in {voting, voting \union {item}}
  BY DEF ProposalComes, Active
<1>3. /\ task[t].here => page = "governance"
      /\ task[t].here /\ view.open /\ ~view.crossed => item = view.chosen
  BY <1>2, AboutTheProposal DEF OnGovernance, Figures
<1>4. /\ base \in View /\ base.open = view.open /\ base.crossed = view.crossed
      /\ base.item = item /\ base.chosen = view.chosen
      /\ base.dialog = view.dialog /\ base.mode = view.mode /\ base.filled = view.filled
      /\ base.busy = view.busy
  BY <1>1 DEF View
<1>5. item \in Items \union {Nothing}
  BY <1>1
<1> HIDE DEF base, item
<1>6. PICK votes: view' = IF task[t].here THEN Figuring(base, item, votes) ELSE view
  BY <1>2
<1>7. /\ view' \in View /\ view'.open = view.open /\ view'.crossed = view.crossed
      /\ view'.chosen = view.chosen
      /\ view'.dialog = view.dialog /\ view'.mode = view.mode /\ view'.filled = view.filled
      /\ view'.busy = view.busy
      /\ \/ task[t].here /\ view'.item = item /\ (view'.shows = item \/ view'.spin)
         \/ ~task[t].here /\ view' = view
  BY <1>1, <1>6, <1>4, <1>5, FiguringShows
<1>8. DialogsFit'
  BY <1>1, <1>2, <1>3, <1>7 DEF DialogsFit, assets
<1>9. ShownIsChosen'
  BY <1>1, <1>2, <1>3, <1>7 DEF ShownIsChosen, spinners
<1>10. Fits(task[t], page, view, wallet) /\ task \in [Tasks -> Handler]
  BY HandlerFits
<1>11. /\ task' \in [Tasks -> Handler] /\ \A u \in Tasks: u # t => task'[u] = task[u]
       /\ Fits(task'[t], page, view', wallet)
  <2>1. CASE Ends(t)
    BY <1>10, <2>1, IdleFits DEF Ends
  <2>2. CASE Becomes(t, "tally")
    <3>1. "tally" \in Kinds
      BY DEF Kinds, Figures
    <3>2. /\ task' \in [Tasks -> Handler]
          /\ \A u \in Tasks: u # t => task'[u] = task[u]
          /\ task'[t].kind = "tally" /\ task'[t].item = task[t].item
          /\ task'[t].here = task[t].here /\ task'[t].wallet = Nothing
      BY <1>10, <2>2, <3>1, BecomesFit
    <3>3. task'[t].here /\ view.open /\ ~view.crossed => task'[t].item = view.chosen
      BY <1>2, <3>2, AboutTheProposal DEF OnGovernance, Figures
    <3> QED
      BY <1>3, <1>7, <3>2, <3>3 DEF Fits, OfThePage, OfTheWallet, OfTheItem, Keeping, Figures
  <2> QED
    BY <1>2, <2>1, <2>2
<1>12. voting' \in SUBSET (Items \union {Nothing})
  BY <1>1, <1>2, <1>5 DEF PagesTypeOK
<1>13. StoresFollowTheWallet' /\ SharedAsset'
  <2>1. UNCHANGED <<wallet, assets>>
    BY <1>2
  <2> QED
    BY <2>1 DEF PagesInv, StoresFollowTheWallet, SharedAsset, assets
<1>14. /\ stores' \in [Stores -> Wallets] /\ late' \in SUBSET Stores /\ assetChain' \in Chains
       /\ fetching' \in BOOLEAN /\ loading' \in BOOLEAN /\ missed' \in BOOLEAN
       /\ opened' \in BOOLEAN
       /\ fetching' = fetching /\ loading' = loading /\ missed' = missed
  BY <1>1, <1>2 DEF PagesTypeOK, spinners, assets
<1>15. /\ task[t].kind \notin Readers /\ task[t].kind \notin Senders
       /\ task[t].kind \notin Refreshers /\ task[t].kind # "transfers"
  BY <1>2 DEF Readers, Senders, Sends, Refreshers
<1>16. UNCHANGED <<page, wallet, unused>>
  BY <1>2
<1>17. page = "home" /\ view'.spin => view.spin
  BY <1>3, <1>7
<1> QED
  BY <1>3, <1>7, <1>8, <1>9, <1>11, <1>12, <1>13, <1>14, <1>15, <1>16, <1>17, ReadingStepInv

(* The proposal is sent. *)
LEMMA ProposalSentInv == \A t \in Tasks: PagesInv /\ ProposalSent(t) => PagesInv'
<1> SUFFICES ASSUME NEW t \in Tasks, PagesInv, ProposalSent(t) PROVE PagesInv'
  OBVIOUS
<1>1. /\ view \in View /\ DialogsFit /\ ShownIsChosen /\ PagesTypeOK /\ StoresFollowTheWallet
      /\ Fits(task[t], page, view, wallet)
      /\ task[t].kind \in Keeping => task[t].wallet \in Wallets
      /\ task[t].kind \in Keeping => task[t].wallet = wallet \/ task[t].old
      /\ task[t].old \in BOOLEAN
  BY HandlerFits
<1> DEFINE modes == {"proposal", "vote"}
<1>2. /\ task[t].kind = "proposal" /\ Ends(t)
      /\ SetsDefault({}, task[t].wallet, task[t].old)
      /\ UNCHANGED <<page, session, spinners>>
      /\ view' = IF task[t].here THEN Settled(view, modes) ELSE view
  BY DEF ProposalSent, Active
<1> HIDE DEF modes
<1>3. task[t].here => page = "governance"
  BY <1>1, <1>2 DEF Fits, OfThePage
<1>4. /\ view' \in View /\ view'.open = view.open /\ view'.crossed = view.crossed
      /\ view'.item = view.item /\ view'.chosen = view.chosen /\ view'.shows = view.shows
      /\ view'.dialog \in {"none", view.dialog} /\ view'.mode = view.mode
      /\ view'.filled = view.filled /\ view'.spin = view.spin
      /\ IF task[t].here THEN ~view'.busy ELSE view' = view
  BY <1>1, <1>2, SettledView
<1>5. task[t].kind \in Keeping /\ {} \in SUBSET Stores
  BY <1>2 DEF Keeping
<1>6. /\ stores' \in [Stores -> Wallets] /\ late' \in SUBSET Stores
      /\ StoresFollowTheWallet' /\ SharedAsset' /\ assetChain' \in Chains
      /\ ~opened' /\ opened' \in BOOLEAN
  BY <1>1, <1>2, <1>5, SetsDefaultFollow DEF session
<1>7. DialogsFit'
  BY <1>1, <1>2, <1>3, <1>4, <1>6 DEF DialogsFit
<1>8. ShownIsChosen'
  BY <1>1, <1>2, <1>4 DEF ShownIsChosen, spinners
<1>9. /\ task[t].kind \notin Readers /\ task[t].kind \notin Refreshers
      /\ task[t].kind # "transfers"
      /\ loading' \in BOOLEAN /\ loading' = loading /\ UNCHANGED <<fetching, missed>>
  BY <1>1, <1>2 DEF Readers, Refreshers, PagesTypeOK, spinners
<1> QED
  BY <1>2, <1>4, <1>6, <1>7, <1>8, <1>9, EndsInv

(* The transfer of an NFT has ended: dialogs are only closed. *)
LEMMA NftView ==
  ASSUME PagesInv, NEW t \in Tasks, task[t].kind = "nft", UNCHANGED page,
         NEW d \in {"none", view.dialog},
         view' = IF task[t].here THEN [view EXCEPT !.busy = FALSE, !.dialog = d] ELSE view
  PROVE  /\ view' \in View /\ view'.open = view.open /\ view'.crossed = view.crossed
         /\ view'.item = view.item /\ view'.chosen = view.chosen /\ view'.shows = view.shows
         /\ view'.dialog \in {"none", view.dialog} /\ view'.mode = view.mode
         /\ view'.filled = view.filled /\ view'.spin = view.spin
         /\ IF task[t].here THEN ~view'.busy ELSE view' = view
         /\ task[t].here => page = "nft"
<1>1. view \in View /\ Fits(task[t], page, view, wallet)
  BY HandlerFits
<1>2. task[t].here => page = "nft"
  BY <1>1 DEF Fits, OfThePage, Figures
<1> QED
  BY <1>1, <1>2 DEF View

(* The NFT is sent. *)
LEMMA NftSentInv == \A t \in Tasks: PagesInv /\ NftSent(t) => PagesInv'
<1> SUFFICES ASSUME NEW t \in Tasks, PagesInv, NftSent(t) PROVE PagesInv'
  OBVIOUS
<1>1. /\ view \in View /\ DialogsFit /\ ShownIsChosen /\ PagesTypeOK /\ StoresFollowTheWallet
      /\ task[t].kind \in Keeping => task[t].wallet \in Wallets
      /\ task[t].kind \in Keeping => task[t].wallet = wallet \/ task[t].old
      /\ task[t].old \in BOOLEAN
  BY HandlerFits
<1>2. /\ task[t].kind = "nft" /\ Ends(t)
      /\ SetsDefault({"nfts"}, task[t].wallet, task[t].old)
      /\ UNCHANGED <<page, session, spinners>>
      /\ view' = IF task[t].here THEN [view EXCEPT !.busy = FALSE, !.dialog = "none"] ELSE view
  BY DEF NftSent, Active
<1>3. /\ view' \in View /\ view'.open = view.open /\ view'.crossed = view.crossed
      /\ view'.item = view.item /\ view'.chosen = view.chosen /\ view'.shows = view.shows
      /\ view'.dialog \in {"none", view.dialog} /\ view'.mode = view.mode
      /\ view'.filled = view.filled /\ view'.spin = view.spin
      /\ IF task[t].here THEN ~view'.busy ELSE view' = view
      /\ task[t].here => page = "nft"
  BY <1>2, NftView
<1>4. task[t].kind \in Keeping /\ {"nfts"} \in SUBSET Stores
  BY <1>2 DEF Keeping, Stores
<1>5. /\ stores' \in [Stores -> Wallets] /\ late' \in SUBSET Stores
      /\ StoresFollowTheWallet' /\ SharedAsset' /\ assetChain' \in Chains
      /\ ~opened' /\ opened' \in BOOLEAN
  BY <1>1, <1>2, <1>4, SetsDefaultFollow DEF session
<1>6. DialogsFit'
  BY <1>1, <1>2, <1>3, <1>5 DEF DialogsFit
<1>7. ShownIsChosen'
  BY <1>1, <1>2, <1>3 DEF ShownIsChosen, spinners
<1>8. /\ task[t].kind \notin Readers /\ task[t].kind \notin Refreshers
      /\ task[t].kind # "transfers"
      /\ loading' \in BOOLEAN /\ loading' = loading /\ UNCHANGED <<fetching, missed>>
  BY <1>1, <1>2 DEF Readers, Refreshers, PagesTypeOK, spinners
<1> QED
  BY <1>2, <1>3, <1>5, <1>6, <1>7, <1>8, EndsInv

(* The transfer of the NFT fails. *)
LEMMA NftFailsInv == \A t \in Tasks: PagesInv /\ NftFails(t) => PagesInv'
<1> SUFFICES ASSUME NEW t \in Tasks, PagesInv, NftFails(t) PROVE PagesInv'
  OBVIOUS
<1>1. view \in View /\ DialogsFit /\ ShownIsChosen /\ PagesTypeOK
  BY HandlerFits
<1>2. task[t].kind = "nft" /\ Ends(t) /\ UNCHANGED <<page, session, assets, spinners>>
  BY DEF NftFails, Active
<1>3. PICK d \in {"none", view.dialog}:
        view' = IF task[t].here THEN [view EXCEPT !.busy = FALSE, !.dialog = d] ELSE view
  BY DEF NftFails, LeftOpen
<1>4. /\ view' \in View /\ view'.open = view.open /\ view'.crossed = view.crossed
      /\ view'.item = view.item /\ view'.chosen = view.chosen /\ view'.shows = view.shows
      /\ view'.dialog \in {"none", view.dialog} /\ view'.mode = view.mode
      /\ view'.filled = view.filled /\ view'.spin = view.spin
      /\ IF task[t].here THEN ~view'.busy ELSE view' = view
      /\ task[t].here => page = "nft"
  BY <1>2, <1>3, NftView
<1>5. DialogsFit'
  BY <1>1, <1>2, <1>4 DEF DialogsFit, assets
<1>6. ShownIsChosen'
  BY <1>1, <1>2, <1>4 DEF ShownIsChosen, spinners
<1>7. /\ task[t].kind \notin Readers /\ task[t].kind \notin Refreshers
      /\ task[t].kind # "transfers"
      /\ loading' \in BOOLEAN /\ loading' = loading /\ UNCHANGED <<fetching, missed>>
  BY <1>1, <1>2 DEF Readers, Refreshers, PagesTypeOK, spinners
<1> QED
  BY <1>2, <1>4, <1>5, <1>6, <1>7, EndsQuietly

-----------------------------------------------------------------------------
(* The inductive invariant. *)

(* The first page. *)
LEMMA InitPages == PagesInit => PagesInv
<1> SUFFICES ASSUME PagesInit PROVE PagesInv
  OBVIOUS
<1>1. /\ page = "lobby" /\ view = FreshView /\ task = [t \in Tasks |-> Idle]
      /\ wallet \in Wallets /\ stores = [s \in Stores |-> wallet] /\ assetChain = "cro"
      /\ fetching = FALSE /\ loading = FALSE /\ unused = Wallets \ {wallet}
      /\ voting \subseteq Items \union {Nothing}
      /\ late = {} /\ opened = FALSE /\ missed = FALSE
  BY PagesAssumption DEF PagesInit, Items
<1>2. /\ view \in View /\ ~view.open /\ ~view.spin /\ ~view.busy /\ view.dialog = "none"
      /\ view.item = Nothing /\ view.chosen = Nothing
  BY <1>1 DEF FreshView, View
<1>3. HandlersFit /\ task \in [Tasks -> Handler]
  BY <1>1, IdleFits DEF HandlersFit
<1>4. StoresFollowTheWallet /\ SharedAsset
  BY <1>1 DEF StoresFollowTheWallet, SharedAsset
<1>5. DialogsFit /\ ShownIsChosen
  BY <1>1, <1>2 DEF DialogsFit, ShownIsChosen
<1>6. PagesTypeOK
  BY <1>1, <1>2, <1>3 DEF PagesTypeOK, View, Handler, Pages, Chains
<1>7. SpinnersAreServed
  BY <1>1, <1>2, ServedIsServed DEF Served
<1> QED
  BY <1>3, <1>4, <1>5, <1>6, <1>7 DEF PagesInv

(* Every step of a handler keeps the invariant. *)
LEMMA HandlersPages == \A t \in Tasks: PagesInv /\ Step(t) => PagesInv'
<1> SUFFICES ASSUME NEW t \in Tasks, PagesInv, Step(t) PROVE PagesInv'
  OBVIOUS
<1>1. CASE HomeStep(t)
  BY <1>1, RefreshShowsInv, RefreshEndsInv, SyncShowsInv, SyncEndsInv DEF HomeStep
<1>2. CASE AssetsPageStep(t)
  BY <1>2, ArriveInv, TransfersComeInv, BalanceComesInv, AssetsCreatedInv, AddressComesInv
     DEF AssetsPageStep
<1>3. CASE GovernanceStep(t)
  BY <1>3, TallyComesInv, VoteSentInv, GovernanceFailsInv, VoteEndsInv, DepositSentInv,
     ProposalComesInv, ProposalSentInv
     DEF GovernanceStep
<1>4. CASE NftStep(t)
  BY <1>4, NftSentInv, NftFailsInv DEF NftStep
<1> QED
  BY <1>1, <1>2, <1>3, <1>4 DEF Step

(* So does every step of the pages. *)
LEMMA NextPages == PagesInv /\ [PagesNext]_pagesVars => PagesInv'
<1> SUFFICES ASSUME PagesInv, [PagesNext]_pagesVars PROVE PagesInv'
  OBVIOUS
<1>1. CASE \E p \in Pages \ {"lobby"}: OpenPage(p)
  BY <1>1, OpenPageInv
<1>2. CASE \E w \in Wallets: SwitchWallet(w)
  BY <1>2, SwitchWalletInv
<1>3. CASE SyncAll \/ (\E c \in Chains: ChooseAsset(c) \/ OpenAsset(c) \/ OpenNft(c))
  BY <1>3, SyncAllInv, ChooseAssetInv, OpenAssetInv, OpenNftInv
<1>4. CASE CloseAsset \/ PickTransfers \/ EnableAsset \/ CancelEnable \/ CreateAssets \/ ReadAddress
  BY <1>4, CloseAssetInv, PickTransfersInv, EnableAssetInv, CancelEnableInv, CreateAssetsInv,
     ReadAddressInv
<1>5. CASE \E p \in Proposals: OpenProposal(p) \/ OpenVoted(p)
  BY <1>5, OpenProposalInv, OpenVotedInv
<1>6. CASE CloseProposal \/ AskVote \/ AskDeposit \/ AskProposal
  BY <1>6, CloseProposalInv, AskVoteInv, AskDepositInv, AskProposalInv
<1>7. CASE Asks \/ FillDeposit \/ CancelGovernance
  BY <1>7, AsksInv
<1>8. CASE ConfirmGovernance \/ ConfirmTransfer
  BY <1>8, ConfirmVoteInv, SubmitProposalInv, ConfirmTransferInv DEF ConfirmGovernance
<1>9. CASE CloseNft \/ AskTransfer \/ AskTokenTransfer \/ BackToNft \/ BackToRecipient
  BY <1>9, NftTurnsInv
<1>10. CASE FillIn
  BY <1>10, FillInInv
<1>11. CASE \E t \in Tasks: Step(t)
  BY <1>11, HandlersPages
<1>12. CASE UNCHANGED pagesVars
  <2>1. UNCHANGED <<page, view, task, session, assets, spinners>>
    BY <1>12 DEF pagesVars
  <2>2. view \in View /\ DialogsFit
    BY TypedParts DEF PagesInv
  <2>3. view' \in View /\ DialogsFit'
    BY <2>1, <2>2 DEF DialogsFit, assets
  <2> QED
    BY <2>1, <2>3, ViewOnly
<1> QED
  BY <1>1, <1>2, <1>3, <1>4, <1>5, <1>6, <1>7, <1>8, <1>9, <1>10, <1>11, <1>12 DEF PagesNext

(* Whatever pages are opened and left, whatever wallets are switched to, and however late
   what was awaited comes: the inductive invariant of the pages holds. *)
THEOREM PagesAreSound == PagesSpec => []PagesInv
BY InitPages, NextPages, PTL DEF PagesSpec

(* What the user has opened is what is shown, with its own transfers and figures: those
   awaited for what was open before cannot come in between unless they were awaited when
   it was opened (assets.tsx, governance.tsx). *)
THEOREM ShowsTheChosen == PagesSpec => []ShownIsChosen
<1>1. PagesInv => ShownIsChosen
  BY DEF PagesInv
<1> QED
  BY <1>1, PagesAreSound, PTL

(* The atoms of the application and the stored session hold the data of the wallet of the
   session: a handler that sets another wallet's is older than the switch. *)
THEOREM StoresAreOfTheWallet == PagesSpec => []StoresFollowTheWallet
<1>1. PagesInv => StoresFollowTheWallet
  BY DEF PagesInv
<1> QED
  BY <1>1, PagesAreSound, PTL

(* What shows that something is going on has a handler that will end it, on every page. *)
THEOREM NoSpinnerIsLeft == PagesSpec => []SpinnersAreServed
<1>1. PagesInv => SpinnersAreServed
  BY DEF PagesInv
<1> QED
  BY <1>1, PagesAreSound, PTL

-----------------------------------------------------------------------------
(* What the confirmed transactions are for. *)

(* A slot holds what it did or one of those started. *)
LEMMA BegunAmong ==
  ASSUME NEW started, NEW tasks, NEW t \in Tasks
  PROVE  Begin(started, tasks)[t] \in started \union {tasks[t]}
<1> DEFINE slot == CHOOSE f \in [started -> {u \in Tasks: tasks[u] = Idle}]:
                     \A k, l \in started: f[k] = f[l] => k = l
<1>1. Begin(started, tasks)[t] = IF \E k \in started: slot[k] = t
                                 THEN CHOOSE k \in started: slot[k] = t ELSE tasks[t]
  BY DEF Begin
<1> HIDE DEF slot
<1> QED
  BY <1>1

Silent == \A t \in Tasks: ~Sending(t)

(* Starting handlers that do not send sends nothing. *)
LEMMA SilentStart ==
  ASSUME NEW started, Starts(started), \A k \in started: k.kind \notin Sends
  PROVE  Silent
<1>1. task' = Begin(started, task)
  BY DEF Starts
<1>2. \A t \in Tasks: task'[t] \in started \union {task[t]}
  BY <1>1, BegunAmong
<1>3. Idle.kind \notin Sends
  BY DEF Idle, Sends
<1> QED
  BY <1>2, <1>3 DEF Silent, Sending

(* Nor does setting fetchingDBState. *)
LEMMA SilentFetch ==
  ASSUME NEW started, NEW tasks, NEW value, Fetches(value, tasks, started),
         \A k \in started: k.kind \notin Sends,
         \A t \in Tasks: task[t] = Idle => tasks[t] = Idle
  PROVE  Silent
<1>1. PICK all \in SUBSET (started \union {Refresh}): task' = Begin(all, tasks)
  BY DEF Fetches
<1>2. \A t \in Tasks: task'[t] \in all \union {tasks[t]}
  BY <1>1, BegunAmong
<1>3. Idle.kind \notin Sends /\ Refresh.kind \notin Sends
  BY DEF Idle, Refresh, Keeps, Sends
<1> QED
  BY <1>2, <1>3 DEF Silent, Sending

(* Nor does a handler that ends. *)
LEMMA SilentEnd ==
  ASSUME task \in [Tasks -> Handler], NEW t \in Tasks, Ends(t)
  PROVE  Silent
BY DEF Ends, Silent, Sending, Idle, Sends

(* Nor does one that goes on. *)
LEMMA SilentStep ==
  ASSUME task \in [Tasks -> Handler], NEW t \in Tasks, NEW kind, Becomes(t, kind),
         task[t].kind # "idle"
  PROVE  Silent
<1>1. \A u \in Tasks: u # t => task'[u] = task[u]
  BY DEF Becomes
<1>2. task[t] # Idle
  BY DEF Idle
<1> QED
  BY <1>1, <1>2 DEF Silent, Sending, Idle, Sends

(* Nor does a step without handlers. *)
LEMMA SilentUnchanged == UNCHANGED task => Silent
BY DEF Silent, Sending, Idle, Sends

(* Clicks and handlers that start no transaction. *)
LEMMA SilentHandlers ==
  ASSUME PagesInv, NEW t \in Tasks, Step(t)
  PROVE  Silent
<1>1. task \in [Tasks -> Handler]
  BY TypedParts DEF PagesInv
<1>2. CASE Ends(t)
  BY <1>1, <1>2, SilentEnd
<1>3. CASE \E kind: Becomes(t, kind) /\ task[t].kind # "idle"
  BY <1>1, <1>3, SilentStep
<1>4. CASE Fetches(FALSE, [task EXCEPT ![t] = Idle], {})
  <2> DEFINE tasks == [task EXCEPT ![t] = Idle]
  <2>1. \A u \in Tasks: task[u] = Idle => tasks[u] = Idle
    BY <1>1
  <2>2. Fetches(FALSE, tasks, {})
    BY <1>4
  <2> DEFINE started == {}
  <2>3. \A k \in started: k.kind \notin Sends
    OBVIOUS
  <2>4. Fetches(FALSE, tasks, started)
    BY <2>2
  <2> HIDE DEF tasks, started
  <2> QED
    BY <2>1, <2>3, <2>4, SilentFetch
<1>5. CASE Arrive(t) /\ page # "assets"
  <2>1. task' = [Gone(task) EXCEPT ![t] = Transfers(task[t].item)] /\ task[t].kind = "push"
    BY <1>5 DEF Arrive, Active
  <2>2. \A u \in Tasks: u # t => task'[u].kind = task[u].kind
    BY <1>1, <2>1 DEF Gone, Handler
  <2>3. task[t] # Idle
    BY <2>1 DEF Idle
  <2> QED
    BY <2>2, <2>3 DEF Silent, Sending, Idle, Sends
<1>6. CASE HomeStep(t)
  BY <1>2, <1>3, <1>4, <1>6 DEF HomeStep, RefreshShows, RefreshEnds, SyncShows, SyncEnds, Active
<1>7. CASE AssetsPageStep(t)
  BY <1>2, <1>4, <1>5, <1>7
     DEF AssetsPageStep, Arrive, TransfersCome, BalanceComes, AssetsCreated, AddressComes
<1>8. CASE GovernanceStep(t)
  BY <1>2, <1>3, <1>8
     DEF GovernanceStep, TallyComes, VoteSent, VoteFails, VoteEnds, DepositSent, DepositFails,
         ProposalComes, ProposalSent, ProposalFails, Active
<1>9. CASE NftStep(t)
  BY <1>2, <1>9 DEF NftStep, NftSent, NftFails
<1> QED
  BY <1>6, <1>7, <1>8, <1>9 DEF Step

(* Only the confirmations start handlers that send. *)
LEMMA SilentClicks ==
  ASSUME PagesInv, PagesNext, ~ConfirmGovernance, ~ConfirmTransfer
  PROVE  Silent
<1>1. CASE UNCHANGED task
  BY <1>1, SilentUnchanged
<1>2. CASE \E k: Starts({k}) /\ k.kind \notin Sends
  BY <1>2, SilentStart
<1>3. CASE \E p \in Pages: OpenPage(p)
  <2>1. PICK p \in Pages: OpenPage(p)
    BY <1>3
  <2>2. task \in [Tasks -> Handler]
    BY TypedParts DEF PagesInv
  <2>3. \A t \in Tasks: Gone(task)[t].kind = task[t].kind
    BY <2>2 DEF Gone, Handler
  <2>4. \/ task' = Gone(task)
        \/ task' = Begin({Refresh}, Gone(task))
    BY <2>1 DEF OpenPage
  <2>5. Refresh.kind = "refresh"
    BY DEF Refresh, Keeps
  <2>6. \A t \in Tasks: task'[t].kind = "refresh" \/ task'[t].kind = task[t].kind
    BY <2>3, <2>4, <2>5, BegunAmong
  <2> QED
    BY <2>6 DEF Silent, Sending, Idle, Sends
<1>4. CASE \E w \in Wallets: SwitchWallet(w)
  <2>1. task' = [t \in Tasks |-> [task[t] EXCEPT !.old = (task[t].wallet # Nothing)]]
    BY <1>4 DEF SwitchWallet
  <2>2. task \in [Tasks -> Handler]
    BY TypedParts DEF PagesInv
  <2>3. \A t \in Tasks: task'[t].kind = task[t].kind
    BY <2>1, <2>2 DEF Handler
  <2> QED
    BY <2>3 DEF Silent, Sending, Idle, Sends
<1>5. CASE SyncAll \/ \E c \in Chains: ChooseAsset(c)
  <2> DEFINE sync == New("sync", Nothing)
             push(c) == New("push", c)
             Requested(k) == Fetches(TRUE, task, {k}) /\ k.kind \notin Sends
  <2>1. sync.kind \notin Sends /\ \A c \in Chains: push(c).kind \notin Sends
    BY DEF New, Sends
  <2>2. Requested(sync) \/ \E c \in Chains: Requested(push(c))
    BY <1>5, <2>1 DEF SyncAll, ChooseAsset
  <2> HIDE DEF sync, push
  <2>3. PICK k: Requested(k)
    BY <2>2
  <2> DEFINE started == {k}
  <2>4. \A j \in started: j.kind \notin Sends
    BY <2>3
  <2>5. Fetches(TRUE, task, started)
    BY <2>3
  <2> HIDE DEF started
  <2> QED
    BY <2>4, <2>5, SilentFetch
<1>6. CASE PickTransfers
  <2> DEFINE started == {Transfers(view.item), Balance(view.item)}
  <2>1. Starts(started)
    BY <1>6 DEF PickTransfers
  <2>2. \A k \in started: k.kind \notin Sends
    BY DEF Transfers, Balance, New, Keeps, Sends
  <2> HIDE DEF started
  <2> QED
    BY <2>1, <2>2, SilentStart
<1>7. CASE \E p \in Proposals: OpenProposal(p)
  <2>1. PICK p \in Proposals: Starts(IF p \in voting THEN {New("tally", p)} ELSE {})
    BY <1>7 DEF OpenProposal, OpenListed, OpenInVoting, OpenInDeposit, Opens
  <2>2. New("tally", p).kind \notin Sends
    BY DEF New, Sends
  <2> DEFINE started == IF p \in voting THEN {New("tally", p)} ELSE {}
  <2>3. \A k \in started: k.kind \notin Sends
    BY <2>2
  <2>4. Starts(started)
    BY <2>1
  <2> HIDE DEF started
  <2> QED
    BY <2>3, <2>4, SilentStart
<1>8. CASE \E c \in Chains: OpenAsset(c)
  <2>1. PICK c \in Chains: Starts({Transfers(c)})
    BY <1>8 DEF OpenAsset
  <2>2. Transfers(c).kind \notin Sends
    BY DEF Transfers, New, Sends
  <2> QED
    BY <1>2, <2>1, <2>2
<1>9. CASE CreateAssets \/ ReadAddress
  <2>1. \/ Starts({Keeps("create", Nothing, wallet)})
        \/ Starts({Keeps("device", Nothing, wallet)})
    BY <1>9 DEF CreateAssets, ReadAddress
  <2>2. /\ Keeps("create", Nothing, wallet).kind \notin Sends
        /\ Keeps("device", Nothing, wallet).kind \notin Sends
    BY DEF Keeps, Sends
  <2> QED
    BY <1>2, <2>1, <2>2
<1>10. CASE \E t \in Tasks: Step(t)
  BY <1>10, SilentHandlers
<1>11. CASE \/ CloseAsset \/ EnableAsset \/ CancelEnable \/ CloseProposal \/ AskVote
            \/ AskDeposit \/ AskProposal \/ Asks \/ FillDeposit \/ CancelGovernance
            \/ \E p \in Proposals: OpenVoted(p)
  BY <1>1, <1>11
     DEF CloseAsset, EnableAsset, CancelEnable, CloseProposal, AskVote, AskDeposit,
         AskProposal, Asks, FillDeposit, CancelGovernance, OpenVoted
<1>12. CASE \/ CloseNft \/ AskTransfer \/ AskTokenTransfer \/ BackToNft \/ BackToRecipient
            \/ FillIn \/ \E c \in Chains: OpenNft(c)
  BY <1>1, <1>12
     DEF CloseNft, AskTransfer, AskTokenTransfer, BackToNft, BackToRecipient, Turns, FillIn,
         OpenNft
<1> QED
  BY <1>3, <1>4, <1>5, <1>6, <1>7, <1>8, <1>9, <1>10, <1>11, <1>12 DEF PagesNext

Acts(t) ==
  /\ task'[t].kind # "proposal" => task'[t].item = view.chosen \/ view.crossed
  /\ stores.asset = wallet \/ "asset" \in late
  /\ task'[t].kind \in {"vote", "deposit", "proposal"} => assetChain = "cro" \/ opened
  /\ task'[t].kind = "nft" => assetChain = task'[t].item \/ ~opened

(* What a confirmation starts is the one handler that sends. *)
LEMMA SendsOne ==
  ASSUME NEW k, Starts({k}), NEW t \in Tasks, Sending(t)
  PROVE  task'[t] = k
<1>1. task' = Begin({k}, task)
  BY DEF Starts
<1>2. task'[t] \in {k} \union {task[t]}
  BY <1>1, BegunAmong
<1> QED
  BY <1>2 DEF Sending, Idle, Sends

(* What is sent is about what is open. *)
LEMMA ActsAsOpen ==
  ASSUME PagesInv, PagesNext, NEW t \in Tasks, Sending(t)
  PROVE  Acts(t)
<1>1. /\ view \in View /\ DialogsFit /\ ShownIsChosen /\ SharedAsset
      /\ stores.asset = wallet \/ "asset" \in late
  BY TypedParts DEF PagesInv, StoresFollowTheWallet, Stores
<1>2. CASE ~ConfirmGovernance /\ ~ConfirmTransfer
  BY <1>2, SilentClicks DEF Silent
<1>3. CASE ConfirmVote \/ ConfirmDeposit
  <2>1. PICK kind \in {"vote", "deposit"}: Confirms(kind, New(kind, view.item))
    BY <1>3 DEF ConfirmVote, ConfirmDeposit
  <2>2. page = "governance" /\ view.open
    BY <1>1, <2>1 DEF Confirms, DialogsFit
  <2>3. ~view.crossed => view.item = view.chosen
    BY <1>1, <2>2 DEF ShownIsChosen
  <2>4. task'[t] = New(kind, view.item)
    BY <2>1, SendsOne DEF Confirms
  <2>5. task'[t].kind = kind /\ task'[t].item = view.item
    BY <2>4 DEF New
  <2>6. view.crossed \in BOOLEAN
    BY <1>1 DEF View
  <2> QED
    BY <1>1, <2>3, <2>5, <2>6 DEF Acts, SharedAsset
<1>4. CASE SubmitProposal
  <2>1. task'[t] = Keeps("proposal", Nothing, wallet)
    BY <1>4, SendsOne DEF SubmitProposal, Confirms
  <2>2. task'[t].kind = "proposal"
    BY <2>1 DEF Keeps
  <2> QED
    BY <1>1, <2>2 DEF Acts, SharedAsset
<1>5. CASE ConfirmTransfer
  <2>1. task'[t] = Keeps("nft", view.filled, wallet)
    BY <1>5, SendsOne DEF ConfirmTransfer
  <2>2. task'[t].kind = "nft" /\ task'[t].item = view.filled
    BY <2>1 DEF Keeps
  <2>3. page = "nft" /\ view.dialog = "confirm"
    BY <1>5 DEF ConfirmTransfer
  <2>4. view.filled = view.chosen /\ (opened => assetChain = view.filled)
    BY <1>1, <2>3 DEF DialogsFit
  <2>5. opened \in BOOLEAN
    BY DEF PagesInv, PagesTypeOK
  <2> QED
    BY <1>1, <2>2, <2>4, <2>5 DEF Acts
<1> QED
  BY <1>2, <1>3, <1>4, <1>5 DEF ConfirmGovernance

(* A vote, a deposit and the transfer of an NFT are sent for the item the user has opened,
   of an asset of the wallet of the session: the CRO asset, or that of the NFT's chain. *)
THEOREM ActsOnWhatIsOpen == PagesSpec => ActsOnTheChosen
<1>1. PagesInv /\ [PagesNext]_pagesVars =>
        [\A t \in Tasks: Sending(t) =>
           /\ task'[t].kind # "proposal" => task'[t].item = view.chosen \/ view.crossed
           /\ stores.asset = wallet \/ "asset" \in late
           /\ task'[t].kind \in {"vote", "deposit", "proposal"} => assetChain = "cro" \/ opened
           /\ task'[t].kind = "nft" => assetChain = task'[t].item \/ ~opened]_pagesVars
  BY ActsAsOpen DEF Acts
<1> QED
  BY <1>1, PagesAreSound, PTL DEF PagesSpec, ActsOnTheChosen
===============================================================================
