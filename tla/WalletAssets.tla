----------------------------- MODULE WalletAssets -----------------------------
(***************************************************************************)
(* The asset records of one wallet: refreshed by fetchAndUpdateBalances,   *)
(* edited by the settings and gas forms, created anew by the migration of  *)
(* a wallet that lacks some of them.                                       *)
(*                                                                         *)
(* Everybody writes whole records.  A refresh writes back the record it    *)
(* has read at its start with the balance the node has given it since, a   *)
(* form the record the page has loaded with the new settings.              *)
(***************************************************************************)
EXTENDS Naturals, FiniteSets, Functions

CONSTANTS
  Coins,    \* the native assets a wallet should have
  Cronos,   \* the one whose chain holds the tokens
  Errs,     \* those of a Cosmos chain: a failed request counts as '0'
  Tokens,   \* the CRC-20 tokens there are
  Runs,     \* refreshes that can be in flight at the same time
  MaxReceipts,    \* bound: how often a balance changes on chain
  MaxEdits,       \* bound: how often the user saves settings
  MaxMigrations,  \* bound: how often the assets are created anew
  MaxCrashes      \* bound: how often the application is killed

ASSUME ConstantsAssumption ==
  /\ Cronos \in Coins
  /\ Errs \subseteq Coins
  /\ {MaxReceipts, MaxEdits, MaxMigrations, MaxCrashes} \subseteq Nat

VARIABLES
  balance,    \* balance[c]: of coin c on chain
  owned,      \* the tokens the address owns on chain
  natives,    \* native records of assetStore, by identifier
  tokens,     \* token records of assetStore
  gen,        \* number of times the assets have been created
  screen,     \* the native records as the pages have loaded them
  migration,  \* the step the migration is at
  pc,         \* pc[r]: the next step of refresh r
  seen,       \* seen[r]: the native records r has read
  removing,   \* removing[r]: the token records r has read
  status,     \* status[r][i]: how far r is with record i
  answer,     \* answer[r][i]: the balance r will write
  receipts, edits, crashes,
  checked,    \* the check of the start has been made
  lastEdit,   \* history: lastEdit[c]: number of the last edit of coin c
  clean,      \* history: clean[c]: no refresh was under way at that edit
  alone       \* history: alone[r]: nothing else has changed since r has read

vars == <<balance, owned, natives, tokens, gen, screen, migration, pc, seen, removing,
          status, answer, receipts, edits, crashes, checked, lastEdit, clean, alone>>

chain == <<balance, owned, receipts>>
run == <<pc, seen, removing, status, answer>>
user == <<gen, screen, migration, edits, crashes, checked, lastEdit, clean>>

\* Identifiers are random: every creation has its own.
Id(c, g) == <<c, g>>
Ids == Coins \X (0..MaxMigrations)

CoinOf(i) == i[1]

NoRecords == [i \in {} |-> 0]

Fresh(coins, g) == [i \in {Id(c, g) : c \in coins} |-> [config |-> 0, amount |-> 0]]

Put(records, i, rec) == [j \in DOMAIN records \cup {i} |-> IF j = i THEN rec ELSE records[j]]

\* A wallet of an older version has only some of the assets.
Init ==
  /\ balance = [c \in Coins |-> 0]
  /\ owned \in SUBSET Tokens
  /\ \E coins \in SUBSET Coins \ {{}} : natives = Fresh(coins, 0)
  /\ tokens = owned
  /\ gen = 0
  /\ screen = natives
  /\ migration = "none"
  /\ pc = [r \in Runs |-> "idle"]
  /\ seen = [r \in Runs |-> NoRecords]
  /\ removing = [r \in Runs |-> {}]
  /\ status = [r \in Runs |-> [i \in Ids |-> "done"]]
  /\ answer = [r \in Runs |-> [i \in Ids |-> 0]]
  /\ receipts = 0
  /\ edits = 0
  /\ crashes = 0
  /\ checked = TRUE
  /\ lastEdit = [c \in Coins |-> 0]
  /\ clean = [c \in Coins |-> TRUE]
  /\ alone = [r \in Runs |-> FALSE]

-----------------------------------------------------------------------------
(* The chain *)

Receive(c) ==
  /\ receipts < MaxReceipts
  /\ receipts' = receipts + 1
  /\ balance' = [balance EXCEPT ![c] = receipts + 1]
  /\ alone' = [r \in Runs |-> FALSE]
  /\ UNCHANGED <<owned, natives, tokens, run, user>>

MoveToken(t) ==
  /\ receipts < MaxReceipts
  /\ receipts' = receipts + 1
  /\ owned' = IF t \in owned THEN owned \ {t} ELSE owned \cup {t}
  /\ alone' = [r \in Runs |-> FALSE]
  /\ UNCHANGED <<balance, natives, tokens, run, user>>

-----------------------------------------------------------------------------
(* A refresh: fetchAndUpdateBalances *)

\* History: refresh r, or nobody, has written; no other one is alone any more.
Writes(r) == alone' = [s \in Runs |-> alone[s] /\ s = r]

\* Without any asset the refresh returns.
ReadAssets(r) ==
  /\ pc[r] = "idle"
  /\ DOMAIN natives # {} \/ tokens # {}
  /\ seen' = [seen EXCEPT ![r] = natives]
  /\ status' = [status EXCEPT ![r] = [i \in Ids |-> IF i \in DOMAIN natives THEN "fetch"
                                                                           ELSE "done"]]
  /\ pc' = [pc EXCEPT ![r] = "readTokens"]
  /\ alone' = [alone EXCEPT ![r] = TRUE]
  /\ UNCHANGED <<chain, natives, tokens, user, removing, answer>>

HasCronos(records) == \E i \in DOMAIN records : CoinOf(i) = Cronos

\* fetchTokensAndPersistBalances reads the assets again.
ReadTokens(r) ==
  /\ pc[r] = "readTokens"
  /\ removing' = [removing EXCEPT ![r] = tokens]
  /\ pc' = [pc EXCEPT ![r] =
       IF DOMAIN natives = {} /\ tokens = {} THEN "natives"
       ELSE IF HasCronos(natives) THEN "removeFetch" ELSE "remove"]
  /\ UNCHANGED <<chain, natives, tokens, user, seen, status, answer, alone>>

Stale(r) == {}   \* mutant: the removal is forgotten

Removed(r) == removing[r]

RemoveTokens(r) ==
  /\ pc[r] \in {"remove", "removeFetch"}
  /\ tokens' = tokens \ Removed(r)
  /\ pc' = [pc EXCEPT ![r] = IF pc[r] = "remove" THEN "natives" ELSE "tokens"]
  /\ removing' = [removing EXCEPT ![r] = {}]
  /\ Writes(r)
  /\ UNCHANGED <<chain, natives, user, seen, status, answer>>

\* The saves are queued in one go.
TokensAnswered(r) ==
  /\ pc[r] = "tokens"
  /\ tokens' = tokens \cup owned
  /\ pc' = [pc EXCEPT ![r] = "natives"]
  /\ Writes(r)
  /\ UNCHANGED <<chain, natives, user, seen, removing, status, answer>>

\* The error is logged; the balances are fetched all the same.
TokensFailed(r) ==
  /\ pc[r] = "tokens"
  /\ pc' = [pc EXCEPT ![r] = "natives"]
  /\ UNCHANGED <<chain, natives, tokens, user, seen, removing, status, answer, alone>>

\* The balance on chain, or after an error the one that was read.
EvmBalances(r, i) == {balance[CoinOf(i)], seen[r][i].amount}

\* loadAccountBalance answers its own errors with '0'; only a node that cannot be
\* connected to keeps the balance that was read.
CosmosBalances(r, i) == {balance[CoinOf(i)], seen[r][i].amount, 0}

FetchBalance(r, i) ==
  /\ pc[r] = "natives"
  /\ status[r][i] = "fetch"
  /\ \E a \in IF CoinOf(i) \in Errs THEN CosmosBalances(r, i) ELSE EvmBalances(r, i) :
       answer' = [answer EXCEPT ![r][i] = a]
  /\ status' = [status EXCEPT ![r][i] = "write"]
  /\ UNCHANGED <<chain, natives, tokens, user, pc, seen, removing, alone>>

\* updateAsset: $set of the whole record, without upsert.
SaveAsset(i, rec) == Put(natives, i, rec)   \* mutant: with upsert

UpdateAsset(i, rec) == IF i \in DOMAIN natives THEN Put(natives, i, rec) ELSE natives

RecordToWrite(r, i) == [seen[r][i] EXCEPT !.amount = answer[r][i]]

WriteBalance(r, i) ==
  /\ status[r][i] = "write"
  /\ natives' = UpdateAsset(i, RecordToWrite(r, i))
  /\ status' = [status EXCEPT ![r][i] = "done"]
  /\ Writes(r)
  /\ UNCHANGED <<chain, tokens, user, pc, seen, removing, answer>>

Done(r) == pc[r] = "natives" /\ \A i \in Ids : status[r][i] = "done"

EndRefresh(r) ==
  /\ Done(r)
  /\ pc' = [pc EXCEPT ![r] = "idle"]
  /\ seen' = [seen EXCEPT ![r] = NoRecords]
  /\ answer' = [answer EXCEPT ![r] = [i \in Ids |-> 0]]
  /\ alone' = [alone EXCEPT ![r] = FALSE]
  /\ UNCHANGED <<chain, natives, tokens, user, removing, status>>

-----------------------------------------------------------------------------
(* The pages: settings, gas, missing assets *)

\* What a page has loaded matters as long as the user may still save settings.
Loaded(records, saves) == IF saves < MaxEdits THEN records ELSE NoRecords

\* A page loads the assets.
LoadAssets ==
  /\ migration = "none"
  /\ screen' = Loaded(natives, edits)
  /\ UNCHANGED <<chain, natives, tokens, run, gen, migration, edits, crashes, lastEdit, clean,
                 alone, checked>>

\* The loading indicator of the migration covers the pages.
PagesBlocked == migration # "none"

\* saveAssets of the edited copy, with upsert.
SaveSettings(i) ==
  /\ ~PagesBlocked
  /\ i \in DOMAIN screen
  /\ edits < MaxEdits
  /\ edits' = edits + 1
  /\ LET edited == [screen[i] EXCEPT !.config = edits + 1]  c == CoinOf(i) IN
     /\ natives' = Put(natives, i, edited)
     /\ screen' = Loaded(Put(screen, i, edited), edits + 1)
     /\ lastEdit' = [lastEdit EXCEPT ![c] = edits + 1]
     /\ clean' = [clean EXCEPT ![c] = \A r \in Runs : pc[r] = "idle"]
  /\ alone' = [r \in Runs |-> FALSE]
  /\ UNCHANGED <<chain, tokens, run, gen, migration, crashes, checked>>

\* checkIfWalletNeedAssetCreation, then removeWalletAssets.
RemoveForMigration ==
  /\ migration = "none"
  /\ {CoinOf(i) : i \in DOMAIN natives} # Coins
  /\ gen < MaxMigrations
  /\ gen' = gen + 1
  /\ migration' = "removed"
  /\ natives' = NoRecords
  /\ tokens' = {}
  /\ alone' = [r \in Runs |-> FALSE]
  /\ UNCHANGED <<chain, run, screen, edits, crashes, lastEdit, clean, checked>>

\* Three seconds later.
CreateForMigration ==
  /\ migration = "removed"
  /\ migration' = "created"
  /\ natives' = [i \in DOMAIN natives \cup DOMAIN Fresh(Coins, gen) |->
                   IF i \in DOMAIN Fresh(Coins, gen) THEN Fresh(Coins, gen)[i] ELSE natives[i]]
  /\ lastEdit' = [c \in Coins |-> 0]
  /\ clean' = [c \in Coins |-> TRUE]
  /\ alone' = [r \in Runs |-> FALSE]
  /\ UNCHANGED <<chain, tokens, run, gen, screen, edits, crashes, checked>>

\* The page loads the new assets when the synchronization is over.
EndMigration ==
  /\ migration = "created"
  /\ migration' = "none"
  /\ screen' = Loaded(natives, edits)
  /\ UNCHANGED <<chain, natives, tokens, run, gen, edits, crashes, lastEdit, clean, alone,
                 checked>>

-----------------------------------------------------------------------------
(* The start of the application: checkCorrectExplorerUrl *)

\* The record with the settings that come with the application.
WithDefaults(rec) == [rec EXCEPT !.config = 0]

\* Five seconds after a start, if an explorer is not the one that comes with the
\* application, the assets of every wallet are read and saved: what the user has set
\* is gone.  The reading and the saves follow one another in the local database.
SaveDefaults ==
  /\ ~checked /\ checked' = TRUE
  /\ natives' = [i \in DOMAIN natives |-> WithDefaults(natives[i])]
  /\ LET written == {CoinOf(i) : i \in DOMAIN natives} IN
     /\ lastEdit' = [c \in Coins |-> IF c \in written THEN 0 ELSE lastEdit[c]]
     /\ clean' = [c \in Coins |-> IF c \in written THEN \A r \in Runs : pc[r] = "idle"
                                                   ELSE clean[c]]
  /\ alone' = [r \in Runs |-> FALSE]
  /\ UNCHANGED <<chain, tokens, run, gen, screen, migration, edits, crashes>>

Crash ==
  /\ crashes < MaxCrashes
  /\ crashes' = crashes + 1
  /\ pc' = [r \in Runs |-> "idle"]
  /\ seen' = [r \in Runs |-> NoRecords]
  /\ removing' = [r \in Runs |-> {}]
  /\ status' = [r \in Runs |-> [i \in Ids |-> "done"]]
  /\ answer' = [r \in Runs |-> [i \in Ids |-> 0]]
  /\ alone' = [r \in Runs |-> FALSE]
  /\ migration' = "none"
  /\ screen' = Loaded(natives, edits)
  /\ checked' = FALSE
  /\ UNCHANGED <<chain, natives, tokens, gen, edits, lastEdit, clean>>

RefreshStep(r) ==
  \/ ReadAssets(r) \/ ReadTokens(r) \/ RemoveTokens(r)
  \/ TokensAnswered(r) \/ TokensFailed(r)
  \/ \E i \in Ids : FetchBalance(r, i) \/ WriteBalance(r, i)
  \/ EndRefresh(r)

Next ==
  \/ \E c \in Coins : Receive(c)
  \/ \E t \in Tokens : MoveToken(t)
  \/ \E r \in Runs : RefreshStep(r)
  \/ LoadAssets
  \/ \E i \in Ids : SaveSettings(i)
  \/ RemoveForMigration \/ CreateForMigration \/ EndMigration
  \/ SaveDefaults
  \/ Crash

Spec == Init /\ [][Next]_vars

-----------------------------------------------------------------------------
Record == [config : Nat, amount : Nat]

Records(records) == DOMAIN records \subseteq Ids /\ \A i \in DOMAIN records : records[i] \in Record

PCs == {"idle", "readTokens", "remove", "removeFetch", "tokens", "natives"}

TypeOK ==
  /\ balance \in [Coins -> Nat]
  /\ owned \subseteq Tokens /\ tokens \subseteq Tokens
  /\ Records(natives) /\ Records(screen)
  /\ {gen, receipts, edits, crashes} \subseteq Nat
  /\ migration \in {"none", "removed", "created"}
  /\ checked \in BOOLEAN
  /\ pc \in [Runs -> PCs]
  /\ \A r \in Runs : Records(seen[r]) /\ removing[r] \subseteq Tokens
  /\ status \in [Runs -> [Ids -> {"fetch", "write", "done"}]]
  /\ answer \in [Runs -> [Ids -> Nat]]
  /\ lastEdit \in [Coins -> Nat]
  /\ clean \in [Coins -> BOOLEAN]
  /\ alone \in [Runs -> BOOLEAN]

Settings(c) == {natives[i].config : i \in {j \in DOMAIN natives : CoinOf(j) = c}}

\* Records that were removed by a migration never come back, whatever refresh is
\* still under way: a wallet has each native asset once, from one creation.  And
\* settings that are saved while no refresh is under way, by the user or by the check
\* of the start, outlive every later refresh.
CleanEditsSurvive ==
  /\ DOMAIN natives \subseteq {Id(c, gen) : c \in Coins}
  /\ \A c \in Coins : clean[c] => Settings(c) \subseteq {lastEdit[c]}

\* A refresh that nothing disturbs leaves every native asset with the balance it was
\* given and the settings it has found, and no token that the address no longer owns:
\* all the tokens it owns, or none if they could not be fetched.
QuietRefreshExact ==
  \A r \in Runs : Done(r) /\ alone[r] =>
    /\ natives = [i \in DOMAIN seen[r] |-> [seen[r][i] EXCEPT !.amount = answer[r][i]]]
    /\ tokens \in {owned, {}}
=============================================================================
