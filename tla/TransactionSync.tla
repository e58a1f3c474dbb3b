--------------------------- MODULE TransactionSync ---------------------------
(***************************************************************************)
(* The wallet's view of its delegations, rewards and NFT transactions:     *)
(* TransactionHistoryService.fetchAndUpdateTransactions and the save       *)
(* pipelines of StorageService it ends in.                                 *)
(*                                                                         *)
(* A sync run is started by a 30 second timer, by a wallet switch, by the  *)
(* settings form or by a refresh button, and nothing stops a second run    *)
(* from starting while the first is still waiting for the network.  Each   *)
(* NeDB call is atomic; everything between two awaits is one action here.  *)
(* A run has one pipeline per kind of record, all started together.        *)
(***************************************************************************)
EXTENDS Naturals, FiniteSets

CONSTANTS
  Wallets,    \* wallets the user has created
  NotLive,    \* wallets whose network has no node yet (NOT_KNOWN_YET_VALUE)
  Kinds,      \* txType of the records a run refreshes
  Items,      \* what a list names: a validator, or an NFT message
  TxHash,     \* transaction hash of an NFT message
  Runs,       \* sync runs that can be in flight at the same time
  NoWallet,   \* no session was captured
  MaxCrashes  \* bound: how often the application is killed

AllKinds == {"staking", "reward", "nftAccount"}

ASSUME ConstantsAssumption ==
  /\ Kinds \subseteq AllKinds
  /\ NotLive \subseteq Wallets
  /\ NoWallet \notin Wallets
  /\ TxHash \in [Items -> STRING]
  /\ MaxCrashes \in Nat

VARIABLES
  session,    \* wallet of the one document of sessionStore
  owner,      \* owner[r]: wallet of the session run r was started with
  pc,         \* pc[r][k]: next step of the pipeline of kind k in run r
  fetched,    \* fetched[r][k]: what the node answered to that pipeline
  txs,        \* documents of commonTransactionStore
  totals,     \* totals[w][k]: the list a document of commonAttributeStore sums up
  crashes,    \* number of times the application was killed
  lastSaved,  \* history: the list the latest finished save of <<w, k>> wrote
  alone       \* history: no other run wrote <<w, k>> since this save began

vars == <<session, owner, pc, fetched, txs, totals, crashes, lastSaved, alone>>

Outcomes == {"none", "complete", "notFound", "httpError", "noResponse"}

Steps == {"idle", "fetching", "remove", "dedupe", "insert", "attributes",
          "saved", "failed"}

Answer == [address : Wallets \cup {NoWallet}, items : SUBSET Items,
           outcome : Outcomes]

NoAnswer == [address |-> NoWallet, items |-> {}, outcome |-> "none"]

(***************************************************************************)
(* A document; run stands for the _id NeDB gives it, which differs between *)
(* two inserts.                                                            *)
(***************************************************************************)
Document == [walletId : Wallets, txType : Kinds, address : Wallets,
             item : Items, run : Runs]

Records(w, k) == {d \in txs : d.walletId = w /\ d.txType = k}

ItemsOf(docs) == {d.item : d \in docs}

Saving(w, k) == {r \in Runs : owner[r] = w /\ pc[r][k] \in {"dedupe", "insert"}}

Init ==
  /\ session \in Wallets
  /\ owner = [r \in Runs |-> NoWallet]
  /\ pc = [r \in Runs |-> [k \in Kinds |-> "idle"]]
  /\ fetched = [r \in Runs |-> [k \in Kinds |-> NoAnswer]]
  /\ txs = {}
  /\ totals = [w \in Wallets |-> [k \in Kinds |-> {}]]
  /\ crashes = 0
  /\ lastSaved = [w \in Wallets |-> [k \in Kinds |-> {}]]
  /\ alone = [r \in Runs |-> [k \in Kinds |-> FALSE]]

-----------------------------------------------------------------------------
(* Starting and ending a run *)

\* The user selects another wallet: setCurrentSession(new Session(...)).
SwitchWallet(w) ==
  /\ w # session
  /\ session' = w
  /\ UNCHANGED <<owner, pc, fetched, txs, totals, crashes, lastSaved, alone>>

\* The session is read once.  syncAll gives up if the network has no node yet and
\* otherwise sends the requests of all kinds; after a transaction was broadcast
\* the sender refreshes one kind at a time.
StartRun(r, kinds) ==
  /\ owner[r] = NoWallet
  /\ session \notin NotLive
  /\ owner' = [owner EXCEPT ![r] = session]
  /\ pc' = [pc EXCEPT ![r] = [k \in Kinds |-> IF k \in kinds THEN "fetching" ELSE "idle"]]
  /\ UNCHANGED <<session, fetched, txs, totals, crashes, lastSaved, alone>>

\* mutant: an error that is not swallowed, so that Promise.all never resolves
SettleSavedRun(r) ==
  /\ owner[r] # NoWallet
  /\ \A k \in Kinds : pc[r][k] \in {"idle", "saved"}
  /\ owner' = [owner EXCEPT ![r] = NoWallet]
  /\ pc' = [pc EXCEPT ![r] = [k \in Kinds |-> "idle"]]
  /\ fetched' = [fetched EXCEPT ![r] = [k \in Kinds |-> NoAnswer]]
  /\ alone' = [alone EXCEPT ![r] = [k \in Kinds |-> FALSE]]
  /\ UNCHANGED <<session, txs, totals, crashes, lastSaved>>

\* Promise.all resolves: every pipeline has saved or has swallowed its error.
SettleRun(r) ==
  /\ owner[r] # NoWallet
  /\ \A k \in Kinds : pc[r][k] \in {"idle", "saved", "failed"}
  /\ owner' = [owner EXCEPT ![r] = NoWallet]
  /\ pc' = [pc EXCEPT ![r] = [k \in Kinds |-> "idle"]]
  /\ fetched' = [fetched EXCEPT ![r] = [k \in Kinds |-> NoAnswer]]
  /\ alone' = [alone EXCEPT ![r] = [k \in Kinds |-> FALSE]]
  /\ UNCHANGED <<session, txs, totals, crashes, lastSaved>>

-----------------------------------------------------------------------------
(* Asking the node *)

\* mutant: an error counts as "no delegations"
ListsOrNothing(k, outcome) ==
  IF outcome = "complete" THEN SUBSET Items ELSE {{}}

\* Code 5 ends the list at the page that got it.
Delegations(outcome) ==
  IF outcome \in {"complete", "notFound"} THEN SUBSET Items ELSE {}

\* Any HTTP error counts as "no rewards".
Rewards(outcome) ==
  CASE outcome = "complete"  -> SUBSET Items
    [] outcome = "httpError" -> {{}}
    [] OTHER                 -> {}

\* Any error at all counts as "none".
NftMessages(outcome) ==
  CASE outcome = "complete"                      -> SUBSET Items
    [] outcome \in {"httpError", "noResponse"} -> {{}}
    [] OTHER                                     -> {}

\* Lists a pipeline may go on with after a given outcome.
Lists(k, outcome) ==
  CASE k = "staking" -> Delegations(outcome)
    [] k = "reward"  -> Rewards(outcome)
    [] OTHER         -> NftMessages(outcome)

\* The estimates that are asked for after the rewards may throw as well.
Throws(k) == k # "nftAccount"

FetchAnswered(r, k) ==
  /\ pc[r][k] = "fetching"
  /\ \E outcome \in Outcomes : \E list \in Lists(k, outcome) :
       fetched' = [fetched EXCEPT ![r][k] =
         [address |-> owner[r], items |-> list, outcome |-> outcome]]
  /\ pc' = [pc EXCEPT ![r][k] = "remove"]
  /\ UNCHANGED <<session, owner, txs, totals, crashes, lastSaved, alone>>

\* FAILED_TO_LOAD_...
FetchFailed(r, k) ==
  /\ pc[r][k] = "fetching"
  /\ Throws(k)
  /\ pc' = [pc EXCEPT ![r][k] = "failed"]
  /\ UNCHANGED <<session, owner, fetched, txs, totals, crashes, lastSaved, alone>>

-----------------------------------------------------------------------------
(* Saving the answer: saveStakingTransactions, saveRewardList,
   saveNFTAccountTransactions *)

\* History: a write of run r to its records of kind k ends the solitude of every
\* other run that is saving them.
Disturb(r, k, mine) ==
  alone' = [s \in Runs |->
    IF s = r THEN [alone[s] EXCEPT ![k] = mine]
    ELSE IF owner[s] = owner[r] THEN [alone[s] EXCEPT ![k] = FALSE]
    ELSE alone[s]]

\* What remove({walletId, txType}, {multi: true}) finds.
NothingPrevious(w, k) == {}       \* mutant: the removal is forgotten

Previous(w, k) == Records(w, k)

\* An empty list needs nothing more than the removal.
RemovePrevious(r, k) ==
  LET w    == owner[r]
      list == fetched[r][k].items
  IN
  /\ pc[r][k] = "remove"
  /\ txs' = txs \ Previous(w, k)
  /\ pc' = [pc EXCEPT ![r][k] = IF list = {} THEN "saved" ELSE "dedupe"]
  /\ lastSaved' = IF list = {} THEN [lastSaved EXCEPT ![w][k] = {}] ELSE lastSaved
  /\ Disturb(r, k, TRUE)
  /\ UNCHANGED <<session, owner, fetched, totals, crashes>>

\* The txHash of a record.  Every delegation has the hash ''; a reward has none,
\* and a query for an undefined field matches nothing.
HashOf(k, i) ==
  CASE k = "staking"    -> ""
    [] k = "nftAccount" -> TxHash[i]
    [] k = "reward"     -> "undefined"

\* What the queries of insertCommonTransactionRecords may remove: they are issued
\* together, one per new record, and each removes one document of that hash.
Duplicates(w, k, list) ==
  IF k = "reward" THEN {{}}
  ELSE {docs \in SUBSET Records(w, k) :
          \A h \in {HashOf(k, i) : i \in Items} :
            LET found   == {d \in Records(w, k) : HashOf(k, d.item) = h}
                queries == {i \in list : HashOf(k, i) = h}
                removed == {d \in docs : HashOf(k, d.item) = h}
            IN  Cardinality(removed) =
                  IF Cardinality(queries) < Cardinality(found)
                  THEN Cardinality(queries) ELSE Cardinality(found)}

RemoveSameHash(r, k) ==
  /\ pc[r][k] = "dedupe"
  /\ \E docs \in Duplicates(owner[r], k, fetched[r][k].items) : txs' = txs \ docs
  /\ pc' = [pc EXCEPT ![r][k] = "insert"]
  /\ Disturb(r, k, alone[r][k])
  /\ UNCHANGED <<session, owner, fetched, totals, crashes, lastSaved>>

NewRecord(r, k, i) ==
  [walletId |-> owner[r], txType |-> k, address |-> fetched[r][k].address,
   item |-> i, run |-> r]

\* mutant: hashes that are already stored are skipped
UnseenRecords(r, k) ==
  {NewRecord(r, k, i) : i \in {j \in fetched[r][k].items :
     \A d \in Records(owner[r], k) : HashOf(k, d.item) # HashOf(k, j)}}

NewRecords(r, k) == {NewRecord(r, k, i) : i \in fetched[r][k].items}

InsertRecords(r, k) ==
  /\ pc[r][k] = "insert"
  /\ txs' = txs \cup NewRecords(r, k)
  /\ pc' = [pc EXCEPT ![r][k] = IF k = "nftAccount" THEN "saved" ELSE "attributes"]
  /\ lastSaved' = [lastSaved EXCEPT ![owner[r]][k] = fetched[r][k].items]
  /\ Disturb(r, k, alone[r][k])
  /\ UNCHANGED <<session, owner, fetched, totals, crashes>>

\* The totals go to another store, after the list.
UpdateCommonAttributes(r, k) ==
  /\ pc[r][k] = "attributes"
  /\ totals' = [totals EXCEPT ![owner[r]][k] = fetched[r][k].items]
  /\ pc' = [pc EXCEPT ![r][k] = "saved"]
  /\ Disturb(r, k, alone[r][k])
  /\ UNCHANGED <<session, owner, fetched, txs, crashes, lastSaved>>

\* The application is closed or killed and opened again: runs are lost, the
\* stores are what the last finished NeDB call left.
Crash ==
  /\ crashes < MaxCrashes
  /\ crashes' = crashes + 1
  /\ owner' = [r \in Runs |-> NoWallet]
  /\ pc' = [r \in Runs |-> [k \in Kinds |-> "idle"]]
  /\ fetched' = [r \in Runs |-> [k \in Kinds |-> NoAnswer]]
  /\ alone' = [r \in Runs |-> [k \in Kinds |-> FALSE]]
  /\ lastSaved' = [w \in Wallets |-> [k \in Kinds |->
                     IF Saving(w, k) = {} THEN lastSaved[w][k] ELSE {}]]
  /\ UNCHANGED <<session, txs, totals>>

RunStep(r) ==
  \/ SettleRun(r)
  \/ \E k \in Kinds :
       \/ FetchAnswered(r, k) \/ FetchFailed(r, k)
       \/ RemovePrevious(r, k) \/ RemoveSameHash(r, k)
       \/ InsertRecords(r, k) \/ UpdateCommonAttributes(r, k)

Next ==
  \/ \E w \in Wallets : SwitchWallet(w)
  \/ \E r \in Runs : \E kinds \in {Kinds} \cup {{k} : k \in Kinds} : StartRun(r, kinds)
  \/ \E r \in Runs : RunStep(r)
  \/ Crash

Spec == Init /\ [][Next]_vars

\* A started run goes on: every request is answered or fails, and NeDB serves its
\* queue.  Nothing makes the user switch wallets or a run start.
FairSpec == Spec /\ \A r \in Runs : WF_vars(RunStep(r))

-----------------------------------------------------------------------------
TypeOK ==
  /\ session \in Wallets
  /\ owner \in [Runs -> Wallets \cup {NoWallet}]
  /\ pc \in [Runs -> [Kinds -> Steps]]
  /\ fetched \in [Runs -> [Kinds -> Answer]]
  /\ txs \in SUBSET Document
  /\ totals \in [Wallets -> [Kinds -> SUBSET Items]]
  /\ crashes \in Nat
  /\ lastSaved \in [Wallets -> [Kinds -> SUBSET Items]]
  /\ alone \in [Runs -> [Kinds -> BOOLEAN]]

\* What run r has to leave behind for kind k.
OwnDocuments(r, k) ==
  {d \in Document : /\ d.walletId = owner[r] /\ d.address = owner[r]
                    /\ d.txType = k /\ d.run = r
                    /\ d.item \in fetched[r][k].items}

\* A record is only ever filed under the wallet whose address it was asked for,
\* although the user switches wallets while runs are in flight.
OwnRecords == \A d \in txs : d.address = d.walletId

\* However many runs overlap, once none of them is between its remove and its
\* insert the list that was saved last is in the store from end to end: no run's
\* removal of "previous" records takes away part of a newer answer.
LastSaveSurvives ==
  \A w \in Wallets, k \in Kinds :
    Saving(w, k) = {} => lastSaved[w][k] \subseteq ItemsOf(Records(w, k))

\* A save no other run disturbs repairs whatever crashes and earlier overlaps
\* left behind: nothing is left once the removal is done, before the totals are
\* written the records are the answer, each once, and in the end the totals are
\* those of that list (an empty list and NFT transactions do not touch them).
QuietSaveExact ==
  \A r \in Runs, k \in Kinds : alone[r][k] =>
    /\ pc[r][k] \in {"dedupe", "insert"} => Records(owner[r], k) = {}
    /\ pc[r][k] \in {"attributes", "saved"} =>
         Records(owner[r], k) = OwnDocuments(r, k)
    /\ pc[r][k] = "saved" /\ k # "nftAccount" /\ fetched[r][k].items # {} =>
         totals[owner[r]][k] = fetched[r][k].items

\* An error never erases delegations: a staking record only disappears when the
\* node has answered with the list that replaces it.
OnlyAnswersErase ==
  [][\A d \in txs \ txs' : d.txType = "staking" =>
       \E r \in Runs :
         /\ owner[r] = d.walletId
         /\ pc[r]["staking"] \in {"remove", "dedupe"}
         /\ fetched[r]["staking"].outcome \in {"complete", "notFound"}]_vars

\* Every sync run ends, whichever of its requests fail.
RunEnds == \A r \in Runs : owner[r] # NoWallet ~> owner[r] = NoWallet
=============================================================================
