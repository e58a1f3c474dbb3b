----------------------------- MODULE SessionLists -----------------------------
(***************************************************************************)
(* The lists a sync replaces as a whole: validators and proposals (one     *)
(* document per chain), unbonding delegations (one per wallet) and the     *)
(* NFTs of a wallet (native, then CRC-721).                                *)
(*                                                                         *)
(* The refresh is handed a session, and for all but the unbonding list the *)
(* fetch reads the session a second time: it may ask for another wallet    *)
(* than the one it was started for.  Validators and proposals are filed    *)
(* under the chain of the first session, NFTs under the wallet of the      *)
(* second, after the NFTs of the first have been removed.                  *)
(***************************************************************************)
EXTENDS Naturals, Sequences, FiniteSets

CONSTANTS
  Wallets,
  Chain,      \* chainId of the network of a wallet
  NotLive,    \* wallets whose network has no node yet
  OnTestnet,  \* wallets of a test network
  Jobs,       \* refreshes that can be started
  Lists,      \* the answers that are not empty
  Runs,       \* refreshes that can be in flight at the same time
  NoWallet,   \* no session has been read
  MaxSwitches,  \* bound: how often the user switches wallets
  MaxCrashes    \* bound: how often the application is killed

Chains == {Chain[w] : w \in Wallets}

AllJobs == {"validators", "proposals", "unbonding", "nfts"}

\* The answers that are not lists: an empty one, and the null of a refresh that
\* leaves the stored list alone.
NoLists == {"empty", "null"}

ASSUME ConstantsAssumption ==
  /\ DOMAIN Chain = Wallets
  /\ NotLive \subseteq Wallets /\ OnTestnet \subseteq Wallets
  /\ Jobs \subseteq AllJobs
  /\ NoWallet \notin Wallets
  /\ Lists \cap NoLists = {}
  /\ MaxSwitches \in Nat /\ MaxCrashes \in Nat

\* fetchAndSaveNFTs fetches both lists before it saves the first.
PartsOf(job) == IF job = "nfts" THEN <<"native", "crc721">> ELSE <<job>>

Parts == UNION {{PartsOf(j)[n] : n \in DOMAIN PartsOf(j)} : j \in Jobs}

Keys == Chains \cup Wallets

\* What the documents of a list are looked up by.
Key(part, w) == IF part \in {"validators", "proposals"} THEN Chain[w] ELSE w

VARIABLES
  session,    \* wallet of the one document of sessionStore
  job,        \* job[r]: what run r refreshes, "none" if it is not running
  owner,      \* owner[r]: wallet of the session run r was started with
  at,         \* at[r]: the part of the job run r is working on
  pc,         \* pc[r]: its next step
  asked,      \* asked[r][part]: wallet of the session the fetch has read
  answer,     \* answer[r][part]: what came back
  stored,     \* the batches of the list stores
  switches,   \* number of times the user has switched wallets
  crashes,    \* number of times the application was killed
  latest,     \* history: the list last inserted under <<part, key>>
  switched,   \* history: the user has switched wallets since run r started
  alone       \* history: nobody else wrote this list since run r removed it

vars == <<session, job, owner, at, pc, asked, answer, stored, switches, crashes,
          latest, switched, alone>>

Steps == {"idle", "ask", "fetch", "remove", "removeAgain", "insert", "done"}

(***************************************************************************)
(* What one insert stores.  It is always removed as a whole; run stands    *)
(* for the _id that tells two inserts apart.                               *)
(***************************************************************************)
Batch == [part : Parts, key : Keys, list : Lists, run : Runs]

Batches(part, key) == {b \in stored : b.part = part /\ b.key = key}

Init ==
  /\ session \in Wallets
  /\ job = [r \in Runs |-> "none"]
  /\ owner = [r \in Runs |-> NoWallet]
  /\ at = [r \in Runs |-> 1]
  /\ pc = [r \in Runs |-> "idle"]
  /\ asked = [r \in Runs |-> [p \in Parts |-> NoWallet]]
  /\ answer = [r \in Runs |-> [p \in Parts |-> "null"]]
  /\ stored = {}
  /\ switches = 0
  /\ crashes = 0
  /\ latest = [p \in Parts |-> [k \in Keys |-> "null"]]
  /\ switched = [r \in Runs |-> FALSE]
  /\ alone = [r \in Runs |-> [p \in Parts |-> FALSE]]

Part(r) == PartsOf(job[r])[at[r]]

LastPart(r) == at[r] = Len(PartsOf(job[r]))

-----------------------------------------------------------------------------
(* Starting and ending *)

\* setCurrentSession: a wallet switch, or the session set after a deletion.
SwitchWallet(w) ==
  /\ w # session
  /\ switches < MaxSwitches
  /\ switches' = switches + 1
  /\ session' = w
  /\ switched' = [r \in Runs |-> job[r] # "none"]
  /\ UNCHANGED <<job, owner, at, pc, asked, answer, stored, crashes, latest, alone>>

\* By syncAll, by the start of the home page, by the wallet page or after a
\* broadcast; only the fetch checks again whether the network has a node.
Start(r, j) ==
  /\ job[r] = "none"
  /\ j = "unbonding" => session \notin NotLive
  /\ job' = [job EXCEPT ![r] = j]
  /\ owner' = [owner EXCEPT ![r] = session]
  /\ at' = [at EXCEPT ![r] = 1]
  /\ pc' = [pc EXCEPT ![r] = "ask"]
  /\ switched' = [switched EXCEPT ![r] = FALSE]
  /\ UNCHANGED <<session, asked, answer, stored, switches, crashes, latest, alone>>

Settle(r) ==
  /\ pc[r] = "done"
  /\ job' = [job EXCEPT ![r] = "none"]
  /\ owner' = [owner EXCEPT ![r] = NoWallet]
  /\ at' = [at EXCEPT ![r] = 1]
  /\ pc' = [pc EXCEPT ![r] = "idle"]
  /\ asked' = [asked EXCEPT ![r] = [p \in Parts |-> NoWallet]]
  /\ answer' = [answer EXCEPT ![r] = [p \in Parts |-> "null"]]
  /\ switched' = [switched EXCEPT ![r] = FALSE]
  /\ alone' = [alone EXCEPT ![r] = [p \in Parts |-> FALSE]]
  /\ UNCHANGED <<session, stored, switches, crashes, latest>>

-----------------------------------------------------------------------------
(* Fetching *)

\* The wallet a fetch asks for.
SessionOfFetch(r) == IF Part(r) = "unbonding" THEN owner[r] ELSE session

ReadSession(r) ==
  /\ pc[r] = "ask"
  /\ asked' = [asked EXCEPT ![r][Part(r)] = SessionOfFetch(r)]
  /\ pc' = [pc EXCEPT ![r] = "fetch"]
  /\ UNCHANGED <<session, job, owner, at, answer, stored, switches, crashes, latest,
                 switched, alone>>

\* What a request comes to; one that fails ends a fetch of many pages, too.
Requested == Lists \cup {"empty", "error"}

BondedValidators == Requested
LoadedProposals == Requested

\* The pages before a failed one are an answer, too.
UnbondingPages == Requested

\* Without the data of the marketplace the list is the same for our purposes.
AccountNfts == Requested

ErrorIs(a, answers) == {IF b = "error" THEN a ELSE b : b \in answers}

TopValidators(w) ==
  IF w \in NotLive THEN {"empty"} ELSE ErrorIs("empty", BondedValidators)

LatestProposals(w) ==
  IF w \in NotLive THEN {"empty"} ELSE ErrorIs("empty", LoadedProposals)

CryptoOrgNfts(w) ==
  IF w \in NotLive THEN {"empty"} ELSE ErrorIs("null", AccountNfts)

\* Of the main network only.
Crc721Tokens(w) == IF w \in OnTestnet THEN {"empty"} ELSE Requested

Answers(part, w) ==
  CASE part = "validators" -> TopValidators(w)
    [] part = "proposals"  -> LatestProposals(w)
    [] part = "unbonding"  -> UnbondingPages
    [] part = "native"     -> CryptoOrgNfts(w)
    [] part = "crc721"     -> Crc721Tokens(w)

Fetched(r) ==
  /\ pc[r] = "fetch"
  /\ \E a \in Answers(Part(r), asked[r][Part(r)]) \ {"error"} :
       answer' = [answer EXCEPT ![r][Part(r)] = a]
  /\ pc' = [pc EXCEPT ![r] = IF LastPart(r) THEN "remove" ELSE "ask"]
  /\ at' = [at EXCEPT ![r] = IF LastPart(r) THEN 1 ELSE at[r] + 1]
  /\ UNCHANGED <<session, job, owner, asked, stored, switches, crashes, latest,
                 switched, alone>>

\* Nothing at all is saved.
FetchFailed(r) ==
  /\ pc[r] = "fetch"
  /\ "error" \in Answers(Part(r), asked[r][Part(r)])
  /\ pc' = [pc EXCEPT ![r] = "done"]
  /\ UNCHANGED <<session, job, owner, at, asked, answer, stored, switches, crashes, latest,
                 switched, alone>>

-----------------------------------------------------------------------------
(* Saving: saveValidators, saveProposals, saveUnbondingDelegations,
   saveCryptoOrgNFTs, saveCronosCRC721NFTs *)

\* Lists that are not touched by an empty answer, or by a null.
KeepsOnNull(part, a) == a = "null"   \* mutant: no check for an empty answer

Keeps(part, a) ==
  \/ a = "null"
  \/ a = "empty" /\ part \in {"validators", "proposals"}

\* The key a batch is filed under.
FiledUnder(r) ==
  IF Part(r) \in {"native", "crc721"}
  THEN asked[r][Part(r)]
  ELSE Key(Part(r), owner[r])

NothingRemoved(r) == {}   \* mutant: the removal is forgotten

Removed(r) == Batches(Part(r), Key(Part(r), owner[r]))

Advance(r) ==
  /\ pc' = [pc EXCEPT ![r] = IF LastPart(r) THEN "done" ELSE "remove"]
  /\ at' = [at EXCEPT ![r] = IF LastPart(r) THEN at[r] ELSE at[r] + 1]

\* History: run r writes the list of a key; every other run that has removed it is
\* no longer alone with it.
Disturb(r, key, mine) ==
  alone' = [s \in Runs |-> [p \in Parts |->
    IF p # Part(r) THEN alone[s][p]
    ELSE IF s = r THEN mine
    ELSE alone[s][p] /\ Key(p, owner[s]) # key]]

SkipPart(r) ==
  /\ pc[r] = "remove"
  /\ Keeps(Part(r), answer[r][Part(r)])
  /\ Advance(r)
  /\ UNCHANGED <<session, job, owner, asked, answer, stored, switches, crashes, latest,
                 switched, alone>>

\* An empty list ends here; NFTs are removed a second time before the insert.
RemovePart(r) ==
  LET part == Part(r)
      a    == answer[r][part]
      key  == Key(part, owner[r])
  IN
  /\ pc[r] = "remove"
  /\ ~Keeps(part, a)
  /\ stored' = stored \ Removed(r)
  /\ IF a = "empty"
     THEN Advance(r)
     ELSE /\ pc' = [pc EXCEPT ![r] = IF part \in {"native", "crc721"}
                                     THEN "removeAgain" ELSE "insert"]
          /\ UNCHANGED at
  /\ latest' = IF \/ a = "empty" /\ part \in {"unbonding", "native", "crc721"}
                  \/ FiledUnder(r) # key
               THEN [latest EXCEPT ![part][key] = "null"] ELSE latest
  /\ Disturb(r, key, TRUE)
  /\ UNCHANGED <<session, job, owner, asked, answer, switches, crashes, switched>>

RemovePartAgain(r) ==
  /\ pc[r] = "removeAgain"
  /\ stored' = stored \ Removed(r)
  /\ latest' = IF FiledUnder(r) # Key(Part(r), owner[r])
               THEN [latest EXCEPT ![Part(r)][Key(Part(r), owner[r])] = "null"]
               ELSE latest
  /\ pc' = [pc EXCEPT ![r] = "insert"]
  /\ Disturb(r, Key(Part(r), owner[r]), alone[r][Part(r)])
  /\ UNCHANGED <<session, job, owner, at, asked, answer, switches, crashes, switched>>

InsertPart(r) ==
  LET part == Part(r)  a == answer[r][part] IN
  /\ pc[r] = "insert"
  /\ stored' = stored \cup
       {[part |-> part, key |-> FiledUnder(r), list |-> a, run |-> r]}
  /\ latest' = [latest EXCEPT ![part][FiledUnder(r)] = a]
  /\ Advance(r)
  /\ Disturb(r, FiledUnder(r), alone[r][part])
  /\ UNCHANGED <<session, job, owner, asked, answer, switches, crashes, switched>>

Crash ==
  /\ crashes < MaxCrashes
  /\ crashes' = crashes + 1
  /\ job' = [r \in Runs |-> "none"]
  /\ owner' = [r \in Runs |-> NoWallet]
  /\ at' = [r \in Runs |-> 1]
  /\ pc' = [r \in Runs |-> "idle"]
  /\ asked' = [r \in Runs |-> [p \in Parts |-> NoWallet]]
  /\ answer' = [r \in Runs |-> [p \in Parts |-> "null"]]
  /\ switched' = [r \in Runs |-> FALSE]
  /\ alone' = [r \in Runs |-> [p \in Parts |-> FALSE]]
  /\ latest' = [p \in Parts |-> [k \in Keys |->
       IF Batches(p, k) = {} THEN "null" ELSE latest[p][k]]]
  /\ UNCHANGED <<session, stored, switches>>

RunStep(r) ==
  \/ ReadSession(r) \/ Fetched(r) \/ FetchFailed(r)
  \/ SkipPart(r) \/ RemovePart(r) \/ RemovePartAgain(r) \/ InsertPart(r)
  \/ Settle(r)

Next ==
  \/ \E w \in Wallets : SwitchWallet(w)
  \/ \E r \in Runs : \E j \in Jobs : Start(r, j)
  \/ \E r \in Runs : RunStep(r)
  \/ Crash

Spec == Init /\ [][Next]_vars

-----------------------------------------------------------------------------
TypeOK ==
  /\ session \in Wallets
  /\ job \in [Runs -> Jobs \cup {"none"}]
  /\ owner \in [Runs -> Wallets \cup {NoWallet}]
  /\ \A r \in Runs : at[r] \in DOMAIN PartsOf(job[r])
  /\ pc \in [Runs -> Steps]
  /\ asked \in [Runs -> [Parts -> Wallets \cup {NoWallet}]]
  /\ answer \in [Runs -> [Parts -> Lists \cup NoLists]]
  /\ stored \subseteq Batch
  /\ switches \in Nat
  /\ crashes \in Nat
  /\ latest \in [Parts -> [Keys -> Lists \cup {"null"}]]
  /\ switched \in [Runs -> BOOLEAN]
  /\ alone \in [Runs -> [Parts -> BOOLEAN]]

\* The runs between the removal of a list and the insert that replaces it.
Replacing(part, key) ==
  {r \in Runs : /\ pc[r] \in {"removeAgain", "insert"}
                /\ Part(r) = part
                /\ Key(part, owner[r]) = key}

\* The list inserted last is still there once nobody is replacing it: an empty or
\* failed answer never costs the list of validators or proposals, and a wallet
\* only loses its NFTs to an answer that it has none or to a refresh that was
\* started for it and has gone on with the session of another wallet.
LatestListSurvives ==
  \A p \in Parts, k \in Keys :
    Replacing(p, k) = {} /\ latest[p][k] # "null" =>
      \E b \in Batches(p, k) : b.list = latest[p][k]

\* While the user stays with his wallet, a refresh that nobody disturbs leaves one
\* batch of every list it has replaced, the answer, whatever was there before.
QuietRefreshExact ==
  \A r \in Runs : pc[r] = "done" /\ ~switched[r] =>
    \A p \in Parts : alone[r][p] =>
      Cardinality(Batches(p, Key(p, owner[r]))) <= 1 /\
      {b.list : b \in Batches(p, Key(p, owner[r]))} = {answer[r][p]} \ {"empty"}
=============================================================================
