-------------------------- MODULE SessionListsProofs --------------------------
(***************************************************************************)
(* What holds of the lists a refresh replaces as a whole, for any number   *)
(* of wallets, chains, lists and refreshes in flight.                      *)
(***************************************************************************)
EXTENDS SessionLists, FiniteSetTheorems, TLAPS

AnyWallet == Wallets \cup {NoWallet}
AnyAnswer == Lists \cup NoLists

ListsTyped ==
  /\ session \in Wallets
  /\ job \in [Runs -> Jobs \cup {"none"}] /\ owner \in [Runs -> AnyWallet]
  /\ pc \in [Runs -> Steps] /\ at \in [Runs -> Nat]
  /\ \A r \in Runs: /\ at[r] \in DOMAIN PartsOf(job[r])
                    /\ IF pc[r] = "idle" THEN job[r] = "none"
                                         ELSE job[r] \in Jobs /\ owner[r] \in Wallets
  /\ asked \in [Runs -> [Parts -> AnyWallet]] /\ answer \in [Runs -> [Parts -> AnyAnswer]]
  /\ latest \in [Parts -> [Keys -> AnyAnswer]]
  /\ switched \in [Runs -> BOOLEAN] /\ alone \in [Runs -> [Parts -> BOOLEAN]]

(* The list inserted last is there, unless it is all gone and a run is about to insert
   another one in its place. *)
Replaced(part, key) == \E r \in Replacing(part, key): FiledUnder(r) = key

LatestKept ==
  \A p \in Parts, k \in Keys: latest[p][k] # "null" =>
    \/ Batches(p, k) = {} /\ Replaced(p, k)
    \/ \E b \in Batches(p, k): b.list = latest[p][k]

(* As long as the user stays, both sessions a run reads are the one it was started for. *)
StaysWithOwner ==
  \A r \in Runs:
    IF pc[r] = "idle" THEN \A p \in Parts: asked[r][p] = NoWallet
    ELSE ~switched[r] => session = owner[r] /\ \A p \in Parts: asked[r][p] \in {NoWallet, owner[r]}

(* A run past the network has asked for every list it is about to save. *)
MustHaveAsked(r, n) ==
  \/ pc[r] \in {"remove", "removeAgain", "insert"}
  \/ pc[r] = "fetch" /\ n <= at[r]
  \/ pc[r] = "ask" /\ n < at[r]

AskedInTime ==
  \A r \in Runs: \A n \in DOMAIN PartsOf(job[r]):
    MustHaveAsked(r, n) => asked[r][PartsOf(job[r])[n]] # NoWallet

(* A run is between the removal of a list and the insert. *)
Between(r, part) == pc[r] \in {"removeAgain", "insert"} /\ Part(r) = part

(* What a run leaves of a list that nobody else has written since. *)
LeftOf(batches, list, between) ==
  IF between \/ list = "empty" THEN batches = {}
                               ELSE \E b \in batches: batches = {b} /\ b.list = list

LeftByRun(r, part) ==
  alone[r][part] => LeftOf(Batches(part, Key(part, owner[r])), answer[r][part], Between(r, part))

AloneIsExact ==
  \A r \in Runs:
    /\ pc[r] \in {"idle", "ask", "fetch"} => \A p \in Parts: ~alone[r][p]
    /\ ~switched[r] => \A p \in Parts: LeftByRun(r, p)
    /\ \A p \in Parts: Between(r, p) => answer[r][p] # "empty"

-----------------------------------------------------------------------------
(* Types *)

(* A job has its parts in order, from the first to the last. *)
LEMMA Walk ==
  ASSUME NEW j
  PROVE  /\ 1 \in DOMAIN PartsOf(j)
         /\ DOMAIN PartsOf(j) \subseteq Nat \ {0}
         /\ \A n \in DOMAIN PartsOf(j):
              /\ n <= Len(PartsOf(j))
              /\ n # Len(PartsOf(j)) => n + 1 \in DOMAIN PartsOf(j)
<1>1. CASE j = "nfts"
  <2>1. PartsOf(j) = <<"native", "crc721">> /\ Len(PartsOf(j)) = 2 BY <1>1 DEF PartsOf
  <2>2. DOMAIN PartsOf(j) = 1 .. 2 BY <2>1
  <2> QED BY <2>1, <2>2
<1>2. CASE j # "nfts"
  <2>1. PartsOf(j) = <<j>> /\ Len(PartsOf(j)) = 1 BY <1>2 DEF PartsOf
  <2>2. DOMAIN PartsOf(j) = 1 .. 1 BY <2>1
  <2> QED BY <2>1, <2>2
<1> QED BY <1>1, <1>2

(* A run that is busy works on one of the lists that are refreshed. *)
LEMMA WorksOnAPart ==
  ASSUME ListsTyped, NEW r \in Runs, pc[r] # "idle"
  PROVE  /\ Part(r) \in Parts /\ at[r] \in DOMAIN PartsOf(job[r])
         /\ \A n \in DOMAIN PartsOf(job[r]): PartsOf(job[r])[n] \in Parts
         /\ job[r] \in Jobs /\ owner[r] \in Wallets
<1>1. job[r] \in Jobs /\ owner[r] \in Wallets /\ at[r] \in DOMAIN PartsOf(job[r])
  BY DEF ListsTyped
<1>2. \A n \in DOMAIN PartsOf(job[r]): PartsOf(job[r])[n] \in Parts BY <1>1 DEF Parts
<1> QED BY <1>1, <1>2 DEF Part

(* The five kinds of lists. *)
LEMMA KindsOfParts ==
  ConstantsAssumption =>
    Parts \subseteq {"validators", "proposals", "unbonding", "native", "crc721"}
<1> SUFFICES ASSUME ConstantsAssumption, NEW j \in Jobs, NEW n \in DOMAIN PartsOf(j)
             PROVE  PartsOf(j)[n] \in {"validators", "proposals", "unbonding", "native", "crc721"}
  BY DEF Parts
<1>1. j \in AllJobs BY DEF ConstantsAssumption
<1>2. CASE j = "nfts"
  <2>1. PartsOf(j) = <<"native", "crc721">> BY <1>2 DEF PartsOf
  <2>2. n \in 1 .. 2 BY <2>1
  <2> QED BY <2>1, <2>2
<1>3. CASE j # "nfts"
  <2>1. PartsOf(j) = <<j>> BY <1>3 DEF PartsOf
  <2>2. n = 1 BY <2>1
  <2> QED BY <2>1, <2>2, <1>1, <1>3 DEF AllJobs
<1> QED BY <1>2, <1>3

(* Every list that is the answer of a fetch, or none. *)
LEMMA AnswersAreLists ==
  ASSUME ConstantsAssumption, NEW p \in Parts, NEW w, NEW a \in Answers(p, w) \ {"error"}
  PROVE  a \in AnyAnswer
<1>1. p \in {"validators", "proposals", "unbonding", "native", "crc721"} BY KindsOfParts
<1>2. Answers(p, w) \subseteq Lists \cup {"empty", "null", "error"}
  BY <1>1 DEF Answers, TopValidators, LatestProposals, UnbondingPages, CryptoOrgNfts,
     Crc721Tokens, ErrorIs, BondedValidators, LoadedProposals, AccountNfts, Requested
<1> QED BY <1>2 DEF AnyAnswer, NoLists

(* The constants are of the types the module assumes at the start. *)
LEMMA TypedAtStart == Init => ListsTyped
<1> SUFFICES ASSUME Init PROVE ListsTyped OBVIOUS
<1>1. \A r \in Runs: at[r] \in DOMAIN PartsOf(job[r]) BY Walk DEF Init
<1>2. at \in [Runs -> Nat] BY DEF Init
<1> QED BY <1>1, <1>2 DEF Init, ListsTyped, AnyWallet, AnyAnswer, NoLists, Steps

(* Advance leaves a run at one of the parts of its job. *)
LEMMA Advances ==
  ASSUME ListsTyped, NEW r \in Runs, pc[r] # "idle", Advance(r), UNCHANGED <<job, owner>>
  PROVE  /\ pc' \in [Runs -> Steps] /\ at' \in [Runs -> Nat]
         /\ \A s \in Runs: /\ at'[s] \in DOMAIN PartsOf(job'[s])
                           /\ IF pc'[s] = "idle" THEN job'[s] = "none"
                              ELSE job'[s] \in Jobs /\ owner'[s] \in Wallets
<1>1. at[r] \in DOMAIN PartsOf(job[r]) /\ at[r] \in Nat BY DEF ListsTyped
<1>2. ~LastPart(r) => at[r] + 1 \in DOMAIN PartsOf(job[r]) BY <1>1, Walk DEF LastPart
<1>3. pc' \in [Runs -> Steps] BY DEF Advance, ListsTyped, Steps
<1>4. at' \in [Runs -> Nat] BY <1>1 DEF Advance, ListsTyped
<1>5. at'[r] \in DOMAIN PartsOf(job'[r]) BY <1>1, <1>2 DEF Advance, ListsTyped
<1>6. pc'[r] # "idle" BY DEF Advance, ListsTyped
<1>7. \A s \in Runs \ {r}: at'[s] = at[s] /\ pc'[s] = pc[s] BY DEF Advance, ListsTyped
<1> QED BY <1>3, <1>4, <1>5, <1>6, <1>7 DEF ListsTyped

(* Disturb keeps the type of its history. *)
LEMMA DisturbTyped ==
  ASSUME NEW r \in Runs, NEW key, NEW mine \in BOOLEAN, Disturb(r, key, mine),
         alone \in [Runs -> [Parts -> BOOLEAN]]
  PROVE  alone' \in [Runs -> [Parts -> BOOLEAN]]
BY DEF Disturb

(* Every step gives every variable a value of its kind. *)
LEMMA TypedStep == ConstantsAssumption /\ ListsTyped /\ [Next]_vars => ListsTyped'
<1> SUFFICES ASSUME ConstantsAssumption, ListsTyped, [Next]_vars PROVE ListsTyped' OBVIOUS
<1> USE DEF AnyWallet, AnyAnswer, NoLists
<1>1. CASE UNCHANGED vars BY <1>1 DEF vars, ListsTyped
<1>2. ASSUME NEW w \in Wallets, SwitchWallet(w) PROVE ListsTyped'
  BY <1>2 DEF SwitchWallet, ListsTyped
<1>3. ASSUME NEW r \in Runs, NEW j \in Jobs, Start(r, j) PROVE ListsTyped'
  <2>1. at' \in [Runs -> Nat] /\ pc' \in [Runs -> Steps] BY <1>3 DEF Start, ListsTyped, Steps
  <2>2. at'[r] \in DOMAIN PartsOf(job'[r]) BY <1>3, Walk DEF Start, ListsTyped
  <2>3. job'[r] \in Jobs /\ owner'[r] \in Wallets /\ pc'[r] # "idle"
    BY <1>3 DEF Start, ListsTyped
  <2>4. \A s \in Runs \ {r}: at'[s] = at[s] /\ job'[s] = job[s] /\ owner'[s] = owner[s]
                             /\ pc'[s] = pc[s] BY <1>3 DEF Start, ListsTyped
  <2>5. \A s \in Runs: /\ at'[s] \in DOMAIN PartsOf(job'[s])
                       /\ IF pc'[s] = "idle" THEN job'[s] = "none"
                          ELSE job'[s] \in Jobs /\ owner'[s] \in Wallets
    BY <2>2, <2>3, <2>4 DEF ListsTyped
  <2>6. job' \in [Runs -> Jobs \cup {"none"}] /\ owner' \in [Runs -> AnyWallet]
        /\ switched' \in [Runs -> BOOLEAN]
    BY <1>3 DEF Start, ListsTyped
  <2> QED BY <1>3, <2>1, <2>5, <2>6 DEF Start, ListsTyped
<1>4. ASSUME NEW r \in Runs, Settle(r) PROVE ListsTyped'
  <2>1. at' \in [Runs -> Nat] /\ pc' \in [Runs -> Steps] BY <1>4 DEF Settle, ListsTyped, Steps
  <2>2. \A s \in Runs: /\ at'[s] \in DOMAIN PartsOf(job'[s])
                       /\ IF pc'[s] = "idle" THEN job'[s] = "none"
                          ELSE job'[s] \in Jobs /\ owner'[s] \in Wallets
    <3>1. at'[r] = 1 /\ job'[r] = "none" /\ pc'[r] = "idle" BY <1>4 DEF Settle, ListsTyped
    <3>2. \A s \in Runs \ {r}: at'[s] = at[s] /\ job'[s] = job[s] /\ owner'[s] = owner[s]
                               /\ pc'[s] = pc[s] BY <1>4 DEF Settle, ListsTyped
    <3> QED BY <3>1, <3>2, Walk DEF ListsTyped
  <2>3. job' \in [Runs -> Jobs \cup {"none"}] /\ owner' \in [Runs -> AnyWallet]
    BY <1>4 DEF Settle, ListsTyped
  <2>4. switched' \in [Runs -> BOOLEAN] /\ alone' \in [Runs -> [Parts -> BOOLEAN]]
    BY <1>4 DEF Settle, ListsTyped
  <2>5. asked' \in [Runs -> [Parts -> AnyWallet]] /\ answer' \in [Runs -> [Parts -> AnyAnswer]]
    BY <1>4 DEF Settle, ListsTyped
  <2> QED BY <1>4, <2>1, <2>2, <2>3, <2>4, <2>5 DEF Settle, ListsTyped
<1>5. ASSUME NEW r \in Runs, ReadSession(r) PROVE ListsTyped'
  <2>1. Part(r) \in Parts /\ owner[r] \in Wallets /\ job[r] \in Jobs
    BY <1>5, WorksOnAPart DEF ReadSession
  <2>2. SessionOfFetch(r) \in Wallets BY <2>1 DEF SessionOfFetch, ListsTyped
  <2>3. asked' \in [Runs -> [Parts -> AnyWallet]] BY <1>5, <2>2 DEF ReadSession, ListsTyped
  <2>4. pc' \in [Runs -> Steps] BY <1>5 DEF ReadSession, ListsTyped, Steps
  <2>5. pc'[r] = "fetch" /\ \A s \in Runs \ {r}: pc'[s] = pc[s]
    BY <1>5 DEF ReadSession, ListsTyped
  <2> QED BY <1>5, <2>1, <2>3, <2>4, <2>5 DEF ReadSession, ListsTyped
<1>6. ASSUME NEW r \in Runs, Fetched(r) PROVE ListsTyped'
  <2>1. Part(r) \in Parts /\ owner[r] \in Wallets /\ job[r] \in Jobs
    BY <1>6, WorksOnAPart DEF Fetched
  <2>2. PICK a \in Answers(Part(r), asked[r][Part(r)]) \ {"error"}:
          answer' = [answer EXCEPT ![r][Part(r)] = a]
    BY <1>6 DEF Fetched
  <2>3. a \in AnyAnswer BY <2>1, <2>2, AnswersAreLists
  <2>4. answer' \in [Runs -> [Parts -> AnyAnswer]] BY <2>2, <2>3 DEF ListsTyped
  <2>5. at[r] \in DOMAIN PartsOf(job[r]) /\ at[r] \in Nat BY DEF ListsTyped
  <2>6. ~LastPart(r) => at[r] + 1 \in DOMAIN PartsOf(job[r]) BY <2>5, Walk DEF LastPart
  <2>7. at'[r] \in DOMAIN PartsOf(job'[r]) BY <1>6, <2>5, <2>6, Walk DEF Fetched, ListsTyped
  <2>8. at' \in [Runs -> Nat] /\ pc' \in [Runs -> Steps]
    BY <1>6, <2>5 DEF Fetched, ListsTyped, Steps
  <2>9. pc'[r] # "idle" /\ \A s \in Runs \ {r}: pc'[s] = pc[s] /\ at'[s] = at[s]
    BY <1>6 DEF Fetched, ListsTyped
  <2>10. \A s \in Runs: /\ at'[s] \in DOMAIN PartsOf(job'[s])
                        /\ IF pc'[s] = "idle" THEN job'[s] = "none"
                           ELSE job'[s] \in Jobs /\ owner'[s] \in Wallets
    BY <1>6, <2>1, <2>7, <2>9 DEF Fetched, ListsTyped
  <2> QED BY <1>6, <2>4, <2>8, <2>10 DEF Fetched, ListsTyped
<1>7. ASSUME NEW r \in Runs, FetchFailed(r) PROVE ListsTyped'
  <2>1. owner[r] \in Wallets /\ job[r] \in Jobs BY <1>7, WorksOnAPart DEF FetchFailed
  <2>2. pc' \in [Runs -> Steps] BY <1>7 DEF FetchFailed, ListsTyped, Steps
  <2>3. pc'[r] = "done" /\ \A s \in Runs \ {r}: pc'[s] = pc[s]
    BY <1>7 DEF FetchFailed, ListsTyped
  <2> QED BY <1>7, <2>1, <2>2, <2>3 DEF FetchFailed, ListsTyped
<1>8. ASSUME NEW r \in Runs, SkipPart(r) PROVE ListsTyped'
  <2>1. Advance(r) /\ pc[r] # "idle" /\ UNCHANGED <<job, owner>> BY <1>8 DEF SkipPart
  <2> QED BY <1>8, <2>1, Advances DEF SkipPart, ListsTyped
<1>9. ASSUME NEW r \in Runs, RemovePart(r) PROVE ListsTyped'
  <2>1. pc[r] # "idle" /\ UNCHANGED <<job, owner>> BY <1>9 DEF RemovePart
  <2>2. /\ pc' \in [Runs -> Steps] /\ at' \in [Runs -> Nat]
        /\ \A s \in Runs: /\ at'[s] \in DOMAIN PartsOf(job'[s])
                          /\ IF pc'[s] = "idle" THEN job'[s] = "none"
                             ELSE job'[s] \in Jobs /\ owner'[s] \in Wallets
    <3>1. CASE Advance(r) BY <2>1, <3>1, Advances
    <3>2. CASE /\ pc' = [pc EXCEPT ![r] = IF Part(r) \in {"native", "crc721"}
                                          THEN "removeAgain" ELSE "insert"]
               /\ UNCHANGED at
      <4>1. owner[r] \in Wallets /\ job[r] \in Jobs BY <2>1, WorksOnAPart
      <4>2. pc' \in [Runs -> Steps] BY <3>2 DEF ListsTyped, Steps
      <4>3. pc'[r] # "idle" /\ \A s \in Runs \ {r}: pc'[s] = pc[s] BY <3>2 DEF ListsTyped
      <4> QED BY <2>1, <3>2, <4>1, <4>2, <4>3 DEF ListsTyped
    <3> QED BY <1>9, <3>1, <3>2 DEF RemovePart
  <2>3. latest' \in [Parts -> [Keys -> AnyAnswer]] BY <1>9 DEF RemovePart, ListsTyped
  <2>4. alone' \in [Runs -> [Parts -> BOOLEAN]]
    BY <1>9, DisturbTyped DEF RemovePart, ListsTyped
  <2> QED BY <1>9, <2>2, <2>3, <2>4 DEF RemovePart, ListsTyped
<1>10. ASSUME NEW r \in Runs, RemovePartAgain(r) PROVE ListsTyped'
  <2>1. Part(r) \in Parts /\ owner[r] \in Wallets /\ job[r] \in Jobs
    BY <1>10, WorksOnAPart DEF RemovePartAgain
  <2>2. latest' \in [Parts -> [Keys -> AnyAnswer]] BY <1>10 DEF RemovePartAgain, ListsTyped
  <2>3. alone[r][Part(r)] \in BOOLEAN BY <2>1 DEF ListsTyped
  <2>4. alone' \in [Runs -> [Parts -> BOOLEAN]]
    BY <1>10, <2>3, DisturbTyped DEF RemovePartAgain, ListsTyped
  <2>5. pc' \in [Runs -> Steps] BY <1>10 DEF RemovePartAgain, ListsTyped, Steps
  <2>6. pc'[r] = "insert" /\ \A s \in Runs \ {r}: pc'[s] = pc[s]
    BY <1>10 DEF RemovePartAgain, ListsTyped
  <2> QED BY <1>10, <2>1, <2>2, <2>4, <2>5, <2>6 DEF RemovePartAgain, ListsTyped
<1>11. ASSUME NEW r \in Runs, InsertPart(r) PROVE ListsTyped'
  <2>1. Part(r) \in Parts /\ pc[r] # "idle" /\ Advance(r) /\ UNCHANGED <<job, owner>>
    BY <1>11, WorksOnAPart DEF InsertPart
  <2>2. answer[r][Part(r)] \in AnyAnswer BY <2>1 DEF ListsTyped
  <2>3. latest' \in [Parts -> [Keys -> AnyAnswer]] BY <1>11, <2>2 DEF InsertPart, ListsTyped
  <2>4. alone[r][Part(r)] \in BOOLEAN BY <2>1 DEF ListsTyped
  <2>5. alone' \in [Runs -> [Parts -> BOOLEAN]]
    BY <1>11, <2>4, DisturbTyped DEF InsertPart, ListsTyped
  <2> QED BY <1>11, <2>1, <2>3, <2>5, Advances DEF InsertPart, ListsTyped
<1>12. ASSUME Crash PROVE ListsTyped'
  <2>1. \A r \in Runs: at'[r] \in DOMAIN PartsOf(job'[r]) BY <1>12, Walk DEF Crash
  <2>2. at' \in [Runs -> Nat] /\ pc' \in [Runs -> Steps] BY <1>12 DEF Crash, Steps
  <2>3. \A p \in Parts, k \in Keys: (IF Batches(p, k) = {} THEN "null" ELSE latest[p][k]) \in AnyAnswer
    BY DEF ListsTyped
  <2>4. latest' \in [Parts -> [Keys -> AnyAnswer]] BY <1>12, <2>3 DEF Crash
  <2> QED BY <1>12, <2>1, <2>2, <2>4 DEF Crash, ListsTyped
<1> QED BY <1>1, <1>2, <1>3, <1>4, <1>5, <1>6, <1>7, <1>8, <1>9, <1>10, <1>11, <1>12
        DEF Next, RunStep

-----------------------------------------------------------------------------
(* The list inserted last *)

(* A run of which nothing changes goes on replacing the lists it was replacing. *)
LEMMA GoesOnReplacing ==
  ASSUME NEW p, NEW k, NEW s \in Replacing(p, k), FiledUnder(s) = k,
         UNCHANGED <<pc[s], job[s], at[s], owner[s], asked[s]>>
  PROVE  Replaced(p, k)'
<1>1. /\ pc'[s] \in {"removeAgain", "insert"}
      /\ PartsOf(job'[s])[at'[s]] = p
      /\ Key(p, owner'[s]) = k
  BY DEF Replacing, Part
<1>2. FiledUnder(s)' = FiledUnder(s) BY DEF FiledUnder, Part
<1>3. s \in Runs BY DEF Replacing
<1> QED BY <1>1, <1>2, <1>3 DEF Replaced, Replacing, Part

(* A step that writes no list and lets the runs that are replacing one be. *)
LEMMA KeptUntouched ==
  ASSUME LatestKept, UNCHANGED <<stored, latest>>,
         \A s \in Runs: pc[s] \in {"removeAgain", "insert"} =>
           UNCHANGED <<pc[s], job[s], at[s], owner[s], asked[s]>>
  PROVE  LatestKept'
<1> SUFFICES ASSUME NEW p \in Parts, NEW k \in Keys, latest'[p][k] # "null"
             PROVE  \/ Batches(p, k)' = {} /\ Replaced(p, k)'
                    \/ \E b \in Batches(p, k)': b.list = latest'[p][k]
  BY DEF LatestKept
<1>1. Batches(p, k)' = Batches(p, k) BY DEF Batches
<1>2. CASE \E b \in Batches(p, k): b.list = latest[p][k] BY <1>1, <1>2
<1>3. CASE Batches(p, k) = {} /\ Replaced(p, k)
  <2>1. PICK s \in Replacing(p, k): FiledUnder(s) = k BY <1>3 DEF Replaced
  <2>2. s \in Runs /\ pc[s] \in {"removeAgain", "insert"} BY DEF Replacing
  <2>3. UNCHANGED <<pc[s], job[s], at[s], owner[s], asked[s]>> BY <2>2
  <2>4. Replaced(p, k)' BY <2>1, <2>3, GoesOnReplacing
  <2> QED BY <1>1, <1>3, <2>4
<1> QED BY <1>2, <1>3 DEF LatestKept

(* A step of one run that writes the list of one key: the others are as before. *)
LEMMA KeptBesides ==
  ASSUME LatestKept, NEW r \in Runs, NEW p \in Parts, NEW k \in Keys,
         latest'[p][k] # "null", latest'[p][k] = latest[p][k],
         Batches(p, k)' = Batches(p, k),
         UNCHANGED <<job, owner, asked>>,
         \A s \in Runs \ {r}: pc'[s] = pc[s] /\ at'[s] = at[s],
         ~(pc[r] \in {"removeAgain", "insert"} /\ Part(r) = p /\ FiledUnder(r) = k
           /\ Key(p, owner[r]) = k)
  PROVE  \/ Batches(p, k)' = {} /\ Replaced(p, k)'
         \/ \E b \in Batches(p, k)': b.list = latest'[p][k]
<1>1. CASE \E b \in Batches(p, k): b.list = latest[p][k] BY <1>1
<1>2. CASE Batches(p, k) = {} /\ Replaced(p, k)
  <2>1. PICK s \in Replacing(p, k): FiledUnder(s) = k BY <1>2 DEF Replaced
  <2>2. s \in Runs \ {r} BY <2>1 DEF Replacing
  <2>3. UNCHANGED <<pc[s], job[s], at[s], owner[s], asked[s]>> BY <2>2
  <2>4. Replaced(p, k)' BY <2>1, <2>3, GoesOnReplacing
  <2> QED BY <1>2, <2>4
<1> QED BY <1>1, <1>2 DEF LatestKept

(* What a removal leaves of a list: nothing of the key it is for, all of every other. *)
LEMMA AfterRemoval ==
  ASSUME NEW r \in Runs, stored' = stored \ Removed(r), NEW p, NEW k
  PROVE  Batches(p, k)' = IF p = Part(r) /\ k = Key(Part(r), owner[r])
                          THEN {} ELSE Batches(p, k)
BY DEF Removed, Batches

(* What an insert adds to a list. *)
LEMMA AfterInsert ==
  ASSUME NEW r \in Runs, NEW p, NEW k, NEW b,
         b = [part |-> Part(r), key |-> FiledUnder(r), list |-> answer[r][Part(r)], run |-> r],
         stored' = stored \cup {b}
  PROVE  Batches(p, k)' = IF p = Part(r) /\ k = FiledUnder(r)
                          THEN Batches(p, k) \cup {b} ELSE Batches(p, k)
<1>1. b.part = Part(r) /\ b.key = FiledUnder(r) OBVIOUS
<1> QED BY <1>1 DEF Batches

(* Every step leaves the latest list stored, or a run about to put another in its place. *)
LEMMA LatestStep ==
  ConstantsAssumption /\ ListsTyped /\ LatestKept /\ [Next]_vars => LatestKept'
<1> SUFFICES ASSUME ConstantsAssumption, ListsTyped, LatestKept, [Next]_vars PROVE LatestKept'
  OBVIOUS
<1>1. CASE UNCHANGED vars BY <1>1, KeptUntouched DEF vars
<1>2. ASSUME NEW w \in Wallets, SwitchWallet(w) PROVE LatestKept'
  BY <1>2, KeptUntouched DEF SwitchWallet
<1>3. ASSUME NEW r \in Runs, NEW j \in Jobs, Start(r, j) PROVE LatestKept'
  <2>1. pc[r] = "idle" BY <1>3, WorksOnAPart DEF Start, ListsTyped, ConstantsAssumption, AllJobs
  <2>2. \A s \in Runs \ {r}: UNCHANGED <<pc[s], job[s], at[s], owner[s], asked[s]>>
    BY <1>3 DEF Start, ListsTyped
  <2>3. UNCHANGED <<stored, latest>> BY <1>3 DEF Start
  <2> QED BY <2>1, <2>2, <2>3, KeptUntouched
<1>4. ASSUME NEW r \in Runs, Settle(r) PROVE LatestKept'
  <2>1. pc[r] = "done" BY <1>4 DEF Settle
  <2>2. \A s \in Runs \ {r}: UNCHANGED <<pc[s], job[s], at[s], owner[s], asked[s]>>
    BY <1>4 DEF Settle, ListsTyped
  <2>3. UNCHANGED <<stored, latest>> BY <1>4 DEF Settle
  <2> QED BY <2>1, <2>2, <2>3, KeptUntouched
<1>5. ASSUME NEW r \in Runs, ReadSession(r) \/ Fetched(r) \/ FetchFailed(r) \/ SkipPart(r)
      PROVE  LatestKept'
  <2>1. pc[r] \in {"ask", "fetch", "remove"}
    BY <1>5 DEF ReadSession, Fetched, FetchFailed, SkipPart
  <2>2. \A s \in Runs \ {r}: UNCHANGED <<pc[s], at[s], asked[s]>>
    BY <1>5 DEF ReadSession, Fetched, FetchFailed, SkipPart, Advance, ListsTyped
  <2>3. UNCHANGED <<stored, latest, job, owner>>
    BY <1>5 DEF ReadSession, Fetched, FetchFailed, SkipPart
  <2> QED BY <2>1, <2>2, <2>3, KeptUntouched
<1>6. ASSUME NEW r \in Runs, RemovePart(r) PROVE LatestKept'
  <2> DEFINE part == Part(r)
             key  == Key(part, owner[r])
             a    == answer[r][part]
  <2>1. /\ pc[r] = "remove" /\ ~Keeps(part, a) /\ stored' = stored \ Removed(r)
        /\ UNCHANGED <<job, owner, asked>>
    BY <1>6 DEF RemovePart
  <2>2. part \in Parts BY <2>1, WorksOnAPart
  <2>3. part \in {"validators", "proposals", "unbonding", "native", "crc721"}
    BY <2>2, KindsOfParts
  <2>4. \A s \in Runs \ {r}: pc'[s] = pc[s] /\ at'[s] = at[s]
    BY <1>6 DEF RemovePart, Advance, ListsTyped
  <2>5. latest' = IF \/ a = "empty" /\ part \in {"unbonding", "native", "crc721"}
                     \/ FiledUnder(r) # key
                  THEN [latest EXCEPT ![part][key] = "null"] ELSE latest
    BY <1>6 DEF RemovePart
  <2> SUFFICES ASSUME NEW p \in Parts, NEW k \in Keys, latest'[p][k] # "null"
               PROVE  \/ Batches(p, k)' = {} /\ Replaced(p, k)'
                      \/ \E b \in Batches(p, k)': b.list = latest'[p][k]
    BY DEF LatestKept
  <2>6. CASE p = part /\ k = key
    <3>1. Batches(p, k)' = {} BY <2>1, <2>6, AfterRemoval
    <3>2. ~(a = "empty" /\ part \in {"unbonding", "native", "crc721"}) /\ FiledUnder(r) = key
      BY <2>2, <2>5, <2>6 DEF ListsTyped
    <3>3. a # "empty" BY <2>1, <2>3, <3>2 DEF Keeps
    <3>4. pc'[r] \in {"removeAgain", "insert"} /\ at' = at
      BY <1>6, <3>3 DEF RemovePart, ListsTyped
    <3>5. Part(r)' = part BY <2>1, <3>4 DEF Part
    <3>6. FiledUnder(r)' = key BY <2>1, <3>2, <3>5 DEF FiledUnder
    <3>7. r \in Replacing(p, k)' BY <2>1, <2>6, <3>4, <3>5 DEF Replacing
    <3> QED BY <2>6, <3>1, <3>6, <3>7 DEF Replaced
  <2>7. CASE ~(p = part /\ k = key)
    <3>1. Batches(p, k)' = Batches(p, k) BY <2>1, <2>7, AfterRemoval
    <3>2. latest'[p][k] = latest[p][k] BY <2>2, <2>5, <2>7 DEF ListsTyped
    <3> QED BY <2>1, <2>4, <3>1, <3>2, KeptBesides
  <2> QED BY <2>6, <2>7
<1>7. ASSUME NEW r \in Runs, RemovePartAgain(r) PROVE LatestKept'
  <2> DEFINE part == Part(r)
             key  == Key(part, owner[r])
  <2>1. /\ pc[r] = "removeAgain" /\ stored' = stored \ Removed(r)
        /\ UNCHANGED <<job, owner, asked, at>>
    BY <1>7 DEF RemovePartAgain
  <2>2. part \in Parts BY <2>1, WorksOnAPart
  <2>3. pc'[r] = "insert" /\ \A s \in Runs \ {r}: pc'[s] = pc[s]
    BY <1>7 DEF RemovePartAgain, ListsTyped
  <2>4. latest' = IF FiledUnder(r) # key THEN [latest EXCEPT ![part][key] = "null"] ELSE latest
    BY <1>7 DEF RemovePartAgain
  <2> SUFFICES ASSUME NEW p \in Parts, NEW k \in Keys, latest'[p][k] # "null"
               PROVE  \/ Batches(p, k)' = {} /\ Replaced(p, k)'
                      \/ \E b \in Batches(p, k)': b.list = latest'[p][k]
    BY DEF LatestKept
  <2>6. CASE p = part /\ k = key
    <3>1. Batches(p, k)' = {} BY <2>1, <2>6, AfterRemoval
    <3>2. FiledUnder(r) = key BY <2>2, <2>4, <2>6 DEF ListsTyped
    <3>3. Part(r)' = part BY <2>1 DEF Part
    <3>4. FiledUnder(r)' = key BY <2>1, <3>2, <3>3 DEF FiledUnder
    <3>5. r \in Replacing(p, k)' BY <2>1, <2>3, <2>6, <3>3 DEF Replacing
    <3> QED BY <2>6, <3>1, <3>4, <3>5 DEF Replaced
  <2>7. CASE ~(p = part /\ k = key)
    <3>1. Batches(p, k)' = Batches(p, k) BY <2>1, <2>7, AfterRemoval
    <3>2. latest'[p][k] = latest[p][k] BY <2>2, <2>4, <2>7 DEF ListsTyped
    <3> QED BY <2>1, <2>3, <2>7, <3>1, <3>2, KeptBesides
  <2> QED BY <2>6, <2>7
<1>8. ASSUME NEW r \in Runs, InsertPart(r) PROVE LatestKept'
  <2> DEFINE part == Part(r)
             a    == answer[r][part]
             new  == [part |-> part, key |-> FiledUnder(r), list |-> a, run |-> r]
  <2>1. /\ pc[r] = "insert" /\ stored' = stored \cup {new}
        /\ latest' = [latest EXCEPT ![part][FiledUnder(r)] = a]
        /\ UNCHANGED <<job, owner, asked>>
    BY <1>8 DEF InsertPart
  <2>2. part \in Parts BY <2>1, WorksOnAPart
  <2>3. \A s \in Runs \ {r}: pc'[s] = pc[s] /\ at'[s] = at[s]
    BY <1>8 DEF InsertPart, Advance, ListsTyped
  <2> SUFFICES ASSUME NEW p \in Parts, NEW k \in Keys, latest'[p][k] # "null"
               PROVE  \/ Batches(p, k)' = {} /\ Replaced(p, k)'
                      \/ \E b \in Batches(p, k)': b.list = latest'[p][k]
    BY DEF LatestKept
  <2>6. CASE p = part /\ k = FiledUnder(r)
    <3>1. latest'[p][k] = a BY <2>1, <2>2, <2>6 DEF ListsTyped
    <3>2. new \in Batches(p, k)' BY <2>1, <2>6, AfterInsert
    <3>3. new.list = a OBVIOUS
    <3> QED BY <3>1, <3>2, <3>3
  <2>7. CASE ~(p = part /\ k = FiledUnder(r))
    <3>1. Batches(p, k)' = Batches(p, k) BY <2>1, <2>7, AfterInsert
    <3>2. latest'[p][k] = latest[p][k] BY <2>1, <2>2, <2>7 DEF ListsTyped
    <3> QED BY <2>1, <2>3, <2>7, <3>1, <3>2, KeptBesides
  <2> QED BY <2>6, <2>7
<1>9. ASSUME Crash PROVE LatestKept'
  <2> SUFFICES ASSUME NEW p \in Parts, NEW k \in Keys, latest'[p][k] # "null"
               PROVE  \E b \in Batches(p, k)': b.list = latest'[p][k]
    BY DEF LatestKept
  <2>1. Batches(p, k)' = Batches(p, k) BY <1>9 DEF Crash, Batches
  <2>2. latest'[p][k] = IF Batches(p, k) = {} THEN "null" ELSE latest[p][k] BY <1>9 DEF Crash
  <2> QED BY <2>1, <2>2 DEF LatestKept
<1> QED BY <1>1, <1>2, <1>3, <1>4, <1>5, <1>6, <1>7, <1>8, <1>9 DEF Next, RunStep

(* The validators, proposals, unbonding delegations and NFTs that were inserted last are
   stored until a refresh is about to replace them: no empty or failed answer, no refresh
   in flight beside it and no end of the application loses them. *)
THEOREM KeepsTheLatestList == Spec => []LatestListSurvives
<1>1. Init => ListsTyped /\ LatestKept
  <2>1. Init => LatestKept BY DEF Init, LatestKept
  <2> QED BY <2>1, TypedAtStart
<1>2. ListsTyped /\ LatestKept /\ [Next]_vars => ListsTyped' /\ LatestKept'
  BY ConstantsAssumption, TypedStep, LatestStep
<1>3. LatestKept => LatestListSurvives BY DEF LatestKept, LatestListSurvives, Replaced
<1> QED BY <1>1, <1>2, <1>3, PTL DEF Spec

-----------------------------------------------------------------------------
(* The sessions a run reads *)

(* Every step of a run whose user stays reads the session of its owner. *)
LEMMA StaysStep ==
  ConstantsAssumption /\ ListsTyped /\ StaysWithOwner /\ [Next]_vars => StaysWithOwner'
<1> SUFFICES ASSUME ConstantsAssumption, ListsTyped, StaysWithOwner, [Next]_vars
             PROVE  StaysWithOwner'
  OBVIOUS
<1>1. CASE UNCHANGED vars BY <1>1 DEF vars, StaysWithOwner
<1>2. ASSUME NEW w \in Wallets, SwitchWallet(w) PROVE StaysWithOwner'
  <2>1. \A r \in Runs: pc[r] # "idle" => switched'[r]
    BY <1>2 DEF SwitchWallet, ListsTyped, ConstantsAssumption, AllJobs
  <2> QED BY <1>2, <2>1 DEF SwitchWallet, StaysWithOwner
<1>3. ASSUME NEW r \in Runs, NEW j \in Jobs, Start(r, j) PROVE StaysWithOwner'
  <2>1. pc[r] = "idle" BY <1>3 DEF Start, ListsTyped, ConstantsAssumption, AllJobs
  <2>2. pc'[r] = "ask" /\ owner'[r] = session /\ session' = session /\ asked' = asked
    BY <1>3 DEF Start, ListsTyped
  <2>3. \A s \in Runs \ {r}: UNCHANGED <<pc[s], switched[s], owner[s]>>
    BY <1>3 DEF Start, ListsTyped
  <2> QED BY <2>1, <2>2, <2>3 DEF StaysWithOwner
<1>4. ASSUME NEW r \in Runs, Settle(r) PROVE StaysWithOwner'
  <2>1. pc'[r] = "idle" /\ \A p \in Parts: asked'[r][p] = NoWallet
    BY <1>4 DEF Settle, ListsTyped
  <2>2. session' = session /\ \A s \in Runs \ {r}: UNCHANGED <<pc[s], switched[s], owner[s], asked[s]>>
    BY <1>4 DEF Settle, ListsTyped
  <2> QED BY <2>1, <2>2 DEF StaysWithOwner
<1>5. ASSUME NEW r \in Runs, ReadSession(r) PROVE StaysWithOwner'
  <2>1. pc[r] = "ask" /\ pc'[r] = "fetch" /\ UNCHANGED <<session, owner, switched>>
    BY <1>5 DEF ReadSession, ListsTyped
  <2>2. asked' = [asked EXCEPT ![r][Part(r)] = SessionOfFetch(r)] BY <1>5 DEF ReadSession
  <2>3. ~switched[r] => session = owner[r] /\ \A p \in Parts: asked[r][p] \in {NoWallet, owner[r]}
    BY <2>1 DEF StaysWithOwner
  <2>4. ~switched[r] => SessionOfFetch(r) = owner[r] BY <2>3 DEF SessionOfFetch
  <2>5. ~switched[r] => \A p \in Parts: asked'[r][p] \in {NoWallet, owner[r]}
    BY <2>2, <2>3, <2>4 DEF ListsTyped
  <2>6. \A s \in Runs \ {r}: UNCHANGED <<pc[s], asked[s]>> BY <1>5 DEF ReadSession, ListsTyped
  <2> QED BY <2>1, <2>3, <2>5, <2>6 DEF StaysWithOwner
<1>6. ASSUME NEW r \in Runs,
             \/ Fetched(r) \/ FetchFailed(r) \/ SkipPart(r) \/ RemovePart(r)
             \/ RemovePartAgain(r) \/ InsertPart(r)
      PROVE  StaysWithOwner'
  <2>1. UNCHANGED <<session, owner, switched, asked>>
    BY <1>6 DEF Fetched, FetchFailed, SkipPart, RemovePart, RemovePartAgain, InsertPart
  <2>2. pc[r] # "idle" /\ pc'[r] # "idle"
    BY <1>6 DEF Fetched, FetchFailed, SkipPart, RemovePart, RemovePartAgain, InsertPart, Advance,
                ListsTyped
  <2>3. \A s \in Runs \ {r}: pc'[s] = pc[s]
    BY <1>6 DEF Fetched, FetchFailed, SkipPart, RemovePart, RemovePartAgain, InsertPart, Advance,
                ListsTyped
  <2> QED BY <2>1, <2>2, <2>3 DEF StaysWithOwner
<1>7. ASSUME Crash PROVE StaysWithOwner' BY <1>7 DEF Crash, StaysWithOwner
<1> QED BY <1>1, <1>2, <1>3, <1>4, <1>5, <1>6, <1>7 DEF Next, RunStep

(* No step takes a run past a list it has not asked for. *)
LEMMA AskedStep ==
  ConstantsAssumption /\ ListsTyped /\ AskedInTime /\ [Next]_vars => AskedInTime'
<1> SUFFICES ASSUME ConstantsAssumption, ListsTyped, AskedInTime, [Next]_vars
             PROVE  AskedInTime'
  OBVIOUS
<1> DEFINE Ok(r) == \A n \in DOMAIN PartsOf(job[r]):
                      MustHaveAsked(r, n) => asked[r][PartsOf(job[r])[n]] # NoWallet
<1>0. \A r \in Runs: Ok(r) BY DEF AskedInTime
<1>1. CASE UNCHANGED vars BY <1>1 DEF vars, AskedInTime, MustHaveAsked
<1>2. ASSUME NEW w \in Wallets, SwitchWallet(w) PROVE AskedInTime'
  BY <1>2 DEF SwitchWallet, AskedInTime, MustHaveAsked
<1>3. ASSUME NEW r \in Runs, UNCHANGED asked,
             \A s \in Runs \ {r}: UNCHANGED <<pc[s], at[s], job[s]>>,
             Ok(r)'
      PROVE  AskedInTime'
  <2>1. ASSUME NEW s \in Runs \ {r} PROVE Ok(s)'
    <3>1. \A n: MustHaveAsked(s, n)' <=> MustHaveAsked(s, n) BY <1>3, <2>1 DEF MustHaveAsked
    <3> QED BY <1>0, <1>3, <2>1, <3>1
  <2> QED BY <1>3, <2>1 DEF AskedInTime
<1>4. ASSUME NEW r \in Runs, NEW j \in Jobs, Start(r, j) PROVE AskedInTime'
  <2>1. pc'[r] = "ask" /\ at'[r] = 1 /\ UNCHANGED asked BY <1>4 DEF Start, ListsTyped
  <2>3. Ok(r)'
    <3> SUFFICES ASSUME NEW n \in DOMAIN PartsOf(job'[r]), MustHaveAsked(r, n)' PROVE FALSE
      OBVIOUS
    <3>1. n < 1 BY <2>1 DEF MustHaveAsked
    <3>2. n \in Nat \ {0} BY Walk
    <3> QED BY <3>1, <3>2
  <2>4. \A s \in Runs \ {r}: UNCHANGED <<pc[s], at[s], job[s]>> BY <1>4 DEF Start, ListsTyped
  <2> QED BY <1>3, <2>1, <2>3, <2>4
<1>5. ASSUME NEW r \in Runs, Settle(r) PROVE AskedInTime'
  <2>1. pc'[r] = "idle" BY <1>5 DEF Settle, ListsTyped
  <2>2. Ok(r)' BY <2>1 DEF MustHaveAsked
  <2>3. ASSUME NEW s \in Runs \ {r} PROVE Ok(s)'
    <3>1. UNCHANGED <<pc[s], at[s], job[s], asked[s]>> BY <1>5, <2>3 DEF Settle, ListsTyped
    <3>2. \A n: MustHaveAsked(s, n)' <=> MustHaveAsked(s, n) BY <3>1 DEF MustHaveAsked
    <3> QED BY <1>0, <2>3, <3>1, <3>2
  <2> QED BY <2>2, <2>3 DEF AskedInTime
<1>6. ASSUME NEW r \in Runs, ReadSession(r) PROVE AskedInTime'
  <2>1. /\ pc[r] = "ask" /\ pc'[r] = "fetch" /\ UNCHANGED <<job, at>>
        /\ asked' = [asked EXCEPT ![r][Part(r)] = SessionOfFetch(r)]
    BY <1>6 DEF ReadSession, ListsTyped
  <2>2. /\ Part(r) \in Parts /\ at[r] \in DOMAIN PartsOf(job[r]) /\ owner[r] \in Wallets
        /\ \A n \in DOMAIN PartsOf(job[r]): PartsOf(job[r])[n] \in Parts
    BY <2>1, WorksOnAPart
  <2>3. SessionOfFetch(r) # NoWallet
    BY <2>2 DEF SessionOfFetch, ListsTyped, ConstantsAssumption
  <2>4. \A p \in Parts: asked'[r][p] = IF p = Part(r) THEN SessionOfFetch(r) ELSE asked[r][p]
    BY <2>1 DEF ListsTyped
  <2>5. ASSUME NEW n \in DOMAIN PartsOf(job'[r]), MustHaveAsked(r, n)'
        PROVE  asked'[r][PartsOf(job'[r])[n]] # NoWallet
    <3>1. n \in DOMAIN PartsOf(job[r]) /\ PartsOf(job[r])[n] \in Parts BY <2>1, <2>2, <2>5
    <3>2. CASE n = at[r] BY <2>1, <2>3, <2>4, <3>1, <3>2 DEF Part
    <3>3. CASE n # at[r]
      <4>1. n \in Nat /\ at[r] \in Nat BY <3>1, Walk DEF ListsTyped
      <4>2. MustHaveAsked(r, n) BY <2>1, <2>5, <3>3, <4>1 DEF MustHaveAsked
      <4>3. asked[r][PartsOf(job[r])[n]] # NoWallet BY <1>0, <3>1, <4>2
      <4> QED BY <2>1, <2>3, <2>4, <3>1, <4>3
    <3> QED BY <3>2, <3>3
  <2>6. ASSUME NEW s \in Runs \ {r} PROVE Ok(s)'
    <3>1. UNCHANGED <<pc[s], at[s], job[s], asked[s]>> BY <1>6, <2>6 DEF ReadSession, ListsTyped
    <3>2. \A n: MustHaveAsked(s, n)' <=> MustHaveAsked(s, n) BY <3>1 DEF MustHaveAsked
    <3> QED BY <1>0, <2>6, <3>1, <3>2
  <2> QED BY <2>5, <2>6 DEF AskedInTime
<1>7. ASSUME NEW r \in Runs, Fetched(r) PROVE AskedInTime'
  <2>1. /\ pc[r] = "fetch" /\ UNCHANGED <<job, asked>>
        /\ pc' = [pc EXCEPT ![r] = IF LastPart(r) THEN "remove" ELSE "ask"]
        /\ at' = [at EXCEPT ![r] = IF LastPart(r) THEN 1 ELSE at[r] + 1]
    BY <1>7 DEF Fetched
  <2>2. ASSUME NEW n \in DOMAIN PartsOf(job'[r]), MustHaveAsked(r, n)'
        PROVE  asked'[r][PartsOf(job'[r])[n]] # NoWallet
    <3>1. n \in DOMAIN PartsOf(job[r]) /\ n \in Nat /\ at[r] \in Nat /\ n <= Len(PartsOf(job[r]))
      BY <2>1, <2>2, Walk DEF ListsTyped
    <3>2. n <= at[r]
      <4>1. CASE LastPart(r) BY <3>1, <4>1 DEF LastPart
      <4>2. CASE ~LastPart(r)
        <5>1. pc'[r] = "ask" /\ at'[r] = at[r] + 1 BY <2>1, <4>2 DEF ListsTyped
        <5>2. n < at[r] + 1 BY <2>2, <5>1 DEF MustHaveAsked
        <5> QED BY <3>1, <5>2
      <4> QED BY <4>1, <4>2
    <3>3. MustHaveAsked(r, n) BY <2>1, <3>2 DEF MustHaveAsked
    <3> QED BY <1>0, <2>1, <3>1, <3>3
  <2>3. \A s \in Runs \ {r}: UNCHANGED <<pc[s], at[s], job[s]>> BY <2>1 DEF ListsTyped
  <2> QED BY <1>3, <2>1, <2>2, <2>3
<1>8. ASSUME NEW r \in Runs, FetchFailed(r) PROVE AskedInTime'
  <2>1. pc'[r] = "done" /\ UNCHANGED asked BY <1>8 DEF FetchFailed, ListsTyped
  <2>2. Ok(r)' BY <2>1 DEF MustHaveAsked
  <2>3. \A s \in Runs \ {r}: UNCHANGED <<pc[s], at[s], job[s]>> BY <1>8 DEF FetchFailed, ListsTyped
  <2> QED BY <1>3, <2>1, <2>2, <2>3
<1>9. ASSUME NEW r \in Runs,
             SkipPart(r) \/ RemovePart(r) \/ RemovePartAgain(r) \/ InsertPart(r)
      PROVE  AskedInTime'
  <2>1. UNCHANGED <<job, asked>>
    BY <1>9 DEF SkipPart, RemovePart, RemovePartAgain, InsertPart
  <2>2. \A s \in Runs \ {r}: pc'[s] = pc[s] /\ at'[s] = at[s]
    BY <1>9 DEF SkipPart, RemovePart, RemovePartAgain, InsertPart, Advance, ListsTyped
  <2>3. pc[r] \in {"remove", "removeAgain", "insert"}
    BY <1>9 DEF SkipPart, RemovePart, RemovePartAgain, InsertPart
  <2>4. \A n: MustHaveAsked(r, n) BY <2>3 DEF MustHaveAsked
  <2>5. Ok(r)' BY <1>0, <2>1, <2>4
  <2> QED BY <1>3, <2>1, <2>2, <2>5
<1>10. ASSUME Crash PROVE AskedInTime'
  <2>1. \A r \in Runs: pc'[r] = "idle" BY <1>10 DEF Crash
  <2> QED BY <2>1 DEF AskedInTime, MustHaveAsked
<1> QED BY <1>1, <1>2, <1>4, <1>5, <1>6, <1>7, <1>8, <1>9, <1>10 DEF Next, RunStep

-----------------------------------------------------------------------------
(* A refresh nobody disturbs *)

(* A run keeps what it has left of a list that is not touched. *)
LEMMA LeftAsBefore ==
  ASSUME NEW s \in Runs, NEW p \in Parts, LeftByRun(s, p),
         owner'[s] = owner[s], answer'[s] = answer[s],
         Between(s, p)' <=> Between(s, p),
         alone'[s][p] => /\ alone[s][p]
                         /\ \A k: k = Key(p, owner[s]) => Batches(p, k)' = Batches(p, k)
  PROVE  LeftByRun(s, p)'
<1> SUFFICES ASSUME alone'[s][p]
             PROVE  LeftOf(Batches(p, Key(p, owner[s])), answer[s][p], Between(s, p))'
  BY DEF LeftByRun
<1>1. Batches(p, Key(p, owner[s]))' = Batches(p, Key(p, owner[s])) BY DEF Batches, Key
<1>2. LeftOf(Batches(p, Key(p, owner[s])), answer[s][p], Between(s, p)) BY DEF LeftByRun
<1> QED BY <1>1, <1>2 DEF LeftOf

(* A step that writes no list, of runs that are not between removal and insert. *)
LEMMA AloneUntouched ==
  ASSUME AloneIsExact, UNCHANGED stored,
         \A s \in Runs: \A p \in Parts: alone'[s][p] => alone[s][p],
         \A s \in Runs:
           \/ UNCHANGED <<pc[s], at[s], job[s], owner[s], answer[s]>> /\ (switched[s] => switched'[s])
           \/ \A p \in Parts: ~alone'[s][p] /\ ~Between(s, p)'
           \/ /\ UNCHANGED <<owner[s], answer[s], switched[s]>>
              /\ pc'[s] \notin {"idle", "ask", "fetch"}
              /\ \A p \in Parts: ~Between(s, p) /\ ~Between(s, p)'
  PROVE  AloneIsExact'
<1>0. \A p, k: Batches(p, k)' = Batches(p, k) BY DEF Batches
<1> SUFFICES ASSUME NEW s \in Runs
             PROVE  /\ pc'[s] \in {"idle", "ask", "fetch"} => \A p \in Parts: ~alone'[s][p]
                    /\ ~switched'[s] => \A p \in Parts: LeftByRun(s, p)'
                    /\ \A p \in Parts: Between(s, p)' => answer'[s][p] # "empty"
  BY DEF AloneIsExact
<1>1. CASE UNCHANGED <<pc[s], at[s], job[s], owner[s], answer[s]>> /\ (switched[s] => switched'[s])
  <2>1. \A p \in Parts: Between(s, p)' <=> Between(s, p) BY <1>1 DEF Between, Part
  <2>2. ~switched'[s] => \A p \in Parts: LeftByRun(s, p)'
    BY <1>0, <1>1, <2>1, LeftAsBefore DEF AloneIsExact
  <2> QED BY <1>1, <2>1, <2>2 DEF AloneIsExact
<1>2. CASE \A p \in Parts: ~alone'[s][p] /\ ~Between(s, p)'
  BY <1>2 DEF LeftByRun
<1>3. CASE /\ UNCHANGED <<owner[s], answer[s], switched[s]>>
           /\ pc'[s] \notin {"idle", "ask", "fetch"}
           /\ \A p \in Parts: ~Between(s, p) /\ ~Between(s, p)'
  <2>1. ~switched'[s] => \A p \in Parts: LeftByRun(s, p)'
    BY <1>0, <1>3, LeftAsBefore DEF AloneIsExact
  <2> QED BY <1>3, <2>1
<1> QED BY <1>1, <1>2, <1>3

(* The runs and the lists a write of run r leaves as they are. *)
LEMMA AloneBesides ==
  ASSUME ListsTyped, AloneIsExact, NEW r \in Runs, NEW key, NEW mine \in BOOLEAN,
         Disturb(r, key, mine), UNCHANGED <<job, owner, answer, switched>>,
         \A s \in Runs \ {r}: pc'[s] = pc[s] /\ at'[s] = at[s],
         \A p \in Parts: \A k: p # Part(r) \/ k # key => Batches(p, k)' = Batches(p, k),
         pc'[r] \notin {"idle", "ask", "fetch"},
         \A p \in Parts: Between(r, p)' => p = Part(r) /\ answer[r][p] # "empty",
         pc[r] \in {"remove", "removeAgain", "insert"},
         \A p \in Parts: p = Part(r) /\ ~switched[r] => LeftByRun(r, p)'
  PROVE  AloneIsExact'
<1>1. ASSUME NEW s \in Runs \ {r}
      PROVE  /\ pc'[s] \in {"idle", "ask", "fetch"} => \A p \in Parts: ~alone'[s][p]
             /\ ~switched'[s] => \A p \in Parts: LeftByRun(s, p)'
             /\ \A p \in Parts: Between(s, p)' => answer'[s][p] # "empty"
  <2>1. UNCHANGED <<pc[s], at[s], job[s], owner[s], answer[s], switched[s]>> BY <1>1
  <2>2. \A p \in Parts: alone'[s][p] =>
          alone[s][p] /\ (p # Part(r) \/ Key(p, owner[s]) # key)
    BY <1>1 DEF Disturb
  <2>3. \A p \in Parts: Between(s, p)' <=> Between(s, p) BY <2>1 DEF Between, Part
  <2>4. ASSUME NEW p \in Parts, ~switched'[s] PROVE LeftByRun(s, p)'
    <3>1. LeftByRun(s, p) BY <2>1, <2>4 DEF AloneIsExact
    <3>2. alone'[s][p] => /\ alone[s][p]
                          /\ \A k: k = Key(p, owner[s]) => Batches(p, k)' = Batches(p, k)
      BY <2>2
    <3> QED BY <2>1, <2>3, <3>1, <3>2, LeftAsBefore
  <2> QED BY <2>1, <2>2, <2>3, <2>4 DEF AloneIsExact
<1>2. ASSUME NEW p \in Parts, ~switched'[r] PROVE LeftByRun(r, p)'
  <2>1. CASE p = Part(r) BY <1>2, <2>1
  <2>2. CASE p # Part(r)
    <3>1. LeftByRun(r, p) /\ ~Between(r, p) /\ ~Between(r, p)'
      BY <1>2, <2>2 DEF AloneIsExact, Between
    <3>2. alone'[r][p] = alone[r][p] BY <2>2 DEF Disturb
    <3>3. \A k: Batches(p, k)' = Batches(p, k) BY <2>2
    <3> QED BY <3>1, <3>2, <3>3, LeftAsBefore
  <2> QED BY <2>1, <2>2
<1> QED BY <1>1, <1>2 DEF AloneIsExact

(* A run alone with a list leaves its answer at every write, and nothing beside it. *)
LEMMA AloneStep ==
  ConstantsAssumption /\ ListsTyped /\ StaysWithOwner /\ AskedInTime /\ AloneIsExact
  /\ [Next]_vars => AloneIsExact'
<1> SUFFICES ASSUME ConstantsAssumption, ListsTyped, StaysWithOwner, AskedInTime,
                    AloneIsExact, [Next]_vars
             PROVE  AloneIsExact'
  OBVIOUS
<1>1. CASE UNCHANGED vars
  <2>1. \A s \in Runs: \A p \in Parts: alone'[s][p] => alone[s][p] BY <1>1 DEF vars
  <2>2. \A s \in Runs: UNCHANGED <<pc[s], at[s], job[s], owner[s], answer[s]>>
                       /\ (switched[s] => switched'[s]) BY <1>1 DEF vars
  <2>3. UNCHANGED stored BY <1>1 DEF vars
  <2> QED BY <2>1, <2>2, <2>3, AloneUntouched
<1>2. ASSUME NEW w \in Wallets, SwitchWallet(w) PROVE AloneIsExact'
  <2>1. UNCHANGED <<pc, at, job, owner, answer, alone, stored>> BY <1>2 DEF SwitchWallet
  <2>2. \A s \in Runs: IF pc[s] = "idle" THEN \A p \in Parts: ~alone'[s][p] /\ ~Between(s, p)'
                                         ELSE switched'[s]
    BY <1>2 DEF SwitchWallet, AloneIsExact, Between, ListsTyped, ConstantsAssumption, AllJobs
  <2>3. \A s \in Runs: \A p \in Parts: alone'[s][p] => alone[s][p] BY <2>1
  <2> QED BY <2>1, <2>2, <2>3, AloneUntouched
<1>3. ASSUME NEW r \in Runs, NEW j \in Jobs, Start(r, j) PROVE AloneIsExact'
  <2>1. pc[r] = "idle" BY <1>3 DEF Start, ListsTyped, ConstantsAssumption, AllJobs
  <2>2. pc'[r] = "ask" /\ UNCHANGED <<stored, alone>> BY <1>3 DEF Start, ListsTyped
  <2>3. \A p \in Parts: ~alone'[r][p] /\ ~Between(r, p)'
    BY <2>1, <2>2 DEF AloneIsExact, Between
  <2>4. \A s \in Runs \ {r}: UNCHANGED <<pc[s], at[s], job[s], owner[s], answer[s], switched[s]>>
    BY <1>3 DEF Start, ListsTyped
  <2>5. \A s \in Runs: \A p \in Parts: alone'[s][p] => alone[s][p] BY <2>2
  <2> QED BY <2>2, <2>3, <2>4, <2>5, AloneUntouched
<1>4. ASSUME NEW r \in Runs, Settle(r) PROVE AloneIsExact'
  <2>1. /\ pc'[r] = "idle" /\ UNCHANGED stored
        /\ alone' = [alone EXCEPT ![r] = [p \in Parts |-> FALSE]]
    BY <1>4 DEF Settle, ListsTyped
  <2>2. \A p \in Parts: ~alone'[r][p] /\ ~Between(r, p)' BY <2>1 DEF Between, ListsTyped
  <2>3. \A s \in Runs \ {r}: UNCHANGED <<pc[s], at[s], job[s], owner[s], answer[s], switched[s]>>
    BY <1>4 DEF Settle, ListsTyped
  <2>4. \A s \in Runs: \A p \in Parts: alone'[s][p] => alone[s][p] BY <2>1 DEF ListsTyped
  <2> QED BY <2>1, <2>2, <2>3, <2>4, AloneUntouched
<1>5. ASSUME NEW r \in Runs, ReadSession(r) \/ Fetched(r) \/ FetchFailed(r)
      PROVE  AloneIsExact'
  <2>1. /\ pc[r] \in {"ask", "fetch"} /\ pc'[r] \in {"fetch", "ask", "remove", "done"}
        /\ UNCHANGED <<stored, alone, switched>>
    BY <1>5 DEF ReadSession, Fetched, FetchFailed, ListsTyped
  <2>2. \A p \in Parts: ~alone'[r][p] /\ ~Between(r, p)'
    BY <2>1 DEF AloneIsExact, Between
  <2>3. \A s \in Runs \ {r}: UNCHANGED <<pc[s], at[s], job[s], owner[s], answer[s]>>
    BY <1>5 DEF ReadSession, Fetched, FetchFailed, ListsTyped
  <2>4. \A s \in Runs: \A p \in Parts: alone'[s][p] => alone[s][p] BY <2>1
  <2> QED BY <2>1, <2>2, <2>3, <2>4, AloneUntouched
<1>6. ASSUME NEW r \in Runs, SkipPart(r) PROVE AloneIsExact'
  <2>1. /\ pc[r] = "remove" /\ pc'[r] \in {"remove", "done"}
        /\ UNCHANGED <<stored, alone, switched, owner, answer, job>>
    BY <1>6 DEF SkipPart, Advance, ListsTyped
  <2>2. \A p \in Parts: ~Between(r, p) /\ ~Between(r, p)' BY <2>1 DEF Between
  <2>3. \A s \in Runs \ {r}: UNCHANGED <<pc[s], at[s]>>
    BY <1>6 DEF SkipPart, Advance, ListsTyped
  <2>4. \A s \in Runs: \A p \in Parts: alone'[s][p] => alone[s][p] BY <2>1
  <2> QED BY <2>1, <2>2, <2>3, <2>4, AloneUntouched
<1>7. ASSUME NEW r \in Runs, RemovePart(r) PROVE AloneIsExact'
  <2> DEFINE part == Part(r)
             key  == Key(part, owner[r])
             a    == answer[r][part]
  <2>1. /\ pc[r] = "remove" /\ stored' = stored \ Removed(r) /\ Disturb(r, key, TRUE)
        /\ UNCHANGED <<job, owner, asked, answer, switched>>
    BY <1>7 DEF RemovePart
  <2>2. part \in Parts BY <2>1, WorksOnAPart
  <2>3. \A s \in Runs \ {r}: pc'[s] = pc[s] /\ at'[s] = at[s]
    BY <1>7 DEF RemovePart, Advance, ListsTyped
  <2>4. IF a = "empty" THEN pc'[r] \in {"remove", "done"}
                       ELSE pc'[r] \in {"removeAgain", "insert"} /\ at' = at
    BY <1>7 DEF RemovePart, Advance, ListsTyped
  <2>5. \A p \in Parts: Between(r, p)' <=> p = part /\ a # "empty"
    BY <2>1, <2>4 DEF Between, Part
  <2>6. \A p \in Parts: \A k: p # part \/ k # key => Batches(p, k)' = Batches(p, k)
    BY <2>1, AfterRemoval
  <2>7. ASSUME NEW p \in Parts, p = part PROVE LeftByRun(r, p)'
    <3>1. \A k: k = key => Batches(p, k)' = {} BY <2>1, <2>7, AfterRemoval
    <3>2. Batches(p, Key(p, owner[r]))' = {} BY <2>1, <2>7, <3>1 DEF Batches
    <3>3. (Between(r, p) \/ answer[r][p] = "empty")' BY <2>1, <2>5, <2>7
    <3> QED BY <3>2, <3>3 DEF LeftByRun, LeftOf
  <2>8. pc'[r] \notin {"idle", "ask", "fetch"} BY <2>4
  <2>9. \A p \in Parts: Between(r, p)' => p = Part(r) /\ answer[r][p] # "empty" BY <2>5
  <2>10. TRUE \in BOOLEAN OBVIOUS
  <2> QED BY <2>1, <2>3, <2>6, <2>7, <2>8, <2>9, <2>10, AloneBesides
<1>8. ASSUME NEW r \in Runs, RemovePartAgain(r) PROVE AloneIsExact'
  <2> DEFINE part == Part(r)
             key  == Key(part, owner[r])
  <2>1. /\ pc[r] = "removeAgain" /\ stored' = stored \ Removed(r)
        /\ Disturb(r, key, alone[r][part])
        /\ UNCHANGED <<job, owner, asked, answer, switched, at>>
    BY <1>8 DEF RemovePartAgain
  <2>2. part \in Parts BY <2>1, WorksOnAPart
  <2>3. pc'[r] = "insert" /\ \A s \in Runs \ {r}: pc'[s] = pc[s] /\ at'[s] = at[s]
    BY <1>8 DEF RemovePartAgain, ListsTyped
  <2>4. Between(r, part) /\ answer[r][part] # "empty"
    BY <2>1, <2>2 DEF Between, AloneIsExact
  <2>5. \A p \in Parts: Between(r, p)' <=> p = part
    BY <2>1, <2>3 DEF Between, Part
  <2>6. \A p \in Parts: \A k: p # part \/ k # key => Batches(p, k)' = Batches(p, k)
    BY <2>1, AfterRemoval
  <2>7. ASSUME NEW p \in Parts, p = part PROVE LeftByRun(r, p)'
    <3>1. \A k: k = key => Batches(p, k)' = {} BY <2>1, <2>7, AfterRemoval
    <3>2. Batches(p, Key(p, owner[r]))' = {} BY <2>1, <2>7, <3>1 DEF Batches
    <3>3. Between(r, p)' BY <2>5, <2>7
    <3> QED BY <3>2, <3>3 DEF LeftByRun, LeftOf
  <2>8. pc'[r] \notin {"idle", "ask", "fetch"} BY <2>3
  <2>9. \A p \in Parts: Between(r, p)' => p = Part(r) /\ answer[r][p] # "empty" BY <2>4, <2>5
  <2>10. alone[r][part] \in BOOLEAN BY <2>2 DEF ListsTyped
  <2> QED BY <2>1, <2>3, <2>6, <2>7, <2>8, <2>9, <2>10, AloneBesides
<1>9. ASSUME NEW r \in Runs, InsertPart(r) PROVE AloneIsExact'
  <2> DEFINE part == Part(r)
             key  == Key(part, owner[r])
             a    == answer[r][part]
             new  == [part |-> part, key |-> FiledUnder(r), list |-> a, run |-> r]
  <2>1. /\ pc[r] = "insert" /\ stored' = stored \cup {new}
        /\ Disturb(r, FiledUnder(r), alone[r][part])
        /\ UNCHANGED <<job, owner, asked, answer, switched>>
    BY <1>9 DEF InsertPart
  <2>2. /\ part \in Parts /\ at[r] \in DOMAIN PartsOf(job[r])
    BY <2>1, WorksOnAPart
  <2>3. pc'[r] \in {"remove", "done"} /\ \A s \in Runs \ {r}: pc'[s] = pc[s] /\ at'[s] = at[s]
    BY <1>9 DEF InsertPart, Advance, ListsTyped
  <2>4. Between(r, part) /\ a # "empty"
    BY <2>1, <2>2 DEF Between, AloneIsExact
  <2>5. \A p \in Parts: ~Between(r, p)' BY <2>3 DEF Between
  <2>6. \A p \in Parts: \A k: p # part \/ k # FiledUnder(r) => Batches(p, k)' = Batches(p, k)
    BY <2>1, AfterInsert
  <2>7. asked[r][part] # NoWallet
    BY <2>1, <2>2 DEF AskedInTime, MustHaveAsked, Part
  <2>8. ~switched[r] => FiledUnder(r) = key
    <3> SUFFICES ASSUME ~switched[r] PROVE FiledUnder(r) = key OBVIOUS
    <3>1. asked[r][part] = owner[r] BY <2>1, <2>2, <2>7 DEF StaysWithOwner
    <3>2. part \in {"native", "crc721"} => key = owner[r] BY DEF Key
    <3> QED BY <3>1, <3>2 DEF FiledUnder
  <2>9. ASSUME NEW p \in Parts, p = part, ~switched[r] PROVE LeftByRun(r, p)'
    <3> SUFFICES ASSUME alone'[r][p]
                 PROVE  LeftOf(Batches(p, Key(p, owner[r])), answer[r][p], Between(r, p))'
      BY DEF LeftByRun
    <3>1. alone[r][p] BY <2>1, <2>9 DEF Disturb
    <3>2. Batches(p, key) = {} BY <2>4, <2>9, <3>1 DEF AloneIsExact, LeftByRun, LeftOf
    <3>3. \A k: k = key => Batches(p, k)' = {new} BY <2>1, <2>8, <2>9, <3>2, AfterInsert
    <3>4. Batches(p, Key(p, owner[r]))' = {new} BY <2>1, <2>9, <3>3 DEF Batches
    <3>5. new.list = answer'[r][p] BY <2>1, <2>9
    <3>6. ~Between(r, p)' /\ answer'[r][p] # "empty" BY <2>1, <2>4, <2>5, <2>9
    <3> QED BY <3>4, <3>5, <3>6 DEF LeftOf
  <2>10. pc'[r] \notin {"idle", "ask", "fetch"} BY <2>3
  <2>11. \A p \in Parts: Between(r, p)' => p = Part(r) /\ answer[r][p] # "empty" BY <2>5
  <2>12. alone[r][part] \in BOOLEAN BY <2>2 DEF ListsTyped
  <2> QED BY <2>1, <2>3, <2>6, <2>9, <2>10, <2>11, <2>12, AloneBesides
<1>10. ASSUME Crash PROVE AloneIsExact'
  <2>1. \A s \in Runs: \A p \in Parts: ~alone'[s][p] /\ ~Between(s, p)'
    BY <1>10 DEF Crash, Between
  <2>2. UNCHANGED stored BY <1>10 DEF Crash
  <2>3. \A s \in Runs: \A p \in Parts: alone'[s][p] => alone[s][p] BY <2>1
  <2> QED BY <2>1, <2>2, <2>3, AloneUntouched
<1> QED BY <1>1, <1>2, <1>3, <1>4, <1>5, <1>6, <1>7, <1>8, <1>9, <1>10 DEF Next, RunStep

(* While the user stays with his wallet, a refresh that no other one disturbs leaves of
   every list it has replaced exactly the answer it was given, whatever was stored. *)
THEOREM ReplacesExactly == Spec => []QuietRefreshExact
<1> DEFINE Inv == ListsTyped /\ StaysWithOwner /\ AskedInTime /\ AloneIsExact
<1>1. Init => Inv
  <2> SUFFICES ASSUME Init PROVE StaysWithOwner /\ AskedInTime /\ AloneIsExact
    BY TypedAtStart
  <2>1. \A r \in Runs: pc[r] = "idle" /\ \A p \in Parts: ~alone[r][p] /\ asked[r][p] = NoWallet
    BY DEF Init
  <2> QED BY <2>1 DEF StaysWithOwner, AskedInTime, MustHaveAsked, AloneIsExact, LeftByRun, Between
<1>2. Inv /\ [Next]_vars => Inv'
  BY ConstantsAssumption, TypedStep, StaysStep, AskedStep, AloneStep
<1>3. Inv => QuietRefreshExact
  <2> SUFFICES ASSUME Inv, NEW r \in Runs, pc[r] = "done", ~switched[r], NEW p \in Parts,
                      alone[r][p]
               PROVE  LET batches == Batches(p, Key(p, owner[r]))
                      IN  /\ Cardinality(batches) <= 1
                          /\ {b.list : b \in batches} = {answer[r][p]} \ {"empty"}
    BY DEF QuietRefreshExact
  <2> DEFINE batches == Batches(p, Key(p, owner[r]))
             a == answer[r][p]
  <2>1. ~Between(r, p) BY DEF Between
  <2>2. LeftOf(batches, a, FALSE) BY <2>1 DEF AloneIsExact, LeftByRun, LeftOf
  <2> HIDE DEF batches, a
  <2>3. CASE a = "empty"
    <3>1. batches = {} BY <2>2, <2>3 DEF LeftOf
    <3>2. Cardinality(batches) = 0 BY <3>1, FS_EmptySet
    <3> QED BY <2>3, <3>1, <3>2 DEF batches, a
  <2>4. CASE a # "empty"
    <3>1. PICK b \in batches: batches = {b} /\ b.list = a BY <2>2, <2>4 DEF LeftOf
    <3>2. Cardinality(batches) = 1 BY <3>1, FS_Singleton
    <3>3. {c.list : c \in batches} = {a} \ {"empty"} BY <2>4, <3>1
    <3> QED BY <3>2, <3>3 DEF batches, a
  <2> QED BY <2>3, <2>4
<1> QED BY <1>1, <1>2, <1>3, PTL DEF Spec

=============================================================================
