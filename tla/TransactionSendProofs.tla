------------------------ MODULE TransactionSendProofs ------------------------
(***************************************************************************)
(* What is proved of the way from a form to the dialog that tells what has  *)
(* become of the transaction, for all wallets and Ledgers, any number of    *)
(* clicks and every kind of transaction: a confirmation pays once, the user *)
(* is told the truth, the wallet of the dialog pays, and the lists show it. *)
(***************************************************************************)
EXTENDS TransactionSend, FiniteSetTheorems, TLAPS

(* Before a node has been asked to take the transaction of the stage. *)
EarlySteps == {"idle", "find", "add", "first", "second", "account", "signing", "before",
               "sign", "broadcast"}

(* The account of the transaction is known. *)
Readings == {"account", "signing", "sign", "before", "broadcast", "poll", "after"}

Included == {b.tx : b \in blocks}

SentTxs == pool \cup Included

(* A handler sends one transaction per stage, when it says so, and it is in one place. *)
SentOnce ==
  /\ IsFiniteSet(pool)
  /\ \A t \in SentTxs :
       /\ job[t.by].pc # "idle"
       /\ t.stage <= job[t.by].stage
       /\ t.stage = job[t.by].stage => job[t.by].pc \notin EarlySteps
  /\ \A t, u \in SentTxs : t.by = u.by /\ t.stage = u.stage => t = u
  /\ \A t \in pool : t \notin Included
  /\ \A b, c \in blocks : b.tx = c.tx => b = c

(* The result of a handler is what the chain says of its transaction, and it is told
   when the handler is over. *)
ResultFits(h) ==
  /\ job[h].pc \in EarlySteps \cup {"poll"} => job[h].result = "none"
  /\ job[h].pc = "poll" => Flow(h).node # "evm"
  /\ job[h].pc = "after" => job[h].result \in {"hash", "timeout"}
  /\ job[h].pc \in {"show", "over"} =>
       /\ job[h].result \in {"hash", "timeout", "error"}
       /\ job[h].result # "error" => job[h].stage = 2
  /\ job[h].stage = 1 => kind = "mint"
  /\ job[h].result = "hash" =>
       IF Flow(h).node = "evm" THEN ~job[h].lost
       ELSE \E t \in Done : t.by = h /\ t.stage = job[h].stage
  /\ job[h].result = "none" /\ Flow(h).node = "evm" => ~job[h].lost
  /\ job[h].result = "timeout" => job[h].lost
  /\ job[h].result = "error" => job[h].lost \/ ~Lives(h)
  /\ job[h].told = IF job[h].pc = "over" THEN Tells(h) ELSE "none"

(* What a handler has read of the session is the wallet of its page, if the user has not
   switched wallets. *)
Reads(h, w) == w \in Wallets /\ (job[h].moved \/ w = job[h].wallet)

ReadingFits(h) ==
  /\ Running(h) => job[h].wallet \in Wallets /\ (job[h].moved \/ session = job[h].wallet)
  /\ job[h].pc = "second" /\ Flow(h).first => Reads(h, job[h].first)
  /\ job[h].pc \in Readings => Reads(h, job[h].first)
  /\ job[h].pc = "second" => Flow(h).node # "evm"
  /\ job[h].pc \in Readings /\ Flow(h).node # "evm" => Reads(h, job[h].second)
  /\ job[h].pc = "signing" => Flow(h).index = "signing"
  /\ job[h].pc = "before" => Flow(h).before # {}
  /\ job[h].pc \in Readings \ {"account", "signing"} /\ Flow(h).index = "signing" =>
       Reads(h, job[h].second)

(* The number is the next one of the account, until another transaction comes between. *)
NumberFits(h) ==
  /\ job[h].pc \in {"signing", "sign", "before", "broadcast"} /\ ~job[h].overtaken =>
       Pooled(Account(h)) = {} /\ job[h].number = sequence[Account(h)]
  /\ job[h].refused => job[h].moved \/ job[h].overtaken

Payers ==
  \A t \in SentTxs :
    \/ t.payer \in Wallets /\ t.payer = job[t.by].wallet
    \/ t.payer \in Ledgers \cup {DeviceFirst} /\ job[t.by].moved

(* The lists a refresh after the transaction sets, and it alone. *)
Refreshes == kind # "nft" /\ FlowOf(kind).node # "evm"

ListsFit(h) ==
  Refreshes =>
    /\ job[h].pc \notin {"show", "over"} => ~job[h].answered
    /\ job[h].pc \in {"show", "over"} /\ job[h].result = "hash" /\ job[h].answered
         /\ ~job[h].moved =>
         \A t \in Done : t.by = h /\ t.stage = 2 /\ t.payer \in Wallets =>
           \A l \in Lists \cap FlowOf(kind).after
                      \cap Changes(Messages(kind, t.payer \in Ledgers)) :
             t \in seen[t.payer][l]

(* The page, its confirmations and the clicks on them. *)
ScreenFits ==
  /\ Clicked = 1..Cardinality(Clicked)
  /\ mount <= Cardinality(Clicked) /\ dialog <= Cardinality(Clicked)
  /\ \A h \in Clicked : job[h].mount < h /\ job[h].dialog < h
  /\ page = NoWallet => view = "form"
  /\ page # NoWallet => page = session
  /\ view = "confirm" =>
       \A h \in Clicked : job[h].dialog = dialog =>
         /\ job[h].mount = mount
         /\ job[h].pc = "over" => job[h].result \in {"error", "timeout"}

(* One handler at a time on a page, and the button spins for it. *)
OneAtATime ==
  twice \/
    /\ \A g, h \in Handlers : g # h =>
         /\ ~(Running(g) /\ Here(g) /\ Running(h) /\ Here(h))
         /\ ~(job[g].pc \in {"find", "add"} /\ job[h].pc \in {"find", "add"})
    /\ \A h \in Handlers : Running(h) /\ Here(h) => busy \/ job[h].pc \in {"find", "add"}
    /\ contacts <= 1
    /\ \A h \in Handlers : job[h].pc = "add" => contacts = 0

(* A confirmation is clicked again only when the transaction has failed or is lost. *)
ClickedAgain ==
  twice \/
    \A g, h \in Clicked : g < h /\ job[g].dialog = job[h].dialog =>
      job[g].pc = "over" /\ (job[g].lost \/ ~Lives(g))

HandlerFits(h) == ResultFits(h) /\ ReadingFits(h) /\ NumberFits(h) /\ ListsFit(h)

Inv ==
  /\ TypeOK /\ SentOnce /\ Payers
  /\ \A h \in Handlers : HandlerFits(h)
  /\ ScreenFits /\ OneAtATime /\ ClickedAgain

-----------------------------------------------------------------------------
(* The kinds of transactions *)

(* What all sending functions have in common. *)
LEMMA FlowFacts ==
  ASSUME NEW k \in Kinds \cup {"issue"}
  PROVE  /\ FlowOf(k).node \in {"evm", "tendermint"}
         /\ FlowOf(k).node = "evm" => FlowOf(k).first /\ FlowOf(k).index \in {"first", "signing"}
         /\ FlowOf(k).node # "evm" => FlowOf(k).index = "second"
         /\ FlowOf(k).before # {} => k = "nft"
         /\ FlowOf(k).first \in BOOLEAN
         /\ FlowOf(k).from \in {"first", "second", "page", "key"}
         /\ k \in {"mint", "issue"} => FlowOf(k).node # "evm"
<1> USE DEF FlowOf, TransferFlow, CosmosTransferFlow, EvmTransferFlow, TokenTransferFlow,
            DelegateFlow, UndelegateFlow, RedelegateFlow, WithdrawFlow, WithdrawAllFlow,
            RestakeFlow, RestakeAllFlow, VoteFlow, DepositFlow, ProposalFlow, NftFlow,
            Nft721Flow, MintFlow, IssueFlow
<1>1. CASE k \in {"transfer", "cosmosTransfer", "evmTransfer", "tokenTransfer"} BY <1>1
<1>2. CASE k \in {"delegate", "undelegate", "redelegate"} BY <1>2
<1>3. CASE k \in {"withdraw", "withdrawAll", "restake", "restakeAll"} BY <1>3
<1>4. CASE k \in {"vote", "deposit", "proposal"} BY <1>4
<1>5. CASE k \in {"nft", "nft721", "mint", "issue"} BY <1>5
<1> QED BY <1>1, <1>2, <1>3, <1>4, <1>5 DEF Kinds

(* The kinds each group of signing functions is for. *)
LEMMA SoftDomains ==
  /\ DOMAIN SoftTransfer = {"transfer", "cosmosTransfer"}
  /\ DOMAIN SoftGovernance = {"vote", "deposit", "proposal"}
  /\ DOMAIN SoftNfts = {"nft", "mint", "issue"}
  /\ DOMAIN SoftStaking = {"delegate", "restake", "restakeAll", "withdraw", "withdrawAll"}
  /\ DOMAIN SoftMoves = {"undelegate", "redelegate"}
BY DEF SoftTransfer, SoftGovernance, SoftNfts, SoftStaking, SoftMoves

(* On a Ledger likewise. *)
LEMMA LedgerDomains ==
  /\ DOMAIN LedgerTransfer = {"transfer", "cosmosTransfer"}
  /\ DOMAIN LedgerGovernance = {"vote", "deposit", "proposal"}
  /\ DOMAIN LedgerNfts = {"nft", "mint", "issue"}
  /\ DOMAIN LedgerStaking =
       {"delegate", "restake", "restakeAll", "withdraw", "withdrawAll", "undelegate",
        "redelegate"}
BY DEF LedgerTransfer, LedgerGovernance, LedgerNfts, LedgerStaking

(* The messages of a kind, whoever signs. *)
LEMMA MessagesOf ==
  ASSUME NEW k \in Kinds, NEW m \in {SoftMessages(k), LedgerMessages(k)}
  PROVE  /\ k \in {"transfer", "cosmosTransfer"} => m = {"MsgSend"}
         /\ k = "vote" => m = {"MsgVote"}
         /\ k = "deposit" => m = {"MsgDeposit"}
         /\ k = "proposal" => m = {"MsgSubmitProposal"}
         /\ k = "mint" => m = {"MsgMintNFT"}
         /\ k \in {"delegate", "restake", "restakeAll"} =>
              m \subseteq {"MsgWithdraw", "MsgDelegate"}
         /\ k \in {"withdraw", "withdrawAll"} => m = {"MsgWithdraw"}
         /\ k = "undelegate" => m = {"MsgUndelegate"}
         /\ k = "redelegate" => m = {"MsgBeginRedelegate"}
<1> USE SoftDomains, LedgerDomains DEF SoftMessages, LedgerMessages
<1>1. CASE k \in {"transfer", "cosmosTransfer"}
  <2>1. SoftMessages(k) = SoftTransfer[k] /\ LedgerMessages(k) = LedgerTransfer[k] BY <1>1
  <2> QED BY <1>1, <2>1 DEF SoftTransfer, LedgerTransfer
<1>2. CASE k \in {"vote", "deposit", "proposal"}
  <2>1. SoftMessages(k) = SoftGovernance[k] /\ LedgerMessages(k) = LedgerGovernance[k]
    BY <1>2
  <2> QED BY <1>2, <2>1 DEF SoftGovernance, LedgerGovernance
<1>3. CASE k \in {"delegate", "restake", "restakeAll", "withdraw", "withdrawAll"}
  <2>1. SoftMessages(k) = SoftStaking[k] /\ LedgerMessages(k) = LedgerStaking[k] BY <1>3
  <2>2. k \in {"delegate", "restake", "restakeAll"} =>
          m \subseteq {"MsgWithdraw", "MsgDelegate"}
    BY <2>1 DEF SoftStaking, LedgerStaking
  <2>3. k \in {"withdraw", "withdrawAll"} => m = {"MsgWithdraw"}
    BY <2>1 DEF SoftStaking, LedgerStaking
  <2> QED BY <1>3, <2>2, <2>3
<1>4. CASE k \in {"undelegate", "redelegate"}
  <2>1. SoftMessages(k) = SoftMoves[k] /\ LedgerMessages(k) = LedgerStaking[k] BY <1>4
  <2> QED BY <1>4, <2>1 DEF SoftMoves, LedgerStaking
<1>5. CASE k = "mint"
  <2>1. SoftMessages(k) = SoftNfts[k] /\ LedgerMessages(k) = LedgerNfts[k] BY <1>5
  <2> QED BY <1>5, <2>1 DEF SoftNfts, LedgerNfts
<1> QED BY <1>1, <1>2, <1>3, <1>4, <1>5

(* What the messages of a kind change, kind by kind. *)
LEMMA ChangesOf ==
  ASSUME NEW k \in Kinds, FlowOf(k).node # "evm", k # "nft", NEW onLedger \in BOOLEAN
  PROVE  Changes(Messages(k, onLedger)) \subseteq
           CASE k \in {"transfer", "cosmosTransfer"} -> {"balances"}
             [] k \in {"delegate", "restake", "restakeAll"} ->
                  {"balances", "delegations", "rewards"}
             [] k = "redelegate"                    -> {"delegations", "rewards"}
             [] k = "undelegate" -> {"balances", "delegations", "rewards", "unbonding"}
             [] k \in {"withdraw", "withdrawAll"}   -> {"balances", "rewards"}
             [] k = "vote"                          -> {}
             [] k \in {"deposit", "proposal"}       -> {"balances", "proposals"}
             [] OTHER                               -> {"nfts", "nftAccountTxs"}
<1> DEFINE m == Messages(k, onLedger)
<1>1. m \in {SoftMessages(k), LedgerMessages(k)} BY DEF Messages
<1>2. k \notin {"evmTransfer", "tokenTransfer", "nft721"}
  BY DEF FlowOf, EvmTransferFlow, TokenTransferFlow, Nft721Flow
<1> HIDE DEF m
<1>3. CASE k \in {"transfer", "cosmosTransfer"} BY <1>1, <1>3, MessagesOf DEF Changes, m
<1>4. CASE k \in {"vote", "deposit", "proposal"} BY <1>1, <1>4, MessagesOf DEF Changes, m
<1>5. CASE k \in {"delegate", "restake", "restakeAll"}
  <2>1. m \subseteq {"MsgWithdraw", "MsgDelegate"} BY <1>1, <1>5, MessagesOf
  <2> QED BY <1>5, <2>1 DEF Changes, m
<1>6. CASE k \in {"withdraw", "withdrawAll"} BY <1>1, <1>6, MessagesOf DEF Changes, m
<1>7. CASE k \in {"undelegate", "redelegate"} BY <1>1, <1>7, MessagesOf DEF Changes, m
<1>8. CASE k = "mint" BY <1>1, <1>8, MessagesOf DEF Changes, m
<1> QED BY <1>2, <1>3, <1>4, <1>5, <1>6, <1>7, <1>8 DEF Kinds

(* The lists that a transaction changes are refreshed after it, but for those left stale. *)
LEMMA RefreshCovers ==
  ASSUME kind \in Kinds, Refreshes, NEW onLedger \in BOOLEAN
  PROVE  (Lists \ LeftStale) \cap Changes(Messages(kind, onLedger))
           \subseteq FlowOf(kind).after
<1>1. FlowOf(kind).node # "evm" /\ kind # "nft" BY DEF Refreshes
<1> USE DEF FlowOf, TransferFlow, CosmosTransferFlow, EvmTransferFlow, TokenTransferFlow,
            DelegateFlow, UndelegateFlow, RedelegateFlow, WithdrawFlow, WithdrawAllFlow,
            RestakeFlow, RestakeAllFlow, VoteFlow, DepositFlow, ProposalFlow, NftFlow,
            Nft721Flow, MintFlow, IssueFlow, LeftStale
<1>2. CASE kind \in {"transfer", "cosmosTransfer"} BY <1>1, <1>2, ChangesOf
<1>3. CASE kind \in {"delegate", "restake", "restakeAll"} BY <1>1, <1>3, ChangesOf
<1>4. CASE kind \in {"undelegate", "redelegate"} BY <1>1, <1>4, ChangesOf
<1>5. CASE kind \in {"withdraw", "withdrawAll"} BY <1>1, <1>5, ChangesOf
<1>6. CASE kind \in {"vote", "deposit", "proposal"} BY <1>1, <1>6, ChangesOf
<1>7. CASE kind = "mint" BY <1>1, <1>7, ChangesOf
<1> QED BY <1>1, <1>2, <1>3, <1>4, <1>5, <1>6, <1>7 DEF Kinds

-----------------------------------------------------------------------------
(* What a step leaves as it was *)

(* The record k of a handler after a step of others was j before. *)
Alike(j, k) ==
  /\ k.pc = j.pc /\ k.dialog = j.dialog /\ k.mount = j.mount /\ k.wallet = j.wallet
  /\ k.first = j.first /\ k.second = j.second /\ k.number = j.number
  /\ k.stage = j.stage /\ k.result = j.result /\ k.told = j.told
  /\ k.lost = j.lost /\ k.refused = j.refused /\ k.answered = j.answered
  /\ j.overtaken => k.overtaken
  /\ j.moved => k.moved

(* What the lists show is still shown, as far as the transaction changes them. *)
SeenKept ==
  \A t \in Done : t.stage = 2 /\ t.payer \in Wallets =>
    \A l \in Lists \cap Changes(Messages(kind, t.payer \in Ledgers)) :
      t \in seen[t.payer][l] => t \in seen'[t.payer][l]

(* The chain goes on, for handler g: what has run has run, what is gone is gone. *)
ChainGoesOn(g) ==
  /\ Lives(g)' => Lives(g)
  /\ Done \subseteq Done'
  /\ \A t \in Done' : t.by = g /\ t.stage = 2 =>
       \/ t \in Done
       \/ ~\E u \in Done : u.by = g /\ u.stage = 2
  /\ job[g].pc \in {"signing", "sign", "before", "broadcast"} /\ ~job'[g].overtaken
       /\ Pooled(Account(g)) = {} =>
       Pooled(Account(g))' = {} /\ sequence'[Account(g)] = sequence[Account(g)]

(* A handler that does nothing in the step stays sound. *)
LEMMA OthersKept ==
  ASSUME NEW g \in Handlers, HandlerFits(g), Alike(job[g], job'[g]), SeenKept,
         ChainGoesOn(g), kind' = kind,
         session' = session \/ ~Running(g) \/ job'[g].moved
  PROVE  HandlerFits(g)'
<1>1. Flow(g)' = Flow(g) BY DEF Flow, Alike
<1>2. Account(g)' = Account(g) BY <1>1 DEF Account, Alike
<1>3. Tells(g)' = Tells(g) BY DEF Tells, Alike, Form, Dialog
<1>4. ResultFits(g)'
  <2>1. \A s : (\E t \in Done : t.by = g /\ t.stage = s) =>
                (\E t \in Done' : t.by = g /\ t.stage = s)
    BY DEF ChainGoesOn
  <2>2. Lives(g)' => Lives(g) BY DEF ChainGoesOn
  <2>3. ResultFits(g) BY DEF HandlerFits
  <2> HIDE DEF Done
  <2> QED BY <1>1, <1>3, <2>1, <2>2, <2>3 DEF ResultFits, Alike
<1>5. ReadingFits(g)'
  <2>1. ReadingFits(g) BY DEF HandlerFits
  <2> QED BY <1>1, <2>1 DEF ReadingFits, Reads, Running, Alike
<1>6. NumberFits(g)'
  <2>1. NumberFits(g) BY DEF HandlerFits
  <2>2. job[g].pc \in {"signing", "sign", "before", "broadcast"} /\ ~job'[g].overtaken
          /\ Pooled(Account(g)) = {} =>
          Pooled(Account(g))' = {} /\ sequence'[Account(g)] = sequence[Account(g)]
    BY DEF ChainGoesOn
  <2> QED BY <1>2, <2>1, <2>2 DEF NumberFits, Alike
<1>7. ListsFit(g)'
  <2>1. ListsFit(g) /\ ResultFits(g) BY DEF HandlerFits
  <2>2. (Refreshes <=> Refreshes') BY DEF Refreshes
  <2> SUFFICES ASSUME Refreshes
               PROVE  ListsFit(g)'
    BY <2>2 DEF ListsFit
  <2>3. (job[g].pc \notin {"show", "over"} => ~job[g].answered)' BY <2>1 DEF ListsFit, Alike
  <2>4. ASSUME (job[g].pc \in {"show", "over"} /\ job[g].result = "hash"
                /\ job[g].answered /\ ~job[g].moved)',
               NEW t \in Done', t.by = g, t.stage = 2, t.payer \in Wallets,
               NEW l \in Lists \cap FlowOf(kind).after
                           \cap Changes(Messages(kind, t.payer \in Ledgers))
        PROVE  t \in seen'[t.payer][l]
    <3>1. job[g].pc \in {"show", "over"} /\ job[g].result = "hash" /\ job[g].answered
          /\ ~job[g].moved
      BY <2>4 DEF Alike
    <3>2. job[g].stage = 2 BY <2>1, <3>1 DEF ResultFits
    <3>3. Flow(g).node # "evm" BY <3>2 DEF Flow, Refreshes
    <3>4. \E u \in Done : u.by = g /\ u.stage = 2 BY <2>1, <3>1, <3>2, <3>3 DEF ResultFits
    <3>5. t \in Done BY <2>4, <3>4 DEF ChainGoesOn
    <3>6. t \in seen[t.payer][l] BY <2>1, <2>4, <3>1, <3>5 DEF ListsFit
    <3> QED BY <2>4, <3>5, <3>6 DEF SeenKept
  <2> QED BY <2>3, <2>4 DEF ListsFit
<1> QED BY <1>4, <1>5, <1>6, <1>7 DEF HandlerFits

-----------------------------------------------------------------------------
(* A step of a handler that leaves the chain alone *)

(* The handler's record becomes n: it is not over yet, or just now. *)
GoesOn(h, n) ==
  /\ n \in JobSet /\ job' = [job EXCEPT ![h] = n]
  /\ Running(h) /\ n.pc # "idle"
  /\ n.dialog = job[h].dialog /\ n.mount = job[h].mount
  /\ n.wallet = job[h].wallet /\ n.moved = job[h].moved
  /\ \/ n.stage = job[h].stage /\ (job[h].pc \notin EarlySteps => n.pc \notin EarlySteps)
     \/ job[h].stage = 1 /\ n.stage = 2
  /\ UNCHANGED <<kind, session, page, mount, dialog, known, checking, chain, twice>>

(* What becomes of the screen: the button spins when the contact is saved and stops when
   the handler is over. *)
ScreenGoesOn(h, n) ==
  /\ busy' \in BOOLEAN /\ box' \in {"none", "success", "timeout", "error"}
  /\ \/ /\ n.pc # "over" /\ UNCHANGED <<view, box>>
        /\ n.pc \in {"find", "add"} => job[h].pc \in {"find", "add"}
        /\ busy' = busy \/ (busy' /\ Here(h))
        /\ job[h].pc \in {"find", "add"} /\ n.pc \notin {"find", "add"} /\ Here(h) => busy'
     \/ /\ n.pc = "over" /\ n.result = job[h].result /\ job[h].pc = "show"
        /\ IF Here(h) THEN view' = IF ClosesDialog(h) THEN "form" ELSE view
           ELSE UNCHANGED <<busy, view>>
  /\ \/ contacts' = contacts /\ (n.pc = "add" => contacts = 0)
     \/ contacts' = contacts + 1 /\ job[h].pc = "add" /\ n.pc # "add"

(* The records of the others are theirs. *)
LEMMA StepOfOne ==
  ASSUME TypeOK, NEW h \in Handlers, NEW n, GoesOn(h, n)
  PROVE  /\ job' \in [Handlers -> JobSet] /\ job'[h] = n
         /\ \A g \in Handlers \ {h} : job'[g] = job[g]
         /\ Clicked' = Clicked /\ h \in Clicked
         /\ pool' = pool /\ blocks' = blocks /\ sequence' = sequence /\ Done' = Done
         /\ \A g \in Handlers : Lives(g)' <=> Lives(g)
BY DEF TypeOK, GoesOn, Clicked, Running, Done, Lives, chain

(* The transactions sent are still sent once, and paid by the same. *)
LEMMA SentKept ==
  ASSUME TypeOK, SentOnce, Payers, NEW h \in Handlers, NEW n, GoesOn(h, n)
  PROVE  SentOnce' /\ Payers'
<1>1. /\ job'[h] = n /\ \A g \in Handlers \ {h} : job'[g] = job[g]
      /\ pool' = pool /\ blocks' = blocks
  BY StepOfOne
<1>2. SentTxs' = SentTxs /\ Included' = Included BY <1>1 DEF SentTxs, Included
<1>3. \A t \in SentTxs : t.by \in Handlers /\ t.stage \in 1..2
  BY DEF SentTxs, Included, TypeOK, TxSet
<1>4. ASSUME NEW t \in SentTxs
      PROVE  /\ job'[t.by].pc # "idle"
             /\ t.stage <= job'[t.by].stage
             /\ t.stage = job'[t.by].stage => job'[t.by].pc \notin EarlySteps
             /\ job'[t.by].wallet = job[t.by].wallet /\ job'[t.by].moved = job[t.by].moved
  <2>1. CASE t.by = h
    <3>1. /\ t.stage <= job[h].stage
          /\ t.stage = job[h].stage => job[h].pc \notin EarlySteps
      BY <2>1 DEF SentOnce
    <3> QED BY <1>1, <1>3, <2>1, <3>1 DEF GoesOn
  <2>2. CASE t.by # h BY <1>1, <1>3, <2>2 DEF SentOnce
  <2> QED BY <2>1, <2>2
<1>5. SentOnce' BY <1>1, <1>2, <1>4 DEF SentOnce
<1>6. Payers' BY <1>2, <1>4 DEF Payers
<1> QED BY <1>5, <1>6

(* The page still has one confirmation, the clicks on it, and one handler at a time. *)
LEMMA ScreenKept ==
  ASSUME TypeOK, ScreenFits, OneAtATime, ClickedAgain, NEW h \in Handlers, NEW n,
         GoesOn(h, n), ScreenGoesOn(h, n), job[h].lost => n.lost,
         n.pc = "over" => n.result \in {"hash", "timeout", "error"}
  PROVE  ScreenFits' /\ OneAtATime' /\ ClickedAgain'
<1>1. /\ job'[h] = n /\ \A g \in Handlers \ {h} : job'[g] = job[g]
      /\ Clicked' = Clicked /\ h \in Clicked /\ \A g \in Handlers : Lives(g)' <=> Lives(g)
  BY StepOfOne
<1>2. /\ n.dialog = job[h].dialog /\ n.mount = job[h].mount /\ Running(h) /\ n.pc # "idle"
      /\ UNCHANGED <<session, page, mount, dialog, twice>>
  BY DEF GoesOn
<1>3. \A g \in Handlers : Here(g)' <=> Here(g) BY <1>1, <1>2 DEF Here
<1>4. ScreenFits'
  <2>1. Clicked' = 1..Cardinality(Clicked') /\ mount' <= Cardinality(Clicked')
        /\ dialog' <= Cardinality(Clicked')
        /\ (page = NoWallet => view = "form")' /\ (page # NoWallet => page = session)'
    <3>1. view' = view \/ view' = "form" BY DEF ScreenGoesOn
    <3> QED BY <1>1, <1>2, <3>1 DEF ScreenFits
  <2>2. \A g \in Clicked : job'[g].mount < g /\ job'[g].dialog < g
    BY <1>1, <1>2 DEF ScreenFits, Clicked
  <2>3. ASSUME view' = "confirm", NEW g \in Clicked, job'[g].dialog = dialog'
        PROVE  /\ job'[g].mount = mount'
               /\ job'[g].pc = "over" => job'[g].result \in {"error", "timeout"}
    <3>1. view = "confirm" BY <2>3 DEF ScreenGoesOn
    <3>2. g \in Handlers /\ job[g].dialog = dialog /\ job[g].mount = mount /\ page # NoWallet
          /\ (job[g].pc = "over" => job[g].result \in {"error", "timeout"})
      BY <1>1, <1>2, <2>3, <3>1 DEF ScreenFits, Clicked
    <3>3. ASSUME g = h, n.pc = "over" PROVE n.result \in {"error", "timeout"}
      <4>1. Here(h) BY <3>2, <3>3 DEF Here
      <4>2. ~ClosesDialog(h) /\ n.result = job[h].result
        BY <2>3, <3>3, <4>1 DEF ScreenGoesOn
      <4> QED BY <3>3, <4>2 DEF ClosesDialog
    <3> QED BY <1>1, <1>2, <3>2, <3>3
  <2> QED BY <1>1, <2>1, <2>2, <2>3 DEF ScreenFits
<1>5. CASE twice BY <1>2, <1>4, <1>5 DEF OneAtATime, ClickedAgain
<1>6. CASE ~twice
  <2>1. /\ \A f, g \in Handlers : f # g =>
             /\ ~(Running(f) /\ Here(f) /\ Running(g) /\ Here(g))
             /\ ~(job[f].pc \in {"find", "add"} /\ job[g].pc \in {"find", "add"})
        /\ \A g \in Handlers : Running(g) /\ Here(g) => busy \/ job[g].pc \in {"find", "add"}
        /\ contacts <= 1
        /\ \A g \in Handlers : job[g].pc = "add" => contacts = 0
    BY <1>6 DEF OneAtATime
  <2>2. /\ \A g \in Handlers : Running(g)' => Running(g)
        /\ \A g \in Handlers : job'[g].pc \in {"find", "add"} => job[g].pc \in {"find", "add"}
        /\ \A g \in Handlers \ {h} : (Running(g)' <=> Running(g))
    <3>1. Running(h) /\ (n.pc \in {"find", "add"} => job[h].pc \in {"find", "add"})
      BY DEF GoesOn, ScreenGoesOn
    <3> QED BY <1>1, <3>1 DEF Running
  <2>3. \A f, g \in Handlers : f # g =>
             /\ ~(Running(f)' /\ Here(f)' /\ Running(g)' /\ Here(g)')
             /\ ~(job'[f].pc \in {"find", "add"} /\ job'[g].pc \in {"find", "add"})
    BY <1>3, <2>1, <2>2
  <2>4. ASSUME NEW g \in Handlers, Running(g)', Here(g)'
        PROVE  busy' \/ job'[g].pc \in {"find", "add"}
    <3>1. Here(g) /\ Running(g) BY <1>3, <2>2, <2>4
    <3>2. CASE g = h
      <4>1. n.pc # "over" BY <1>1, <2>4, <3>2 DEF Running
      <4>2. busy \/ job[h].pc \in {"find", "add"} BY <2>1, <3>1, <3>2
      <4> QED BY <1>1, <3>1, <3>2, <4>1, <4>2 DEF ScreenGoesOn
    <3>3. CASE g # h
      <4>1. ~Here(h) BY <1>2, <2>1, <3>1, <3>3
      <4>2. busy' = busy BY <4>1 DEF ScreenGoesOn, TypeOK
      <4> QED BY <1>1, <2>1, <3>1, <3>3, <4>2
    <3> QED BY <3>2, <3>3
  <2>5. contacts' <= 1 /\ \A g \in Handlers : job'[g].pc = "add" => contacts' = 0
    <3>1. CASE contacts' = contacts /\ (n.pc = "add" => contacts = 0) BY <1>1, <2>1, <3>1
    <3>2. CASE contacts' = contacts + 1 /\ job[h].pc = "add" /\ n.pc # "add"
      <4>1. contacts = 0 BY <2>1, <3>2
      <4>2. \A g \in Handlers \ {h} : job'[g].pc # "add" BY <1>1, <2>1, <3>2
      <4> QED BY <1>1, <3>2, <4>1, <4>2
    <3> QED BY <3>1, <3>2 DEF ScreenGoesOn
  <2>6. OneAtATime' BY <2>3, <2>4, <2>5 DEF OneAtATime
  <2>7. ClickedAgain'
    <3>1. \A f, g \in Clicked : f < g /\ job[f].dialog = job[g].dialog =>
            job[f].pc = "over" /\ (job[f].lost \/ ~Lives(f))
      BY <1>6 DEF ClickedAgain
    <3>2. \A g \in Clicked : /\ g \in Handlers /\ job'[g].dialog = job[g].dialog
                             /\ job[g].pc = "over" => job'[g] = job[g]
      BY <1>1, <1>2 DEF Clicked, Running
    <3> QED BY <1>1, <3>1, <3>2 DEF ClickedAgain
  <2> QED BY <1>4, <2>6, <2>7
<1> QED BY <1>5, <1>6

(* A handler's step that leaves the chain alone and the handler sound keeps all the rest. *)
LEMMA OneGoesOn ==
  ASSUME Inv, NEW h \in Handlers, NEW n, GoesOn(h, n), ScreenGoesOn(h, n),
         job[h].lost => n.lost, HandlerFits(h)', SeenKept,
         seen' \in [Wallets -> [Lists -> SUBSET TxSet]]
  PROVE  Inv'
<1>1. /\ job' \in [Handlers -> JobSet] /\ job'[h] = n
      /\ \A g \in Handlers \ {h} : job'[g] = job[g]
      /\ pool' = pool /\ blocks' = blocks /\ sequence' = sequence /\ Done' = Done
      /\ \A g \in Handlers : Lives(g)' <=> Lives(g)
  BY StepOfOne DEF Inv
<1>2. TypeOK'
  <2>1. view' \in {"form", "password", "confirm"} /\ contacts' \in Nat
    BY DEF ScreenGoesOn, Inv, TypeOK
  <2>2. UNCHANGED <<kind, session, page, mount, dialog, known, checking, chain, twice>>
    BY DEF GoesOn
  <2>3. busy' \in BOOLEAN /\ box' \in {"none", "success", "timeout", "error"}
    BY DEF ScreenGoesOn
  <2> QED BY <1>1, <2>1, <2>2, <2>3 DEF Inv, TypeOK, chain
<1>3. SentOnce' /\ Payers' BY SentKept DEF Inv
<1>4. ScreenFits' /\ OneAtATime' /\ ClickedAgain'
  <2>1. n.pc = "over" => n.result \in {"hash", "timeout", "error"}
    BY <1>1 DEF HandlerFits, ResultFits
  <2> QED BY <2>1, ScreenKept DEF Inv
<1>5. ASSUME NEW g \in Handlers \ {h} PROVE HandlerFits(g)'
  <2>1. Alike(job[g], job'[g]) BY <1>1 DEF Alike
  <2>2. kind' = kind /\ session' = session BY DEF GoesOn
  <2>3. Pooled(Account(g))' = Pooled(Account(g))
    BY <1>1, <2>2 DEF Pooled, Account, Flow
  <2>4. ChainGoesOn(g) BY <1>1, <2>3 DEF ChainGoesOn
  <2>5. HandlerFits(g) BY DEF Inv
  <2> QED BY <2>1, <2>2, <2>4, <2>5, OthersKept
<1>6. \A g \in Handlers : HandlerFits(g)' BY <1>5
<1> QED BY <1>2, <1>3, <1>4, <1>6 DEF Inv

-----------------------------------------------------------------------------
(* A handler on its way to the node *)

(* A step before anything is sent. *)
LEMMA EarlyGoesOn ==
  ASSUME Inv, NEW h \in Handlers, NEW n, GoesOn(h, n), ScreenGoesOn(h, n),
         n.stage = job[h].stage, job[h].pc \in EarlySteps, n.pc \in EarlySteps,
         n.result = job[h].result, n.told = job[h].told, n.lost = job[h].lost,
         n.answered = job[h].answered, seen' = seen, ReadingFits(h)', NumberFits(h)'
  PROVE  Inv'
<1>1. /\ job'[h] = n /\ Done' = Done /\ kind' = kind /\ (Lives(h)' <=> Lives(h))
  BY StepOfOne DEF Inv, GoesOn
<1>2. Flow(h)' = Flow(h) BY <1>1 DEF Flow
<1>3. ResultFits(h) /\ ListsFit(h) BY DEF Inv, HandlerFits
<1>4. ResultFits(h)' BY <1>1, <1>2, <1>3 DEF ResultFits, EarlySteps
<1>5. ListsFit(h)' BY <1>1, <1>3 DEF ListsFit, Refreshes, EarlySteps
<1>6. HandlerFits(h)' BY <1>4, <1>5 DEF HandlerFits
<1>7. SeenKept BY DEF SeenKept
<1>8. seen' \in [Wallets -> [Lists -> SUBSET TxSet]] BY DEF Inv, TypeOK
<1> QED BY <1>6, <1>7, <1>8, OneGoesOn

(* The record of a handler has its type. *)
LEMMA JobTyped ==
  ASSUME Inv, NEW h \in Handlers PROVE job[h] \in JobSet
BY DEF Inv, TypeOK

(* autoAddAddressBookContact: the contact is looked for ... *)
LEMMA FindContactKeeps ==
  ASSUME Inv, NEW h \in Handlers, FindContact(h) PROVE Inv'
<1> DEFINE next == IF contacts > 0 THEN "first" ELSE "add"
           n == [job[h] EXCEPT !.pc = next]
<1>1. job[h] \in JobSet BY JobTyped
<1>2. /\ n \in JobSet /\ n.pc = next /\ n.dialog = job[h].dialog /\ n.mount = job[h].mount
      /\ n.wallet = job[h].wallet /\ n.moved = job[h].moved /\ n.stage = job[h].stage
      /\ n.result = job[h].result /\ n.told = job[h].told /\ n.lost = job[h].lost
      /\ n.answered = job[h].answered /\ n.refused = job[h].refused
      /\ n.overtaken = job[h].overtaken
  BY <1>1 DEF JobSet, Steps
<1>3. job' = [job EXCEPT ![h] = n] BY DEF FindContact, To
<1> HIDE DEF n
<1>4. job[h].pc = "find" BY DEF FindContact
<1>5. GoesOn(h, n) BY <1>2, <1>3, <1>4 DEF GoesOn, FindContact, Running, EarlySteps, screen
<1>6. ScreenGoesOn(h, n)
  <2>1. busy' \in BOOLEAN /\ (busy' = busy \/ (busy' /\ Here(h)))
        /\ (n.pc = "first" /\ Here(h) => busy')
    BY <1>2 DEF FindContact, Spin, Inv, TypeOK
  <2>2. contacts' = contacts /\ (n.pc = "add" => contacts = 0)
    BY <1>2 DEF FindContact, Inv, TypeOK
  <2> QED BY <1>2, <1>4, <2>1, <2>2 DEF ScreenGoesOn, FindContact, screen, Inv, TypeOK
<1>7. job'[h] = n /\ session' = session BY <1>3 DEF Inv, TypeOK, FindContact
<1>8. ReadingFits(h) /\ NumberFits(h) BY DEF Inv, HandlerFits
<1>9. ReadingFits(h)' BY <1>2, <1>4, <1>7, <1>8 DEF ReadingFits, Running, Readings
<1>10. NumberFits(h)' BY <1>2, <1>7, <1>8 DEF NumberFits
<1> QED BY <1>2, <1>4, <1>5, <1>6, <1>9, <1>10, EarlyGoesOn DEF EarlySteps, FindContact

(* ... and saved. *)
LEMMA AddContactKeeps ==
  ASSUME Inv, NEW h \in Handlers, AddContact(h) PROVE Inv'
<1> DEFINE n == [job[h] EXCEPT !.pc = "first"]
<1>1. job[h] \in JobSet BY JobTyped
<1>2. /\ n \in JobSet /\ n.pc = "first" /\ n.dialog = job[h].dialog
      /\ n.mount = job[h].mount
      /\ n.wallet = job[h].wallet /\ n.moved = job[h].moved /\ n.stage = job[h].stage
      /\ n.result = job[h].result /\ n.told = job[h].told /\ n.lost = job[h].lost
      /\ n.answered = job[h].answered /\ n.refused = job[h].refused
      /\ n.overtaken = job[h].overtaken
  BY <1>1 DEF JobSet, Steps
<1>3. job' = [job EXCEPT ![h] = n] BY DEF AddContact, To
<1> HIDE DEF n
<1>4. job[h].pc = "add" BY DEF AddContact
<1>5. GoesOn(h, n) BY <1>2, <1>3, <1>4 DEF GoesOn, AddContact, Running, EarlySteps, screen
<1>6. ScreenGoesOn(h, n)
  <2>1. busy' \in BOOLEAN /\ (busy' = busy \/ (busy' /\ Here(h))) /\ (Here(h) => busy')
    BY DEF AddContact, Spin, Inv, TypeOK
  <2> QED BY <1>2, <1>4, <2>1 DEF ScreenGoesOn, AddContact, screen, Inv, TypeOK
<1>7. job'[h] = n /\ session' = session BY <1>3 DEF Inv, TypeOK, AddContact
<1>8. ReadingFits(h) /\ NumberFits(h) BY DEF Inv, HandlerFits
<1>9. ReadingFits(h)' BY <1>2, <1>4, <1>7, <1>8 DEF ReadingFits, Running, Readings
<1>10. NumberFits(h)' BY <1>2, <1>7, <1>8 DEF NumberFits
<1> QED BY <1>2, <1>4, <1>5, <1>6, <1>9, <1>10, EarlyGoesOn DEF EarlySteps, AddContact

(* Nothing happens on the screen. *)
LEMMA ScreenStays ==
  ASSUME Inv, NEW h \in Handlers, NEW n, UNCHANGED <<screen, busy, contacts>>,
         job[h].pc \notin {"find", "add"}, n.pc \notin {"find", "add", "over"}
  PROVE  ScreenGoesOn(h, n)
BY DEF ScreenGoesOn, Inv, TypeOK, screen

(* The sending function of a handler. *)
LEMMA FlowOfHandler ==
  ASSUME Inv, NEW h \in Handlers
  PROVE  /\ Flow(h).node \in {"evm", "tendermint"}
         /\ Flow(h).node = "evm" => Flow(h).first /\ Flow(h).index \in {"first", "signing"}
         /\ Flow(h).node # "evm" => Flow(h).index = "second"
         /\ Flow(h).before # {} => kind = "nft"
         /\ Flow(h).first \in BOOLEAN
         /\ Flow(h).from \in {"first", "second", "page", "key"}
<1> DEFINE k == IF job[h].stage = 1 THEN "issue" ELSE kind
<1>1. k \in Kinds \cup {"issue"} BY DEF Inv, TypeOK
<1>2. Flow(h) = FlowOf(k) BY DEF Flow
<1> HIDE DEF k
<1>3. FlowOf(k).before # {} => k = "nft" BY <1>1, FlowFacts
<1>4. k = "nft" => kind = "nft" BY DEF k
<1> QED BY <1>1, <1>2, <1>3, <1>4, FlowFacts

(* The sending function reads the session. *)
LEMMA ReadSessionKeeps ==
  ASSUME Inv, NEW h \in Handlers, ReadSession(h) PROVE Inv'
<1> DEFINE own == IF Flow(h).first THEN session ELSE NoWallet
           next == IF Flow(h).node = "evm" THEN "account" ELSE "second"
           n == [job[h] EXCEPT !.first = own, !.pc = next]
<1>1. job[h] \in JobSet BY JobTyped
<1>2. /\ own \in Wallets \cup {NoWallet} /\ next \in {"account", "second"}
      /\ n \in JobSet /\ n.pc = next /\ n.first = own /\ n.dialog = job[h].dialog
      /\ n.mount = job[h].mount /\ n.wallet = job[h].wallet /\ n.moved = job[h].moved
      /\ n.stage = job[h].stage /\ n.result = job[h].result /\ n.told = job[h].told
      /\ n.lost = job[h].lost /\ n.answered = job[h].answered
      /\ n.refused = job[h].refused /\ n.overtaken = job[h].overtaken
  BY <1>1 DEF JobSet, Steps, Inv, TypeOK
<1>3. job' = [job EXCEPT ![h] = n]
  BY DEF ReadSession, Inv, TypeOK, JobSet
<1>4. job[h].pc = "first" BY DEF ReadSession
<1> HIDE DEF n
<1>5. GoesOn(h, n) BY <1>2, <1>3, <1>4 DEF GoesOn, ReadSession, Running, EarlySteps, screen
<1>6. ScreenGoesOn(h, n) BY <1>2, <1>4, ScreenStays DEF ReadSession
<1>7. job'[h] = n /\ session' = session /\ kind' = kind
  BY <1>3 DEF Inv, TypeOK, ReadSession
<1>8. ReadingFits(h) /\ NumberFits(h) BY DEF Inv, HandlerFits
<1>9. Flow(h)' = Flow(h) BY <1>2, <1>7 DEF Flow
<1>10. session \in Wallets /\ (job[h].moved \/ session = job[h].wallet)
       /\ job[h].wallet \in Wallets
  BY <1>4, <1>8 DEF Inv, TypeOK, ReadingFits, Running
<1>11. ReadingFits(h)'
  BY <1>2, <1>7, <1>9, <1>10, FlowOfHandler DEF ReadingFits, Running, Readings, Reads
<1>12. NumberFits(h)' BY <1>2, <1>7, <1>8 DEF NumberFits
<1> QED BY <1>2, <1>4, <1>5, <1>6, <1>11, <1>12, EarlyGoesOn DEF EarlySteps, ReadSession

(* prepareTransaction reads it as well. *)
LEMMA PrepareTransactionKeeps ==
  ASSUME Inv, NEW h \in Handlers, PrepareTransaction(h) PROVE Inv'
<1> DEFINE own == IF Flow(h).first THEN job[h].first ELSE session
           n == [job[h] EXCEPT !.second = session, !.first = own, !.pc = "account"]
<1>1. job[h] \in JobSet BY JobTyped
<1>2. /\ own \in Wallets \cup {NoWallet}
      /\ n \in JobSet /\ n.pc = "account" /\ n.first = own /\ n.second = session
      /\ n.dialog = job[h].dialog
      /\ n.mount = job[h].mount /\ n.wallet = job[h].wallet /\ n.moved = job[h].moved
      /\ n.stage = job[h].stage /\ n.result = job[h].result /\ n.told = job[h].told
      /\ n.lost = job[h].lost /\ n.answered = job[h].answered
      /\ n.refused = job[h].refused /\ n.overtaken = job[h].overtaken
  BY <1>1 DEF JobSet, Steps, Inv, TypeOK
<1>3. job' = [job EXCEPT ![h] = n]
  BY DEF PrepareTransaction, Inv, TypeOK, JobSet
<1>4. job[h].pc = "second" BY DEF PrepareTransaction
<1> HIDE DEF n
<1>5. GoesOn(h, n)
  BY <1>2, <1>3, <1>4 DEF GoesOn, PrepareTransaction, Running, EarlySteps, screen
<1>6. ScreenGoesOn(h, n) BY <1>2, <1>4, ScreenStays DEF PrepareTransaction
<1>7. job'[h] = n /\ session' = session /\ kind' = kind
  BY <1>3 DEF Inv, TypeOK, PrepareTransaction
<1>8. ReadingFits(h) /\ NumberFits(h) BY DEF Inv, HandlerFits
<1>9. Flow(h)' = Flow(h) BY <1>2, <1>7 DEF Flow
<1>10. session \in Wallets /\ (job[h].moved \/ session = job[h].wallet)
       /\ job[h].wallet \in Wallets /\ (Flow(h).first => Reads(h, job[h].first))
  BY <1>4, <1>8 DEF Inv, TypeOK, ReadingFits, Running
<1>11. own \in Wallets /\ (job[h].moved \/ own = job[h].wallet) BY <1>10 DEF Reads
<1>12. ReadingFits(h)'
  BY <1>2, <1>7, <1>9, <1>10, <1>11, FlowOfHandler DEF ReadingFits, Running, Readings, Reads
<1>13. NumberFits(h)' BY <1>2, <1>7, <1>8 DEF NumberFits
<1> QED BY <1>2, <1>4, <1>5, <1>6, <1>12, <1>13, EarlyGoesOn DEF EarlySteps, PrepareTransaction

(* The account of a transaction that is prepared is known to the chain. *)
LEMMA AccountKnown ==
  ASSUME Inv, NEW h \in Handlers, job[h].pc \in Readings
  PROVE  /\ Account(h) \in Wallets /\ (job[h].moved \/ Account(h) = job[h].wallet)
         /\ job[h].first \in Wallets /\ (job[h].moved \/ job[h].first = job[h].wallet)
         /\ sequence[Account(h)] \in Nat
<1>1. ReadingFits(h) BY DEF Inv, HandlerFits
<1>2. job[h].wallet \in Wallets BY <1>1 DEF ReadingFits, Running, Readings
<1>3. Flow(h).node # "evm" => Reads(h, job[h].second) BY <1>1 DEF ReadingFits
<1>4. Account(h) \in Wallets /\ (job[h].moved \/ Account(h) = job[h].wallet)
  BY <1>2, <1>3 DEF Account, Reads
<1>5. Reads(h, job[h].first) BY <1>1 DEF ReadingFits
<1> QED BY <1>4, <1>5 DEF Reads, Inv, TypeOK, Accounts

(* The node is asked for the number of the next transaction of the account. *)
LEMMA ReadAccountKeeps ==
  ASSUME Inv, NEW h \in Handlers, ReadAccount(h) PROVE Inv'
<1> DEFINE waiting == IF Flow(h).node = "evm" THEN Cardinality(Pooled(Account(h))) ELSE 0
           number == sequence[Account(h)] + waiting
           late == job[h].overtaken \/ Pooled(Account(h)) # {}
           next == IF Flow(h).index = "signing" THEN "signing" ELSE "sign"
           n == [job[h] EXCEPT !.number = number, !.overtaken = late, !.pc = next]
<1>1. job[h] \in JobSet BY JobTyped
<1>2. job[h].pc = "account" BY DEF ReadAccount
<1>3. sequence[Account(h)] \in Nat BY <1>2, AccountKnown DEF Readings
<1>4. waiting \in Nat
  <2>1. IsFiniteSet(pool) /\ Pooled(Account(h)) \subseteq pool BY DEF Inv, SentOnce, Pooled
  <2>2. IsFiniteSet(Pooled(Account(h))) BY <2>1, FS_Subset
  <2> QED BY <2>2, FS_CardinalityType
<1>5. Pooled(Account(h)) = {} => number = sequence[Account(h)] BY <1>3, FS_EmptySet
<1>6. number \in Nat BY <1>3, <1>4
<1>7. next \in {"signing", "sign"} /\ late \in BOOLEAN BY <1>1 DEF JobSet
<1>0. n = [job[h] EXCEPT !.number = number, !.overtaken = late, !.pc = next] OBVIOUS
<1> HIDE DEF number, waiting, late, next, n
<1>8. /\ n \in JobSet /\ n.pc = next /\ n.number = number /\ (n.overtaken <=> late)
      /\ n.dialog = job[h].dialog
      /\ n.mount = job[h].mount /\ n.wallet = job[h].wallet /\ n.moved = job[h].moved
      /\ n.first = job[h].first /\ n.second = job[h].second
      /\ n.stage = job[h].stage /\ n.result = job[h].result /\ n.told = job[h].told
      /\ n.lost = job[h].lost /\ n.answered = job[h].answered
      /\ n.refused = job[h].refused
  <2>1. PICK num \in Nat : num = number BY <1>6
  <2>2. PICK pc \in {"signing", "sign"} : pc = next BY <1>7
  <2>3. PICK ot \in BOOLEAN : ot = late BY <1>7
  <2>4. n = [job[h] EXCEPT !.number = num, !.overtaken = ot, !.pc = pc]
    BY <1>0, <2>1, <2>2, <2>3
  <2> QED BY <1>1, <2>1, <2>2, <2>3, <2>4 DEF JobSet, Steps
<1>9. job' = [job EXCEPT ![h] = n]
  BY DEF ReadAccount, Inv, TypeOK, JobSet, number, waiting, late, next, n
<1>10. GoesOn(h, n)
  BY <1>2, <1>7, <1>8, <1>9 DEF GoesOn, ReadAccount, Running, EarlySteps, screen
<1>11. ScreenGoesOn(h, n) BY <1>2, <1>7, <1>8, ScreenStays DEF ReadAccount
<1>12. job'[h] = n /\ session' = session /\ kind' = kind /\ pool' = pool
       /\ sequence' = sequence
  BY <1>9 DEF Inv, TypeOK, ReadAccount, chain
<1>13. ReadingFits(h) /\ NumberFits(h) BY DEF Inv, HandlerFits
<1>14. Flow(h)' = Flow(h) BY <1>8, <1>12 DEF Flow
<1>15. ReadingFits(h)'
  BY <1>2, <1>8, <1>12, <1>13, <1>14 DEF ReadingFits, Running, Readings, Reads, next
<1>16. NumberFits(h)'
  <2>1. Account(h)' = Account(h) BY <1>8, <1>12, <1>14 DEF Account
  <2>2. Pooled(Account(h))' = Pooled(Account(h)) BY <1>12, <2>1 DEF Pooled
  <2>3. /\ late \/ (Pooled(Account(h)) = {} /\ number = sequence[Account(h)])
        /\ job[h].overtaken => late
    BY <1>5 DEF late
  <2> QED BY <1>8, <1>12, <1>13, <2>1, <2>2, <2>3 DEF NumberFits
<1> QED BY <1>2, <1>7, <1>8, <1>10, <1>11, <1>15, <1>16, EarlyGoesOn DEF EarlySteps, ReadAccount

(* What only a handler that runs is told, and what every one that runs still has. *)
LEMMA Untold ==
  ASSUME Inv, NEW h \in Handlers
  PROVE  /\ ResultFits(h) /\ ReadingFits(h) /\ NumberFits(h) /\ ListsFit(h)
         /\ Running(h) => job[h].told = "none"
BY DEF Inv, HandlerFits, ResultFits, Running

(* The signer of a contract call reads the session once more. *)
LEMMA ReadSignerKeeps ==
  ASSUME Inv, NEW h \in Handlers, ReadSigner(h) PROVE Inv'
<1> DEFINE n == [job[h] EXCEPT !.second = session, !.pc = "sign"]
<1>1. job[h] \in JobSet BY JobTyped
<1>2. /\ n \in JobSet /\ n.pc = "sign" /\ n.first = job[h].first /\ n.second = session
      /\ n.dialog = job[h].dialog /\ n.number = job[h].number
      /\ n.mount = job[h].mount /\ n.wallet = job[h].wallet /\ n.moved = job[h].moved
      /\ n.stage = job[h].stage /\ n.result = job[h].result /\ n.told = job[h].told
      /\ n.lost = job[h].lost /\ n.answered = job[h].answered
      /\ n.refused = job[h].refused /\ n.overtaken = job[h].overtaken
  BY <1>1 DEF JobSet, Steps, Inv, TypeOK
<1>3. job' = [job EXCEPT ![h] = n] BY DEF ReadSigner, Inv, TypeOK, JobSet
<1>4. job[h].pc = "signing" BY DEF ReadSigner
<1> HIDE DEF n
<1>5. GoesOn(h, n) BY <1>2, <1>3, <1>4 DEF GoesOn, ReadSigner, Running, EarlySteps, screen
<1>6. ScreenGoesOn(h, n) BY <1>2, <1>4, ScreenStays DEF ReadSigner
<1>7. job'[h] = n /\ session' = session /\ kind' = kind /\ pool' = pool
      /\ sequence' = sequence
  BY <1>3 DEF Inv, TypeOK, ReadSigner, chain
<1>8. ReadingFits(h) /\ NumberFits(h) BY Untold
<1>9. Flow(h)' = Flow(h) BY <1>2, <1>7 DEF Flow
<1>10. Flow(h).node = "evm" BY <1>4, <1>8, FlowOfHandler DEF ReadingFits
<1>11. session \in Wallets /\ (job[h].moved \/ session = job[h].wallet)
  BY <1>4, <1>8 DEF Inv, TypeOK, ReadingFits, Running
<1>12. ReadingFits(h)'
  BY <1>2, <1>4, <1>7, <1>8, <1>9, <1>10, <1>11 DEF ReadingFits, Running, Readings, Reads
<1>13. NumberFits(h)'
  <2>1. Account(h)' = Account(h) BY <1>2, <1>7, <1>9, <1>10 DEF Account
  <2>2. Pooled(Account(h))' = Pooled(Account(h)) BY <1>7, <2>1 DEF Pooled
  <2> QED BY <1>2, <1>4, <1>7, <1>8, <2>1, <2>2 DEF NumberFits
<1> QED BY <1>2, <1>4, <1>5, <1>6, <1>12, <1>13, EarlyGoesOn DEF EarlySteps, ReadSigner

(* The transaction is signed ... *)
LEMMA SignKeeps ==
  ASSUME Inv, NEW h \in Handlers, Sign(h) PROVE Inv'
<1> DEFINE next == IF Flow(h).before # {} THEN "before" ELSE "broadcast"
           n == [job[h] EXCEPT !.pc = next]
<1>1. job[h] \in JobSet BY JobTyped
<1>2. /\ n \in JobSet /\ n.pc = next /\ n.first = job[h].first
      /\ n.second = job[h].second
      /\ n.dialog = job[h].dialog /\ n.number = job[h].number
      /\ n.mount = job[h].mount /\ n.wallet = job[h].wallet /\ n.moved = job[h].moved
      /\ n.stage = job[h].stage /\ n.result = job[h].result /\ n.told = job[h].told
      /\ n.lost = job[h].lost /\ n.answered = job[h].answered
      /\ n.refused = job[h].refused /\ n.overtaken = job[h].overtaken
  BY <1>1 DEF JobSet, Steps
<1>3. job' = [job EXCEPT ![h] = n] BY DEF Sign, To
<1>4. job[h].pc = "sign" BY DEF Sign
<1>5. next \in {"before", "broadcast"} /\ (next = "before" => Flow(h).before # {}) OBVIOUS
<1> HIDE DEF n, next
<1>6. GoesOn(h, n) BY <1>2, <1>3, <1>4, <1>5 DEF GoesOn, Sign, Running, EarlySteps, screen
<1>7. ScreenGoesOn(h, n) BY <1>2, <1>4, <1>5, ScreenStays DEF Sign
<1>8. job'[h] = n /\ session' = session /\ kind' = kind /\ pool' = pool
      /\ sequence' = sequence
  BY <1>3 DEF Inv, TypeOK, Sign, chain
<1>9. ReadingFits(h) /\ NumberFits(h) BY Untold
<1>10. Flow(h)' = Flow(h) BY <1>2, <1>8 DEF Flow
<1>11. ReadingFits(h)'
  BY <1>2, <1>4, <1>5, <1>8, <1>9, <1>10 DEF ReadingFits, Running, Readings, Reads
<1>12. NumberFits(h)'
  <2>1. Account(h)' = Account(h) BY <1>2, <1>8, <1>10 DEF Account
  <2>2. Pooled(Account(h))' = Pooled(Account(h)) BY <1>8, <2>1 DEF Pooled
  <2> QED BY <1>2, <1>4, <1>5, <1>8, <1>9, <2>1, <2>2 DEF NumberFits
<1> QED BY <1>2, <1>4, <1>5, <1>6, <1>7, <1>11, <1>12, EarlyGoesOn DEF EarlySteps, Sign

(* Nothing of the stage has been sent yet. *)
LEMMA NothingSent ==
  ASSUME Inv, NEW h \in Handlers, job[h].pc \in EarlySteps
  PROVE  /\ \A t \in SentTxs : ~(t.by = h /\ t.stage = job[h].stage)
         /\ ~Lives(h)
<1>1. \A t \in SentTxs : ~(t.by = h /\ t.stage = job[h].stage) BY DEF Inv, SentOnce
<1>2. ASSUME NEW t \in SentTxs, t.by = h, t.stage = 2 PROVE FALSE
  <2>1. job[h].stage \in 1..2 BY JobTyped DEF JobSet
  <2>2. 2 <= job[h].stage BY <1>2 DEF Inv, SentOnce
  <2> QED BY <1>1, <1>2, <2>1, <2>2
<1>3. Done \subseteq SentTxs /\ pool \subseteq SentTxs BY DEF Done, SentTxs, Included
<1> QED BY <1>1, <1>2, <1>3 DEF Lives

(* A handler that gives up goes on to show an error, of a transaction that does not count or
   that has been lost sight of. *)
LEMMA FailsGoesOn ==
  ASSUME Inv, NEW h \in Handlers, NEW n, GoesOn(h, n), n.pc = "show",
         n.result = "error", n.stage = job[h].stage, n.told = job[h].told,
         n.answered = job[h].answered, n.lost \/ ~Lives(h), job[h].lost => n.lost,
         n.refused => n.moved \/ n.overtaken, job[h].pc \notin {"find", "add"},
         seen' = seen, UNCHANGED <<session, screen, busy, contacts>>
  PROVE  Inv'
<1>1. /\ job'[h] = n /\ Done' = Done /\ kind' = kind /\ (Lives(h)' <=> Lives(h))
      /\ Running(h)
  BY StepOfOne DEF Inv, GoesOn
<1>2. Flow(h)' = Flow(h) BY <1>1 DEF Flow
<1>3. ResultFits(h) /\ ReadingFits(h) /\ job[h].told = "none" BY <1>1, Untold
<1>4. ResultFits(h)' BY <1>1, <1>2, <1>3 DEF ResultFits, EarlySteps
<1>5. ReadingFits(h)' BY <1>1, <1>3 DEF ReadingFits, GoesOn, Readings, Running
<1>6. NumberFits(h)' BY <1>1 DEF NumberFits
<1>7. ListsFit(h)' BY <1>1 DEF ListsFit
<1>8. HandlerFits(h)' BY <1>4, <1>5, <1>6, <1>7 DEF HandlerFits
<1>9. SeenKept /\ seen' \in [Wallets -> [Lists -> SUBSET TxSet]]
  BY DEF SeenKept, Inv, TypeOK
<1>10. ScreenGoesOn(h, n) BY ScreenStays
<1> QED BY <1>8, <1>9, <1>10, OneGoesOn

(* ... or not. *)
LEMMA SignFailsKeeps ==
  ASSUME Inv, NEW h \in Handlers, SignFails(h) PROVE Inv'
<1> DEFINE n == [job[h] EXCEPT !.result = "error", !.pc = "show"]
<1>1. job[h] \in JobSet BY JobTyped
<1>2. /\ n \in JobSet /\ n.pc = "show" /\ n.result = "error"
      /\ n.dialog = job[h].dialog
      /\ n.mount = job[h].mount /\ n.wallet = job[h].wallet /\ n.moved = job[h].moved
      /\ n.stage = job[h].stage /\ n.told = job[h].told
      /\ n.lost = job[h].lost /\ n.answered = job[h].answered
      /\ n.refused = job[h].refused /\ n.overtaken = job[h].overtaken
  BY <1>1 DEF JobSet, Steps
<1>3. job' = [job EXCEPT ![h] = n] BY DEF SignFails, Fails, Inv, TypeOK, JobSet
<1>4. job[h].pc = "sign" BY DEF SignFails
<1> HIDE DEF n
<1>5. GoesOn(h, n) BY <1>2, <1>3, <1>4 DEF GoesOn, SignFails, Running, EarlySteps, screen
<1>6. NumberFits(h) BY Untold
<1>7. ~Lives(h) BY <1>4, NothingSent DEF EarlySteps
<1>8. n.refused => n.moved \/ n.overtaken BY <1>2, <1>6 DEF NumberFits
<1> QED BY <1>2, <1>4, <1>5, <1>7, <1>8, FailsGoesOn DEF SignFails

(* The key belongs to the wallet of the dialog, or the user has switched wallets and the
   Ledger signs for another of its accounts. *)
LEMMA KeyFits ==
  ASSUME Inv, NEW h \in Handlers, job[h].pc = "broadcast"
  PROVE  /\ ~job[h].moved => Key(h) = job[h].wallet
         /\ job[h].wallet \in Wallets
         /\ \/ Key(h) = job[h].wallet
            \/ job[h].moved /\ Key(h) \in Ledgers \cup {DeviceFirst}
         /\ Key(h) \in Accounts
<1>1. ReadingFits(h) BY Untold
<1>2. job[h].wallet \in Wallets BY <1>1 DEF ReadingFits, Running
<1>3. Reads(h, job[h].first) BY <1>1 DEF ReadingFits, Readings
<1>4. Flow(h).index # "first" => Reads(h, job[h].second)
  <2>1. Flow(h).node # "evm" => Reads(h, job[h].second) BY <1>1 DEF ReadingFits, Readings
  <2>2. Flow(h).index = "signing" => Reads(h, job[h].second)
    BY <1>1 DEF ReadingFits, Readings
  <2> QED BY <2>1, <2>2, FlowOfHandler
<1>5. Reads(h, Signer(h)) BY <1>3, <1>4 DEF Signer
<1>6. Signer(h) \in Wallets /\ (job[h].moved \/ Signer(h) = job[h].wallet)
  BY <1>5 DEF Reads
<1>7. ~job[h].moved => (OnLedger(h) <=> job[h].wallet \in Ledgers) BY <1>6 DEF OnLedger
<1>8. ~job[h].moved => Key(h) = job[h].wallet BY <1>6, <1>7 DEF Key, Device
<1>9. Key(h) = job[h].wallet \/ Key(h) \in Ledgers \cup {DeviceFirst}
  BY DEF Key, Device
<1> QED BY <1>2, <1>8, <1>9, ConstantsAssumption DEF Accounts

(* Address, number and key of a transaction are those of one account, if nothing has come
   between: the node takes it. *)
LEMMA TakesItsOwn ==
  ASSUME Inv, NEW h \in Handlers, job[h].pc = "broadcast", ~job[h].moved,
         ~job[h].overtaken
  PROVE  Takes(h)
<1>1. ReadingFits(h) /\ NumberFits(h) BY Untold
<1>2. Key(h) = job[h].wallet BY KeyFits
<1>3. Account(h) = job[h].wallet /\ job[h].first = job[h].wallet
      /\ sequence[Account(h)] \in Nat
  BY AccountKnown DEF Readings
<1>4. Pooled(Account(h)) = {} /\ job[h].number = sequence[Account(h)]
  BY <1>1 DEF NumberFits
<1>5. Cardinality(Pooled(Account(h))) = 0 BY <1>4, FS_EmptySet
<1>6. Flow(h).node # "evm" => job[h].second = job[h].wallet
  BY <1>1 DEF ReadingFits, Readings, Reads
<1>7. Flow(h).node # "evm" => From(h) = job[h].wallet
  <2>1. Flow(h).from \in {"first", "second", "page", "key"} BY FlowOfHandler
  <2> QED BY <1>2, <1>3, <1>6, <2>1 DEF From
<1> QED BY <1>2, <1>3, <1>4, <1>5, <1>7 DEF Takes

(* The node refuses the transaction. *)
LEMMA RefusedKeeps ==
  ASSUME Inv, NEW h \in Handlers, Refused(h) PROVE Inv'
<1> DEFINE n == [job[h] EXCEPT !.result = "error", !.refused = TRUE, !.pc = "show"]
<1>1. job[h] \in JobSet BY JobTyped
<1>2. /\ n \in JobSet /\ n.pc = "show" /\ n.result = "error"
      /\ n.dialog = job[h].dialog
      /\ n.mount = job[h].mount /\ n.wallet = job[h].wallet /\ n.moved = job[h].moved
      /\ n.stage = job[h].stage /\ n.told = job[h].told
      /\ n.lost = job[h].lost /\ n.answered = job[h].answered
      /\ n.overtaken = job[h].overtaken
  BY <1>1 DEF JobSet, Steps
<1>3. job' = [job EXCEPT ![h] = n] BY DEF Refused, Inv, TypeOK, JobSet
<1>4. job[h].pc = "broadcast" BY DEF Refused
<1> HIDE DEF n
<1>5. GoesOn(h, n) BY <1>2, <1>3, <1>4 DEF GoesOn, Refused, Running, EarlySteps, screen
<1>6. ~Lives(h) BY <1>4, NothingSent DEF EarlySteps
<1>7. n.moved \/ n.overtaken BY <1>2, <1>4, TakesItsOwn DEF Refused
<1> QED BY <1>2, <1>4, <1>5, <1>6, <1>7, FailsGoesOn DEF Refused

(* A transaction that has failed in its block does not count. *)
LEMMA FailedInBlock ==
  ASSUME Inv, NEW h \in Handlers, InBlock(h, FALSE) PROVE ~Lives(h)
<1>1. PICK b \in blocks : b.tx.by = h /\ b.tx.stage = job[h].stage /\ b.ok = FALSE
  BY DEF InBlock
<1>2. b.tx \in SentTxs /\ b.tx \in Included BY <1>1 DEF SentTxs, Included
<1>3. job[h].stage \in 1..2 BY JobTyped DEF JobSet
<1>4. ASSUME NEW t \in SentTxs, t.by = h, t.stage = 2 PROVE t = b.tx
  <2>1. 2 <= job[h].stage BY <1>4 DEF Inv, SentOnce
  <2> QED BY <1>1, <1>2, <1>3, <1>4, <2>1 DEF Inv, SentOnce
<1>5. \A t \in pool : ~(t.by = h /\ t.stage = 2)
  BY <1>2, <1>4 DEF Inv, SentOnce, SentTxs
<1>6. \A t \in Done : ~(t.by = h /\ t.stage = 2)
  <2>1. SUFFICES ASSUME NEW c \in blocks, c.ok, c.tx.by = h, c.tx.stage = 2 PROVE FALSE
    BY DEF Done
  <2>2. c.tx = b.tx BY <1>4, <2>1 DEF SentTxs, Included
  <2>3. c = b BY <1>1, <2>2 DEF Inv, SentOnce
  <2> QED BY <1>1, <2>1, <2>3
<1> QED BY <1>5, <1>6 DEF Lives

(* A handler that knows what the node has said goes on to refresh. *)
LEMMA AnswerGoesOn ==
  ASSUME Inv, NEW h \in Handlers, NEW n, GoesOn(h, n), job[h].pc = "poll",
         n.pc = "after", n.stage = job[h].stage, n.told = job[h].told,
         n.first = job[h].first, n.second = job[h].second,
         n.answered = job[h].answered, job[h].lost => n.lost,
         n.refused = job[h].refused, n.overtaken = job[h].overtaken,
         \/ n.result = "hash" /\ InBlock(h, TRUE)
         \/ n.result = "timeout" /\ n.lost,
         seen' = seen, UNCHANGED <<session, screen, busy, contacts>>
  PROVE  Inv'
<1>1. /\ job'[h] = n /\ Done' = Done /\ kind' = kind /\ (Lives(h)' <=> Lives(h))
      /\ n.wallet = job[h].wallet /\ n.moved = job[h].moved
  BY StepOfOne DEF Inv, GoesOn
<1>2. Flow(h)' = Flow(h) BY <1>1 DEF Flow
<1>3. ResultFits(h) /\ ReadingFits(h) /\ NumberFits(h) /\ ListsFit(h)
      /\ job[h].told = "none"
  BY Untold DEF Running
<1>4. Flow(h).node # "evm" BY <1>3 DEF ResultFits
<1>5. n.result = "hash" => \E t \in Done : t.by = h /\ t.stage = n.stage
  BY DEF InBlock, Done
<1>6. ResultFits(h)'
  <2> HIDE DEF Done
  <2> QED BY <1>1, <1>2, <1>3, <1>4, <1>5 DEF ResultFits, EarlySteps
<1>7. ReadingFits(h)'
  BY <1>1, <1>2, <1>3 DEF ReadingFits, Readings, Running, Reads
<1>8. NumberFits(h)' BY <1>1, <1>3 DEF NumberFits
<1>9. ListsFit(h)' BY <1>1, <1>3 DEF ListsFit, Refreshes
<1>10. HandlerFits(h)' BY <1>6, <1>7, <1>8, <1>9 DEF HandlerFits
<1>11. SeenKept /\ seen' \in [Wallets -> [Lists -> SUBSET TxSet]]
  BY DEF SeenKept, Inv, TypeOK
<1>12. ScreenGoesOn(h, n) BY ScreenStays
<1> QED BY <1>10, <1>11, <1>12, OneGoesOn

(* The transaction is in a block. *)
LEMMA PollKeeps ==
  ASSUME Inv, NEW h \in Handlers, Poll(h) PROVE Inv'
<1>1. job[h] \in JobSet BY JobTyped
<1>2. job[h].pc = "poll" BY DEF Poll
<1>3. NumberFits(h) BY Untold
<1>4. ASSUME InBlock(h, TRUE), job' = [job EXCEPT ![h].result = "hash", ![h].pc = "after"]
      PROVE  Inv'
  <2> DEFINE n == [job[h] EXCEPT !.result = "hash", !.pc = "after"]
  <2>1. /\ n \in JobSet /\ n.pc = "after" /\ n.result = "hash"
        /\ n.dialog = job[h].dialog /\ n.first = job[h].first /\ n.second = job[h].second
        /\ n.mount = job[h].mount /\ n.wallet = job[h].wallet /\ n.moved = job[h].moved
        /\ n.stage = job[h].stage /\ n.told = job[h].told
        /\ n.lost = job[h].lost /\ n.answered = job[h].answered
        /\ n.refused = job[h].refused /\ n.overtaken = job[h].overtaken
    BY <1>1 DEF JobSet, Steps
  <2>2. job' = [job EXCEPT ![h] = n] BY <1>4 DEF Inv, TypeOK, JobSet
  <2> HIDE DEF n
  <2>3. GoesOn(h, n) BY <1>2, <2>1, <2>2 DEF GoesOn, Poll, Running, EarlySteps, screen
  <2> QED BY <1>2, <1>4, <2>1, <2>3, AnswerGoesOn DEF Poll
<1>5. ASSUME InBlock(h, FALSE), Fails(h) PROVE Inv'
  <2> DEFINE n == [job[h] EXCEPT !.result = "error", !.pc = "show"]
  <2>1. /\ n \in JobSet /\ n.pc = "show" /\ n.result = "error"
        /\ n.dialog = job[h].dialog
        /\ n.mount = job[h].mount /\ n.wallet = job[h].wallet /\ n.moved = job[h].moved
        /\ n.stage = job[h].stage /\ n.told = job[h].told
        /\ n.lost = job[h].lost /\ n.answered = job[h].answered
        /\ n.refused = job[h].refused /\ n.overtaken = job[h].overtaken
    BY <1>1 DEF JobSet, Steps
  <2>2. job' = [job EXCEPT ![h] = n] BY <1>5 DEF Fails, Inv, TypeOK, JobSet
  <2> HIDE DEF n
  <2>3. GoesOn(h, n) BY <1>2, <2>1, <2>2 DEF GoesOn, Poll, Running, EarlySteps, screen
  <2>4. ~Lives(h) BY <1>5, FailedInBlock
  <2>5. n.refused => n.moved \/ n.overtaken BY <1>3, <2>1 DEF NumberFits
  <2> QED BY <1>2, <2>1, <2>3, <2>4, <2>5, FailsGoesOn DEF Poll
<1> QED BY <1>4, <1>5 DEF Poll

(* The application does not learn whether it is. *)
LEMMA PollFailsKeeps ==
  ASSUME Inv, NEW h \in Handlers, PollFails(h) PROVE Inv'
<1>1. job[h] \in JobSet BY JobTyped
<1>2. job[h].pc = "poll" BY DEF PollFails
<1>3. NumberFits(h) BY Untold
<1>4. ASSUME job' = [job EXCEPT ![h].result = "timeout", ![h].lost = TRUE,
                                ![h].pc = "after"]
      PROVE  Inv'
  <2> DEFINE n == [job[h] EXCEPT !.result = "timeout", !.lost = TRUE, !.pc = "after"]
  <2>1. /\ n \in JobSet /\ n.pc = "after" /\ n.result = "timeout" /\ n.lost
        /\ n.dialog = job[h].dialog /\ n.first = job[h].first /\ n.second = job[h].second
        /\ n.mount = job[h].mount /\ n.wallet = job[h].wallet /\ n.moved = job[h].moved
        /\ n.stage = job[h].stage /\ n.told = job[h].told
        /\ n.answered = job[h].answered
        /\ n.refused = job[h].refused /\ n.overtaken = job[h].overtaken
    BY <1>1 DEF JobSet, Steps
  <2>2. job' = [job EXCEPT ![h] = n] BY <1>4 DEF Inv, TypeOK, JobSet
  <2> HIDE DEF n
  <2>3. GoesOn(h, n)
    BY <1>2, <2>1, <2>2 DEF GoesOn, PollFails, Running, EarlySteps, screen
  <2> QED BY <1>2, <1>4, <2>1, <2>3, AnswerGoesOn DEF PollFails
<1>5. ASSUME job' = [job EXCEPT ![h].result = "error", ![h].lost = TRUE, ![h].pc = "show"]
      PROVE  Inv'
  <2> DEFINE n == [job[h] EXCEPT !.result = "error", !.lost = TRUE, !.pc = "show"]
  <2>1. /\ n \in JobSet /\ n.pc = "show" /\ n.result = "error" /\ n.lost
        /\ n.dialog = job[h].dialog
        /\ n.mount = job[h].mount /\ n.wallet = job[h].wallet /\ n.moved = job[h].moved
        /\ n.stage = job[h].stage /\ n.told = job[h].told
        /\ n.answered = job[h].answered
        /\ n.refused = job[h].refused /\ n.overtaken = job[h].overtaken
    BY <1>1 DEF JobSet, Steps
  <2>2. job' = [job EXCEPT ![h] = n] BY <1>5 DEF Inv, TypeOK, JobSet
  <2> HIDE DEF n
  <2>3. GoesOn(h, n)
    BY <1>2, <2>1, <2>2 DEF GoesOn, PollFails, Running, EarlySteps, screen
  <2>4. n.refused => n.moved \/ n.overtaken BY <1>3, <2>1 DEF NumberFits
  <2> QED BY <1>2, <2>1, <2>3, <2>4, FailsGoesOn DEF PollFails
<1> QED BY <1>4, <1>5 DEF PollFails

-----------------------------------------------------------------------------
(* What is refreshed, and what the user is told *)

(* A refresh shows what has run, and takes nothing away that a transaction changes. *)
LEMMA RefreshShows ==
  ASSUME Inv, NEW w \in Wallets, NEW lists, Refreshed(w, lists)
  PROVE  /\ SeenKept
         /\ seen' \in [Wallets -> [Lists -> SUBSET TxSet]]
         /\ \A t \in Done : t.stage = 2 /\ t.payer = w =>
              \A l \in Lists \cap lists \cap Changes(Messages(kind, w \in Ledgers)) :
                t \in seen'[w][l]
<1> DEFINE shows(l) == {t \in Done : t.payer = w /\ t.stage = 2
                                      /\ l \in Changes(Messages(kind, w \in Ledgers))}
           row == [l \in Lists |-> IF l \in lists THEN shows(l) ELSE seen[w][l]]
<1>1. seen \in [Wallets -> [Lists -> SUBSET TxSet]] BY DEF Inv, TypeOK
<1>2. Done \subseteq TxSet BY DEF Done, Inv, TypeOK
<1>3. seen' = [seen EXCEPT ![w] = row] BY DEF Refreshed
<1>4. \A l : shows(l) \subseteq TxSet BY <1>2
<1>5. row \in [Lists -> SUBSET TxSet] BY <1>1, <1>4
<1>6. /\ \A l \in Lists \cap lists : row[l] = shows(l)
      /\ \A l \in Lists \ lists : row[l] = seen[w][l]
  OBVIOUS
<1> HIDE DEF row
<1>7. /\ seen' \in [Wallets -> [Lists -> SUBSET TxSet]] /\ seen'[w] = row
      /\ \A v \in Wallets \ {w} : seen'[v] = seen[v]
  BY <1>1, <1>3, <1>5
<1>8. ASSUME NEW t \in Done, t.stage = 2, t.payer = w,
             NEW l \in Lists \cap lists \cap Changes(Messages(kind, w \in Ledgers))
      PROVE  t \in seen'[w][l]
  BY <1>6, <1>7, <1>8
<1>9. ASSUME NEW t \in Done, t.stage = 2, t.payer \in Wallets,
             NEW l \in Lists \cap Changes(Messages(kind, t.payer \in Ledgers)),
             t \in seen[t.payer][l]
      PROVE  t \in seen'[t.payer][l]
  <2>1. CASE t.payer # w BY <1>7, <1>9, <2>1
  <2>2. CASE t.payer = w /\ l \in lists BY <1>8, <1>9, <2>2
  <2>3. CASE t.payer = w /\ l \notin lists BY <1>6, <1>7, <1>9, <2>3
  <2> QED BY <2>1, <2>2, <2>3
<1> QED BY <1>7, <1>8, <1>9 DEF SeenKept

(* The lists of the NFTs are fetched again before one is sent. *)
LEMMA RefreshBeforeKeeps ==
  ASSUME Inv, NEW h \in Handlers, RefreshBefore(h) PROVE Inv'
<1>1. PICK answered \in BOOLEAN :
        /\ Refreshed(job[h].first, IF answered THEN Flow(h).before ELSE {})
        /\ job' = [job EXCEPT ![h].answered = answered, ![h].pc = "broadcast"]
  BY DEF RefreshBefore
<1> DEFINE n == [job[h] EXCEPT !.answered = answered, !.pc = "broadcast"]
<1>2. job[h] \in JobSet BY JobTyped
<1>3. /\ n \in JobSet /\ n.pc = "broadcast" /\ n.first = job[h].first
      /\ n.second = job[h].second
      /\ n.dialog = job[h].dialog /\ n.number = job[h].number
      /\ n.mount = job[h].mount /\ n.wallet = job[h].wallet /\ n.moved = job[h].moved
      /\ n.stage = job[h].stage /\ n.result = job[h].result /\ n.told = job[h].told
      /\ n.lost = job[h].lost
      /\ n.refused = job[h].refused /\ n.overtaken = job[h].overtaken
  BY <1>2 DEF JobSet, Steps
<1>4. job' = [job EXCEPT ![h] = n] BY <1>1 DEF Inv, TypeOK, JobSet
<1>5. job[h].pc = "before" BY DEF RefreshBefore
<1> HIDE DEF n
<1>6. GoesOn(h, n)
  BY <1>3, <1>4, <1>5 DEF GoesOn, RefreshBefore, Running, EarlySteps, screen
<1>7. ScreenGoesOn(h, n) BY <1>3, <1>5, ScreenStays DEF RefreshBefore
<1>8. job'[h] = n /\ session' = session /\ kind' = kind /\ pool' = pool
      /\ sequence' = sequence
  BY <1>4 DEF Inv, TypeOK, RefreshBefore, chain
<1>9. ReadingFits(h) /\ NumberFits(h) /\ ResultFits(h) /\ job[h].told = "none"
  BY <1>5, Untold DEF Running
<1>10. Flow(h)' = Flow(h) BY <1>3, <1>8 DEF Flow
<1>11. ReadingFits(h)'
  BY <1>3, <1>5, <1>8, <1>9, <1>10 DEF ReadingFits, Running, Readings, Reads
<1>12. NumberFits(h)'
  <2>1. Account(h)' = Account(h) BY <1>3, <1>8, <1>10 DEF Account
  <2>2. Pooled(Account(h))' = Pooled(Account(h)) BY <1>8, <2>1 DEF Pooled
  <2> QED BY <1>3, <1>5, <1>8, <1>9, <2>1, <2>2 DEF NumberFits
<1>13. Done' = Done /\ (Lives(h)' <=> Lives(h)) BY <1>6, StepOfOne DEF Inv
<1>14. ResultFits(h)'
  <2> HIDE DEF Done
  <2> QED BY <1>3, <1>5, <1>8, <1>9, <1>10, <1>13 DEF ResultFits, EarlySteps
<1>15. ListsFit(h)'
  <2>1. kind = "nft" BY <1>5, <1>9, FlowOfHandler DEF ReadingFits
  <2> QED BY <1>8, <2>1 DEF ListsFit, Refreshes
<1>16. HandlerFits(h)' BY <1>11, <1>12, <1>14, <1>15 DEF HandlerFits
<1>17. job[h].first \in Wallets BY <1>5, AccountKnown DEF Readings
<1>18. SeenKept /\ seen' \in [Wallets -> [Lists -> SUBSET TxSet]]
  BY <1>1, <1>17, RefreshShows
<1> QED BY <1>3, <1>6, <1>7, <1>16, <1>18, OneGoesOn

(* After the denom has been issued the NFT is minted. *)
LEMMA MintsGoesOn ==
  ASSUME Inv, NEW h \in Handlers, RefreshAfter(h), job[h].stage = 1,
         job' = [job EXCEPT ![h] = Mints(h)], SeenKept,
         seen' \in [Wallets -> [Lists -> SUBSET TxSet]]
  PROVE  Inv'
<1> DEFINE n == [job[h] EXCEPT !.stage = 2, !.result = "none", !.pc = "first"]
<1>1. job[h] \in JobSet BY JobTyped
<1>0. PICK two \in 1..2 : two = 2 OBVIOUS
<1>a. n = [job[h] EXCEPT !.stage = two, !.result = "none", !.pc = "first"] BY <1>0
<1>2. /\ n \in JobSet /\ n.pc = "first" /\ n.stage = 2 /\ n.result = "none"
      /\ n.dialog = job[h].dialog
      /\ n.mount = job[h].mount /\ n.wallet = job[h].wallet /\ n.moved = job[h].moved
      /\ n.told = job[h].told /\ n.answered = job[h].answered
      /\ n.lost = job[h].lost
      /\ n.refused = job[h].refused /\ n.overtaken = job[h].overtaken
  BY <1>0, <1>1, <1>a DEF JobSet, Steps
<1>3. job' = [job EXCEPT ![h] = n] BY DEF Mints
<1>4. job[h].pc = "after" BY DEF RefreshAfter
<1> HIDE DEF n
<1>5. GoesOn(h, n)
  BY <1>2, <1>3, <1>4 DEF GoesOn, RefreshAfter, Running, EarlySteps, screen
<1>6. ScreenGoesOn(h, n) BY <1>2, <1>4, ScreenStays DEF RefreshAfter
<1>7. job'[h] = n /\ session' = session /\ kind' = kind
  BY <1>3 DEF Inv, TypeOK, RefreshAfter
<1>8. ReadingFits(h) /\ NumberFits(h) /\ ResultFits(h) /\ ListsFit(h)
      /\ job[h].told = "none"
  BY <1>4, Untold DEF Running
<1>9. ResultFits(h)'
  <2>1. kind = "mint" BY <1>8 DEF ResultFits
  <2>2. FlowOf(kind).node # "evm" BY <2>1, FlowFacts DEF Inv, TypeOK
  <2>3. (Flow(h).node # "evm")' BY <1>2, <1>7, <2>2 DEF Flow
  <2> QED BY <1>2, <1>7, <1>8, <2>3 DEF ResultFits, EarlySteps
<1>10. ReadingFits(h)' BY <1>2, <1>4, <1>7, <1>8 DEF ReadingFits, Running, Readings
<1>11. NumberFits(h)' BY <1>2, <1>7, <1>8 DEF NumberFits
<1>12. ListsFit(h)' BY <1>2, <1>4, <1>7, <1>8 DEF ListsFit, Refreshes
<1>13. HandlerFits(h)' BY <1>9, <1>10, <1>11, <1>12 DEF HandlerFits
<1> QED BY <1>2, <1>5, <1>6, <1>13, OneGoesOn

(* The lists are fetched again after a transaction. *)
LEMMA RefreshAfterKeeps ==
  ASSUME Inv, NEW h \in Handlers, RefreshAfter(h) PROVE Inv'
<1>1. PICK answered \in BOOLEAN :
        /\ Refreshed(job[h].first, IF answered THEN Flow(h).after ELSE {})
        /\ job' = IF job[h].stage = 1
             THEN [job EXCEPT ![h] = Mints(h)]
             ELSE [job EXCEPT ![h].answered = @ \/ answered, ![h].pc = "show"]
  BY DEF RefreshAfter
<1>2. job[h] \in JobSet BY JobTyped
<1>3. job[h].pc = "after" BY DEF RefreshAfter
<1>4. job[h].first \in Wallets /\ (job[h].moved \/ job[h].first = job[h].wallet)
  BY <1>3, AccountKnown DEF Readings
<1>5. /\ SeenKept /\ seen' \in [Wallets -> [Lists -> SUBSET TxSet]]
      /\ answered => \A t \in Done : t.stage = 2 /\ t.payer = job[h].first =>
           \A l \in Lists \cap Flow(h).after
                      \cap Changes(Messages(kind, job[h].first \in Ledgers)) :
             t \in seen'[job[h].first][l]
  <2>1. CASE answered
    <3>1. Refreshed(job[h].first, Flow(h).after) BY <1>1, <2>1
    <3> QED BY <1>4, <3>1, RefreshShows
  <2>2. CASE ~answered
    <3>1. Refreshed(job[h].first, {}) BY <1>1, <2>2
    <3> QED BY <1>4, <2>2, <3>1, RefreshShows
  <2> QED BY <2>1, <2>2
<1>6. CASE job[h].stage = 1 BY <1>1, <1>5, <1>6, MintsGoesOn
<1>7. CASE job[h].stage # 1
  <2> DEFINE known_ == job[h].answered \/ answered
             n == [job[h] EXCEPT !.answered = known_, !.pc = "show"]
  <2>1. PICK a \in BOOLEAN : a = known_ BY <1>2 DEF JobSet
  <2>2. n = [job[h] EXCEPT !.answered = a, !.pc = "show"] BY <2>1
  <2>3. job' = [job EXCEPT ![h] = n] BY <1>1, <1>7 DEF Inv, TypeOK, JobSet
  <2> HIDE DEF n
  <2>4. /\ n \in JobSet /\ n.pc = "show" /\ n.answered = a
        /\ n.dialog = job[h].dialog
        /\ n.mount = job[h].mount /\ n.wallet = job[h].wallet /\ n.moved = job[h].moved
        /\ n.stage = job[h].stage /\ n.result = job[h].result /\ n.told = job[h].told
        /\ n.lost = job[h].lost
        /\ n.refused = job[h].refused /\ n.overtaken = job[h].overtaken
    BY <1>2, <2>2 DEF JobSet, Steps
  <2>5. GoesOn(h, n)
    BY <1>3, <2>3, <2>4 DEF GoesOn, RefreshAfter, Running, EarlySteps, screen
  <2>6. ScreenGoesOn(h, n) BY <1>3, <2>4, ScreenStays DEF RefreshAfter
  <2>7. job'[h] = n /\ session' = session /\ kind' = kind
    BY <2>3 DEF Inv, TypeOK, RefreshAfter
  <2>8. ReadingFits(h) /\ NumberFits(h) /\ ResultFits(h) /\ ListsFit(h)
        /\ job[h].told = "none"
    BY <1>3, Untold DEF Running
  <2>9. job[h].stage = 2 BY <1>2, <1>7 DEF JobSet
  <2>10. Flow(h)' = Flow(h) /\ Flow(h) = FlowOf(kind) BY <2>4, <2>7, <2>9 DEF Flow
  <2>11. Done' = Done /\ (Lives(h)' <=> Lives(h)) BY <2>5, StepOfOne DEF Inv
  <2>12. ResultFits(h)'
    <3> HIDE DEF Done
    <3> QED BY <1>3, <2>4, <2>7, <2>8, <2>9, <2>10, <2>11 DEF ResultFits, EarlySteps
  <2>13. ReadingFits(h)' BY <1>3, <2>4, <2>7, <2>8 DEF ReadingFits, Running, Readings
  <2>14. NumberFits(h)' BY <2>4, <2>7, <2>8 DEF NumberFits
  <2>15. ListsFit(h)'
    <3>1. SUFFICES ASSUME Refreshes, a, ~job[h].moved,
                          NEW t \in Done, t.by = h, t.stage = 2, t.payer \in Wallets,
                          NEW l \in Lists \cap FlowOf(kind).after
                                      \cap Changes(Messages(kind, t.payer \in Ledgers))
                   PROVE  t \in seen'[t.payer][l]
      BY <2>4, <2>7, <2>11 DEF ListsFit, Refreshes
    <3>2. ~job[h].answered BY <1>3, <2>8, <3>1 DEF ListsFit
    <3>3. answered BY <2>1, <3>1, <3>2
    <3>4. t.payer = job[h].wallet
      <4>1. t \in SentTxs BY DEF Done, SentTxs, Included
      <4> QED BY <3>1, <4>1 DEF Inv, Payers
    <3>5. t.payer = job[h].first BY <1>4, <3>1, <3>4
    <3> QED BY <1>5, <2>10, <3>1, <3>3, <3>5
  <2>16. HandlerFits(h)' BY <2>12, <2>13, <2>14, <2>15 DEF HandlerFits
  <2> QED BY <1>5, <2>4, <2>5, <2>6, <2>16, OneGoesOn
<1> QED BY <1>6, <1>7

(* The user is told. *)
LEMMA ShowKeeps ==
  ASSUME Inv, NEW h \in Handlers, Show(h) PROVE Inv'
<1> DEFINE n == [job[h] EXCEPT !.pc = "over", !.first = NoWallet, !.second = NoWallet,
                               !.number = 0, !.told = Tells(h)]
<1>1. job[h] \in JobSet BY JobTyped
<1>2. Tells(h) \in {"none", "success", "timeout", "error"} BY DEF Tells
<1>3. PICK tells \in {"none", "success", "timeout", "error"} : tells = Tells(h) BY <1>2
<1>4. n = [job[h] EXCEPT !.pc = "over", !.first = NoWallet, !.second = NoWallet,
                         !.number = 0, !.told = tells]
  BY <1>3
<1>5. job' = [job EXCEPT ![h] = n] BY DEF Show, Over
<1> HIDE DEF n
<1>6. /\ n \in JobSet /\ n.pc = "over" /\ n.told = tells
      /\ n.dialog = job[h].dialog
      /\ n.mount = job[h].mount /\ n.wallet = job[h].wallet /\ n.moved = job[h].moved
      /\ n.stage = job[h].stage /\ n.result = job[h].result
      /\ n.lost = job[h].lost /\ n.answered = job[h].answered
      /\ n.refused = job[h].refused /\ n.overtaken = job[h].overtaken
  BY <1>1, <1>4 DEF JobSet, Steps
<1>7. job[h].pc = "show" BY DEF Show
<1>8. GoesOn(h, n) BY <1>5, <1>6, <1>7 DEF GoesOn, Show, Running, EarlySteps
<1>9. ScreenGoesOn(h, n)
  <2>1. busy' \in BOOLEAN /\ box' \in {"none", "success", "timeout", "error"}
    BY <1>2 DEF Show, Inv, TypeOK
  <2>2. IF Here(h) THEN view' = IF ClosesDialog(h) THEN "form" ELSE view
        ELSE UNCHANGED <<busy, view>>
    BY DEF Show
  <2>3. contacts' = contacts BY DEF Show
  <2> QED BY <1>6, <1>7, <2>1, <2>2, <2>3 DEF ScreenGoesOn
<1>10. job'[h] = n /\ session' = session /\ kind' = kind /\ seen' = seen
  BY <1>5 DEF Inv, TypeOK, Show
<1>11. NumberFits(h) /\ ResultFits(h) /\ ListsFit(h) BY Untold
<1>12. Flow(h)' = Flow(h) BY <1>6, <1>10 DEF Flow
<1>13. Done' = Done /\ (Lives(h)' <=> Lives(h)) BY <1>8, StepOfOne DEF Inv
<1>14. ResultFits(h)'
  <2>1. Tells(h)' = Tells(h) BY <1>6, <1>10 DEF Tells, Form, Dialog
  <2> HIDE DEF Done
  <2> QED BY <1>3, <1>6, <1>7, <1>10, <1>11, <1>12, <1>13, <2>1 DEF ResultFits, EarlySteps
<1>15. ReadingFits(h)' BY <1>6, <1>10 DEF ReadingFits, Running, Readings
<1>16. NumberFits(h)' BY <1>6, <1>10, <1>11 DEF NumberFits
<1>17. ListsFit(h)' BY <1>6, <1>7, <1>10, <1>11, <1>13 DEF ListsFit, Refreshes
<1>18. HandlerFits(h)' BY <1>14, <1>15, <1>16, <1>17 DEF HandlerFits
<1>19. SeenKept /\ seen' \in [Wallets -> [Lists -> SUBSET TxSet]]
  BY <1>10 DEF SeenKept, Inv, TypeOK
<1> QED BY <1>6, <1>8, <1>9, <1>18, <1>19, OneGoesOn

-----------------------------------------------------------------------------
(* Steps on which the screen does not change *)

(* Before, on and after the way to the node, as far as the screen can tell. *)
Quiet(j, k) ==
  /\ k.dialog = j.dialog /\ k.mount = j.mount
  /\ k.pc = j.pc \/ {j.pc, k.pc} \subseteq Steps \ {"idle", "find", "add", "over"}
  /\ j.pc = "over" => k.result = j.result
  /\ j.lost => k.lost

(* The screen, its confirmations and the clicks on them are as they were. *)
LEMMA ScreenSame ==
  ASSUME ScreenFits, OneAtATime, ClickedAgain, UNCHANGED <<screen, busy, contacts, twice>>,
         page # NoWallet => session' = session,
         \A g \in Handlers : /\ Quiet(job[g], job'[g])
                             /\ job[g].pc = "over" /\ Lives(g)' => Lives(g)
  PROVE  ScreenFits' /\ OneAtATime' /\ ClickedAgain'
<1>1. /\ UNCHANGED <<page, mount, view, dialog, busy, contacts, twice>>
      /\ \A g \in Handlers : job'[g].dialog = job[g].dialog /\ job'[g].mount = job[g].mount
  BY DEF screen, Quiet
<1>2. \A g \in Handlers :
        /\ job'[g].pc = "idle" <=> job[g].pc = "idle"
        /\ job'[g].pc = "over" <=> job[g].pc = "over"
        /\ job'[g].pc = "add" <=> job[g].pc = "add"
        /\ job'[g].pc \in {"find", "add"} <=> job[g].pc \in {"find", "add"}
  BY DEF Quiet
<1>3. Clicked' = Clicked BY <1>2 DEF Clicked
<1>4. \A g \in Handlers : (Running(g)' <=> Running(g)) /\ (Here(g)' <=> Here(g))
  BY <1>1, <1>2 DEF Running, Here
<1>5. \A g \in Clicked : g \in Handlers BY DEF Clicked
<1>6. ScreenFits'
  <2>1. ASSUME view' = "confirm", NEW g \in Clicked, job'[g].dialog = dialog'
        PROVE  /\ job'[g].mount = mount'
               /\ job'[g].pc = "over" => job'[g].result \in {"error", "timeout"}
    <3>1. /\ job[g].mount = mount
          /\ job[g].pc = "over" => job[g].result \in {"error", "timeout"}
      BY <1>1, <1>5, <2>1 DEF ScreenFits
    <3>2. job[g].pc = "over" => job'[g].result = job[g].result BY <1>5 DEF Quiet
    <3> QED BY <1>1, <1>2, <1>5, <3>1, <3>2
  <2>2. \A g \in Clicked : job'[g].mount < g /\ job'[g].dialog < g
    BY <1>1, <1>5 DEF ScreenFits
  <2>3. page' # NoWallet => page' = session' BY <1>1 DEF ScreenFits
  <2> QED BY <1>1, <1>3, <2>1, <2>2, <2>3 DEF ScreenFits
<1>7. OneAtATime' BY <1>1, <1>2, <1>4 DEF OneAtATime
<1>8. ClickedAgain'
  <2>1. \A g \in Handlers : job[g].lost => job'[g].lost BY DEF Quiet
  <2> QED BY <1>1, <1>2, <1>3, <1>5, <2>1 DEF ClickedAgain
<1> QED BY <1>6, <1>7, <1>8

(* The node takes the transaction. *)
LEMMA AcceptedKeeps ==
  ASSUME Inv, NEW h \in Handlers, Accepted(h) PROVE Inv'
<1> DEFINE t0 == Tx(h, Key(h))
<1>1. PICK lost \in BOOLEAN :
       job' = [g \in Handlers |->
         IF g = h
         THEN [job[h] EXCEPT
                 !.lost = @ \/ lost,
                 !.result = IF lost THEN "error"
                            ELSE IF Flow(h).node = "evm" THEN "hash" ELSE "none",
                 !.pc = IF lost THEN "show"
                        ELSE IF Flow(h).node = "evm" THEN "after" ELSE "poll"]
         ELSE [job[g] EXCEPT !.overtaken = @ \/ Overtakes(h, g)]]
  BY DEF Accepted
<1>2. job[h].pc = "broadcast" /\ Running(h) BY DEF Accepted, Running
<1>3. /\ pool' = pool \cup {t0}
      /\ UNCHANGED <<kind, session, screen, busy, contacts, sequence, blocks, denom, seen,
                     twice>>
  BY DEF Accepted
<1>4. Done' = Done /\ Included' = Included BY <1>3 DEF Done, Included
<1>5. /\ job'[h] \in JobSet
      /\ job'[h].dialog = job[h].dialog /\ job'[h].mount = job[h].mount
      /\ job'[h].wallet = job[h].wallet /\ job'[h].moved = job[h].moved
      /\ job'[h].first = job[h].first /\ job'[h].second = job[h].second
      /\ job'[h].stage = job[h].stage /\ job'[h].told = job[h].told
      /\ job'[h].answered = job[h].answered /\ job'[h].refused = job[h].refused
      /\ job'[h].overtaken = job[h].overtaken
      /\ (job'[h].lost <=> job[h].lost \/ lost)
      /\ job'[h].result = IF lost THEN "error"
                          ELSE IF Flow(h).node = "evm" THEN "hash" ELSE "none"
      /\ job'[h].pc = IF lost THEN "show"
                      ELSE IF Flow(h).node = "evm" THEN "after" ELSE "poll"
  <2>1. PICK result \in {"none", "hash", "error"} :
          result = IF lost THEN "error"
                   ELSE IF Flow(h).node = "evm" THEN "hash" ELSE "none"
    OBVIOUS
  <2>2. PICK pc \in {"show", "after", "poll"} :
          pc = IF lost THEN "show"
               ELSE IF Flow(h).node = "evm" THEN "after" ELSE "poll"
    OBVIOUS
  <2>3. job[h] \in JobSet BY JobTyped
  <2>4. PICK gone \in BOOLEAN : gone = (job[h].lost \/ lost) OBVIOUS
  <2>5. job'[h] = [job[h] EXCEPT !.lost = gone, !.result = result, !.pc = pc]
    BY <1>1, <2>1, <2>2, <2>4
  <2> QED BY <2>1, <2>2, <2>3, <2>4, <2>5 DEF JobSet, Steps
<1>6. \A g \in Handlers \ {h} :
        /\ job'[g] \in JobSet /\ Alike(job[g], job'[g])
        /\ Overtakes(h, g) => job'[g].overtaken
  <2>1. SUFFICES ASSUME NEW g \in Handlers \ {h}
                 PROVE  /\ job'[g] \in JobSet /\ Alike(job[g], job'[g])
                        /\ Overtakes(h, g) => job'[g].overtaken
    OBVIOUS
  <2>2. job[g] \in JobSet BY JobTyped
  <2>3. PICK late \in BOOLEAN : late = (job[g].overtaken \/ Overtakes(h, g)) OBVIOUS
  <2>4. job'[g] = [job[g] EXCEPT !.overtaken = late] BY <1>1, <2>3
  <2> QED BY <2>2, <2>3, <2>4 DEF JobSet, Alike
<1>7. job' \in [Handlers -> JobSet]
  <2>1. \A g \in Handlers : job'[g] \in JobSet BY <1>5, <1>6
  <2> QED BY <1>1, <2>1
<1>8. t0 \in TxSet /\ t0.by = h /\ t0.stage = job[h].stage /\ t0.payer = Key(h)
  BY <1>2, JobTyped, KeyFits DEF Tx, TxSet, JobSet
<1> HIDE DEF t0
<1>9. SentTxs' = SentTxs \cup {t0} BY <1>3, <1>4 DEF SentTxs
<1>10. \A t \in SentTxs : t.by \in Handlers /\ t.stage \in 1..2
  BY DEF SentTxs, Included, Inv, TypeOK, TxSet
<1>11. \A t \in SentTxs : ~(t.by = h /\ t.stage = job[h].stage)
  BY <1>2, NothingSent DEF EarlySteps
<1>12. /\ \A g \in Handlers : job'[g].wallet = job[g].wallet /\ job'[g].stage = job[g].stage
       /\ \A g \in Handlers : job[g].moved => job'[g].moved
  BY <1>5, <1>6 DEF Alike
<1>13. TypeOK'
  <2>1. pool' \subseteq TxSet BY <1>3, <1>8 DEF Inv, TypeOK
  <2> QED BY <1>3, <1>7, <2>1 DEF Inv, TypeOK, screen
<1>14. SentOnce'
  <2>1. IsFiniteSet(pool') BY <1>3, FS_AddElement DEF Inv, SentOnce
  <2>2. ASSUME NEW t \in SentTxs'
        PROVE  /\ job'[t.by].pc # "idle"
               /\ t.stage <= job'[t.by].stage
               /\ t.stage = job'[t.by].stage => job'[t.by].pc \notin EarlySteps
    <3>1. CASE t = t0
      <4>1. t.stage \in 1..2 BY <1>8, <3>1 DEF TxSet
      <4> QED BY <1>5, <1>8, <3>1, <4>1 DEF EarlySteps
    <3>2. CASE t \in SentTxs /\ t.by = h
      BY <1>5, <1>10, <1>11, <3>2 DEF Inv, SentOnce, EarlySteps
    <3>3. CASE t \in SentTxs /\ t.by # h
      <4>1. /\ job[t.by].pc # "idle"
            /\ t.stage <= job[t.by].stage
            /\ t.stage = job[t.by].stage => job[t.by].pc \notin EarlySteps
        BY <3>3 DEF Inv, SentOnce
      <4>2. job'[t.by].pc = job[t.by].pc /\ job'[t.by].stage = job[t.by].stage
        BY <1>6, <1>10, <3>3 DEF Alike
      <4> QED BY <4>1, <4>2
    <3> QED BY <1>9, <3>1, <3>2, <3>3
  <2>3. \A t, u \in SentTxs' : t.by = u.by /\ t.stage = u.stage => t = u
    BY <1>8, <1>9, <1>11 DEF Inv, SentOnce
  <2>4. \A t \in pool' : t \notin Included'
    <3>1. t0 \notin Included BY <1>8, <1>11 DEF SentTxs
    <3> QED BY <1>3, <1>4, <3>1 DEF Inv, SentOnce
  <2>5. \A b, c \in blocks' : b.tx = c.tx => b = c BY <1>3 DEF Inv, SentOnce
  <2> QED BY <2>1, <2>2, <2>3, <2>4, <2>5 DEF SentOnce
<1>15. Payers'
  <2>1. ASSUME NEW t \in SentTxs
        PROVE  \/ t.payer \in Wallets /\ t.payer = job'[t.by].wallet
               \/ t.payer \in Ledgers \cup {DeviceFirst} /\ job'[t.by].moved
    BY <1>10, <1>12 DEF Inv, Payers
  <2>2. \/ t0.payer \in Wallets /\ t0.payer = job'[t0.by].wallet
        \/ t0.payer \in Ledgers \cup {DeviceFirst} /\ job'[t0.by].moved
    BY <1>2, <1>8, <1>12, KeyFits
  <2> QED BY <1>9, <2>1, <2>2 DEF Payers
<1>16. \A g \in Handlers \ {h} : Lives(g)' <=> Lives(g)
  BY <1>3, <1>4, <1>8 DEF Lives
<1>17. ASSUME NEW g \in Handlers \ {h} PROVE HandlerFits(g)'
  <2>1. Alike(job[g], job'[g]) /\ (Overtakes(h, g) => job'[g].overtaken) BY <1>6
  <2>2. ASSUME job[g].pc \in {"signing", "sign", "before", "broadcast"},
               ~job'[g].overtaken, Pooled(Account(g)) = {}
        PROVE  Pooled(Account(g))' = {} /\ sequence'[Account(g)] = sequence[Account(g)]
    <3>1. Account(g) # Key(h) BY <2>1, <2>2 DEF Overtakes
    <3>2. Account(g)' = Account(g) BY <1>3, <2>1 DEF Account, Flow, Alike
    <3> QED BY <1>3, <1>8, <2>2, <3>1, <3>2 DEF Pooled
  <2>3. ChainGoesOn(g) BY <1>4, <1>16, <2>2 DEF ChainGoesOn
  <2>4. SeenKept BY <1>3 DEF SeenKept
  <2>5. HandlerFits(g) /\ kind' = kind /\ session' = session BY <1>3 DEF Inv
  <2> QED BY <2>1, <2>3, <2>4, <2>5, OthersKept
<1>18. HandlerFits(h)'
  <2>1. ReadingFits(h) /\ NumberFits(h) /\ ResultFits(h) /\ ListsFit(h)
        /\ job[h].told = "none"
    BY <1>2, Untold
  <2>2. kind' = kind /\ session' = session /\ Flow(h)' = Flow(h)
    BY <1>3, <1>5 DEF Flow
  <2>3. job[h].result = "none" BY <1>2, <2>1 DEF ResultFits, EarlySteps
  <2>4. ResultFits(h)'
    <3>1. CASE lost BY <1>5, <2>1, <2>2, <3>1 DEF ResultFits, EarlySteps
    <3>2. CASE ~lost /\ Flow(h).node = "evm"
      BY <1>5, <2>1, <2>2, <2>3, <3>2 DEF ResultFits, EarlySteps
    <3>3. CASE ~lost /\ Flow(h).node # "evm"
      BY <1>5, <2>1, <2>2, <2>3, <3>3 DEF ResultFits, EarlySteps
    <3> QED BY <3>1, <3>2, <3>3
  <2>5. ReadingFits(h)'
    BY <1>2, <1>5, <2>1, <2>2 DEF ReadingFits, Running, Readings, Reads
  <2>6. NumberFits(h)' BY <1>5, <2>1 DEF NumberFits
  <2>7. ListsFit(h)'
    <3>1. job'[h].pc \in {"show", "over"} => job'[h].result = "error" BY <1>5
    <3>2. Refreshes' => Refreshes BY <2>2 DEF Refreshes
    <3> QED BY <1>2, <1>5, <2>1, <3>1, <3>2 DEF ListsFit
  <2> QED BY <2>4, <2>5, <2>6, <2>7 DEF HandlerFits
<1>19. ScreenFits' /\ OneAtATime' /\ ClickedAgain'
  <2>1. ASSUME NEW g \in Handlers
        PROVE  Quiet(job[g], job'[g]) /\ (job[g].pc = "over" /\ Lives(g)' => Lives(g))
    <3>1. CASE g = h BY <1>2, <1>5, <3>1 DEF Quiet, Steps
    <3>2. CASE g # h BY <1>6, <1>16, <3>2 DEF Quiet, Alike
    <3> QED BY <3>1, <3>2
  <2> QED BY <1>3, <2>1, ScreenSame DEF Inv
<1>20. \A g \in Handlers : HandlerFits(g)' BY <1>17, <1>18
<1> QED BY <1>13, <1>14, <1>15, <1>19, <1>20 DEF Inv

-----------------------------------------------------------------------------
(* The chain *)

(* On a step of the chain no handler does anything. *)
LEMMA ChainKeeps ==
  ASSUME Inv, UNCHANGED <<kind, session, screen, busy, job, contacts, seen, twice>>,
         TypeOK', SentOnce', SentTxs' \subseteq SentTxs,
         \A g \in Handlers : ChainGoesOn(g)
  PROVE  Inv'
<1>1. \A g \in Handlers : Alike(job[g], job'[g]) /\ Quiet(job[g], job'[g])
  BY DEF Alike, Quiet
<1>2. SeenKept BY DEF SeenKept
<1>3. Payers' BY DEF Payers, Inv
<1>4. \A g \in Handlers : HandlerFits(g)' BY <1>1, <1>2, OthersKept DEF Inv
<1>5. ScreenFits' /\ OneAtATime' /\ ClickedAgain'
  BY <1>1, ScreenSame DEF Inv, ChainGoesOn
<1> QED BY <1>3, <1>4, <1>5 DEF Inv

(* A transaction runs in a block, or fails in it. *)
LEMMA IncludeKeeps ==
  ASSUME Inv, NEW t \in pool, Include(t) PROVE Inv'
<1>1. PICK ok \in BOOLEAN :
        /\ blocks' = blocks \cup {[tx |-> t, ok |-> ok]}
        /\ denom' = (denom \/ (ok /\ t.stage = 1))
  BY DEF Include
<1>2. /\ pool' = pool \ {t}
      /\ sequence' = [sequence EXCEPT ![t.payer] = @ + 1]
      /\ UNCHANGED <<kind, session, screen, busy, job, contacts, seen, twice>>
  BY DEF Include
<1>3. t \in TxSet /\ t.payer \in Accounts /\ t \in SentTxs /\ t \notin Included
  <2>1. t \in TxSet BY DEF Inv, TypeOK
  <2>2. t.payer \in Accounts BY <2>1 DEF TxSet
  <2>3. t \in SentTxs /\ t \notin Included BY DEF SentTxs, Inv, SentOnce
  <2> QED BY <2>1, <2>2, <2>3
<1>4. Included' = Included \cup {t}
  <2>1. PICK b : b = [tx |-> t, ok |-> ok] OBVIOUS
  <2>2. b.tx = t /\ blocks' = blocks \cup {b} BY <1>1, <2>1
  <2> QED BY <2>2 DEF Included
<1>5. SentTxs' = SentTxs BY <1>2, <1>3, <1>4 DEF SentTxs
<1>6. Done \subseteq Done' /\ Done' \subseteq Done \cup {t} BY <1>1 DEF Done
<1>7. Done \subseteq Included BY DEF Done, Included
<1>8. TypeOK'
  <2>1. sequence' \in [Accounts -> Nat] BY <1>2, <1>3 DEF Inv, TypeOK
  <2>2. pool' \subseteq TxSet BY <1>2 DEF Inv, TypeOK
  <2>3. blocks' \subseteq [tx : TxSet, ok : BOOLEAN] BY <1>1, <1>3 DEF Inv, TypeOK
  <2>4. denom' \in BOOLEAN BY <1>1
  <2> QED BY <1>2, <2>1, <2>2, <2>3, <2>4 DEF Inv, TypeOK, screen
<1>9. SentOnce'
  <2>1. IsFiniteSet(pool') BY <1>2, FS_Subset DEF Inv, SentOnce
  <2>2. \A u \in pool' : u \notin Included' BY <1>2, <1>4 DEF Inv, SentOnce
  <2>3. ASSUME NEW b \in blocks', NEW c \in blocks', b.tx = c.tx PROVE b = c
    <3>1. \A d \in blocks : d.tx # t BY <1>3 DEF Included
    <3> QED BY <1>1, <2>3, <3>1 DEF Inv, SentOnce
  <2> QED BY <1>2, <1>5, <2>1, <2>2, <2>3 DEF Inv, SentOnce
<1>10. ASSUME NEW g \in Handlers PROVE ChainGoesOn(g)
  <2>1. Lives(g)' => Lives(g) BY <1>2, <1>6 DEF Lives
  <2>2. ASSUME NEW u \in Done', u.by = g, u.stage = 2, u \notin Done,
               NEW v \in Done, v.by = g, v.stage = 2
        PROVE  FALSE
    <3>1. u = t BY <1>6, <2>2
    <3>2. v \in SentTxs BY <1>7 DEF SentTxs
    <3>3. v = t BY <1>3, <2>2, <3>1, <3>2 DEF Inv, SentOnce
    <3> QED BY <1>3, <1>7, <3>3
  <2>3. ASSUME job[g].pc \in {"signing", "sign", "before", "broadcast"},
               Pooled(Account(g)) = {}
        PROVE  Pooled(Account(g))' = {} /\ sequence'[Account(g)] = sequence[Account(g)]
    <3>1. Account(g) \in Accounts BY <2>3, AccountKnown DEF Readings, Accounts
    <3>2. Account(g) # t.payer BY <2>3 DEF Pooled
    <3>3. Account(g)' = Account(g) BY <1>2 DEF Account, Flow
    <3> QED BY <1>2, <2>3, <3>1, <3>2, <3>3 DEF Pooled, Inv, TypeOK
  <2> QED BY <1>6, <2>1, <2>2, <2>3 DEF ChainGoesOn
<1> QED BY <1>2, <1>5, <1>8, <1>9, <1>10, ChainKeeps

(* A transaction is dropped. *)
LEMMA DropKeeps ==
  ASSUME Inv, NEW t \in pool, Drop(t) PROVE Inv'
<1>1. /\ pool' = pool \ {t}
      /\ UNCHANGED <<kind, session, screen, busy, job, contacts, sequence, blocks,
                     denom, seen, twice>>
  BY DEF Drop
<1>2. Included' = Included /\ Done' = Done BY <1>1 DEF Included, Done
<1>3. SentTxs' \subseteq SentTxs BY <1>1, <1>2 DEF SentTxs
<1>4. TypeOK' BY <1>1 DEF Inv, TypeOK, screen
<1>5. SentOnce'
  <2>1. IsFiniteSet(pool') BY <1>1, FS_Subset DEF Inv, SentOnce
  <2> QED BY <1>1, <1>2, <1>3, <2>1 DEF Inv, SentOnce
<1>6. ASSUME NEW g \in Handlers PROVE ChainGoesOn(g)
  <2>1. Lives(g)' => Lives(g) BY <1>1, <1>2 DEF Lives
  <2>2. Account(g)' = Account(g) BY <1>1 DEF Account, Flow
  <2>3. Pooled(Account(g)) = {} => Pooled(Account(g))' = {} BY <1>1, <2>2 DEF Pooled
  <2> QED BY <1>1, <1>2, <2>1, <2>3 DEF ChainGoesOn
<1> QED BY <1>1, <1>3, <1>4, <1>5, <1>6, ChainKeeps

-----------------------------------------------------------------------------
(* The user *)

(* What the user does on the page is nothing to the handlers and to the chain. *)
LEMMA UserKeeps ==
  ASSUME Inv, UNCHANGED <<kind, session, job, contacts, chain, seen, twice>>,
         TypeOK', ScreenFits', OneAtATime'
  PROVE  Inv'
<1>1. UNCHANGED <<pool, blocks, sequence>> BY DEF chain
<1>2. Included' = Included /\ Done' = Done /\ SentTxs' = SentTxs
  BY <1>1 DEF Included, Done, SentTxs
<1>3. SentOnce' /\ Payers' BY <1>1, <1>2 DEF Inv, SentOnce, Payers
<1>4. \A g \in Handlers : Lives(g)' <=> Lives(g) BY <1>1, <1>2 DEF Lives
<1>5. ASSUME NEW g \in Handlers PROVE HandlerFits(g)'
  <2>1. Alike(job[g], job'[g]) BY DEF Alike
  <2>2. Account(g)' = Account(g) BY DEF Account, Flow
  <2>3. Pooled(Account(g))' = Pooled(Account(g)) BY <1>1, <2>2 DEF Pooled
  <2>4. ChainGoesOn(g) BY <1>1, <1>2, <1>4, <2>3 DEF ChainGoesOn
  <2>5. SeenKept BY DEF SeenKept
  <2> QED BY <2>1, <2>4, <2>5, OthersKept DEF Inv
<1>6. ClickedAgain' BY <1>4 DEF Inv, ClickedAgain, Clicked
<1> QED BY <1>3, <1>5, <1>6 DEF Inv

(* The clicks so far. *)
LEMMA ClicksCounted ==
  ASSUME Inv
  PROVE  Cardinality(Clicked) \in Nat /\ Clicked = 1..Cardinality(Clicked)
<1>1. Handlers = 1..MaxClicks /\ MaxClicks \in Nat BY ConstantsAssumption DEF Handlers
<1>2. IsFiniteSet(Handlers) BY <1>1, FS_Interval
<1>3. IsFiniteSet(Clicked) BY <1>2, FS_Subset DEF Clicked
<1> QED BY <1>3, FS_CardinalityType DEF Inv, ScreenFits

(* Another page is opened. *)
LEMMA OpenPageKeeps ==
  ASSUME Inv, OpenPage PROVE Inv'
<1>1. Cardinality(Clicked) \in Nat BY ClicksCounted
<1>2. TypeOK' BY <1>1 DEF OpenPage, Inv, TypeOK, chain
<1>3. Clicked' = Clicked BY DEF OpenPage, Clicked
<1>4. ScreenFits'
  <2>1. dialog' <= Cardinality(Clicked') /\ Clicked' = 1..Cardinality(Clicked')
        /\ mount' <= Cardinality(Clicked') /\ view' = "form" /\ page' = session'
    BY <1>1, <1>3 DEF OpenPage, Inv, ScreenFits
  <2>2. \A g \in Clicked' : job'[g].mount < g /\ job'[g].dialog < g
    BY <1>3 DEF OpenPage, Inv, ScreenFits
  <2> QED BY <2>1, <2>2 DEF ScreenFits
<1>5. ASSUME NEW g \in Handlers, Running(g) PROVE ~Here(g)'
  <2>1. g \in Clicked BY <1>5 DEF Clicked, Running
  <2>2. job[g].mount < g /\ g \in 1..Cardinality(Clicked) /\ job[g].mount \in Nat
    BY <2>1, ClicksCounted, JobTyped DEF Inv, ScreenFits, JobSet
  <2>3. job'[g].mount # mount' BY <1>1, <2>2 DEF OpenPage
  <2> QED BY <2>3 DEF Here
<1>6. \A g \in Handlers : (Running(g)' <=> Running(g)) /\ job'[g] = job[g]
  BY DEF OpenPage, Running
<1>7. OneAtATime' BY <1>5, <1>6 DEF Inv, OneAtATime, OpenPage
<1> QED BY <1>2, <1>4, <1>7, UserKeeps DEF OpenPage

(* The page is left. *)
LEMMA LeavePageKeeps ==
  ASSUME Inv, LeavePage PROVE Inv'
<1>1. TypeOK' BY DEF LeavePage, Inv, TypeOK, chain
<1>2. Clicked' = Clicked BY DEF LeavePage, Clicked
<1>3. ScreenFits' BY <1>2 DEF LeavePage, Inv, ScreenFits
<1>4. \A g \in Handlers : ~Here(g)' /\ (Running(g)' <=> Running(g)) /\ job'[g] = job[g]
  BY DEF LeavePage, Here, Running
<1>5. OneAtATime' BY <1>4 DEF Inv, OneAtATime, LeavePage
<1> QED BY <1>1, <1>3, <1>5, UserKeeps DEF LeavePage

(* Where the page and the handlers stay as they are, there is still one at a time. *)
LEMMA OneStays ==
  ASSUME Inv, UNCHANGED <<page, mount, busy, job, contacts, twice>>
  PROVE  OneAtATime' /\ Clicked' = Clicked
<1>1. \A g \in Handlers : (Running(g)' <=> Running(g)) /\ (Here(g)' <=> Here(g))
  BY DEF Running, Here
<1> QED BY <1>1 DEF Inv, OneAtATime, Clicked

(* A confirmation is shown: nobody has clicked on this one. *)
LEMMA ConfirmationFits ==
  ASSUME Inv, ShowConfirmation, page # NoWallet,
         UNCHANGED <<kind, session, busy, job, contacts, chain, seen, twice>>
  PROVE  Inv'
<1>1. Cardinality(Clicked) \in Nat BY ClicksCounted
<1>2. /\ view' = "confirm" /\ dialog' = Cardinality(Clicked)
      /\ checking' = (kind = "mint") /\ UNCHANGED <<page, mount, box, known>>
  BY DEF ShowConfirmation
<1>3. TypeOK'
  <2>1. checking' \in BOOLEAN BY <1>2
  <2> QED BY <1>1, <1>2, <2>1 DEF Inv, TypeOK, chain
<1>4. OneAtATime' /\ Clicked' = Clicked BY <1>2, OneStays
<1>5. \A g \in Clicked : job[g].mount < g /\ job[g].dialog < g /\ job[g].dialog \in Nat
                         /\ g \in 1..Cardinality(Clicked)
  BY ClicksCounted, JobTyped DEF Inv, ScreenFits, JobSet, Clicked
<1>6. \A g \in Clicked : job[g].dialog # dialog' BY <1>1, <1>2, <1>5
<1>7. ScreenFits'
  <2>1. dialog' <= Cardinality(Clicked) BY <1>1, <1>2
  <2> QED BY <1>2, <1>4, <1>6, <2>1 DEF Inv, ScreenFits
<1> QED BY <1>3, <1>4, <1>7, UserKeeps

(* The form is sent, with a password or without. *)
LEMMA SubmitKeeps ==
  ASSUME Inv, Submit PROVE Inv'
<1>1. page # NoWallet /\ UNCHANGED <<kind, session, busy, job, contacts, chain, seen, twice>>
  BY DEF Submit
<1>2. CASE ShowConfirmation BY <1>1, <1>2, ConfirmationFits
<1>3. CASE view' = "password" /\ UNCHANGED <<page, mount, dialog, box, known, checking>>
  <2>1. TypeOK' BY <1>1, <1>3 DEF Inv, TypeOK, chain
  <2>2. OneAtATime' /\ Clicked' = Clicked BY <1>1, <1>3, OneStays
  <2>3. ScreenFits' BY <1>1, <1>3, <2>2 DEF Inv, ScreenFits
  <2> QED BY <1>1, <2>1, <2>2, <2>3, UserKeeps
<1> QED BY <1>2, <1>3 DEF Submit

(* The dialogs are left, and the answers come. *)
LEMMA DialogsKeep ==
  ASSUME Inv, CancelPassword \/ Cancel \/ DenomAnswered \/ Dismiss
  PROVE  Inv'
<1>1. /\ UNCHANGED <<kind, session, page, mount, dialog, busy, job, contacts, chain, seen,
                     twice>>
      /\ view' = view \/ view' = "form"
  BY DEF CancelPassword, Cancel, DenomAnswered, Dismiss
<1>2. TypeOK'
  <2>1. known' \in BOOLEAN /\ checking' \in BOOLEAN
        /\ box' \in {"none", "success", "timeout", "error"}
    BY DEF CancelPassword, Cancel, DenomAnswered, Dismiss, Inv, TypeOK
  <2> QED BY <1>1, <2>1 DEF Inv, TypeOK, chain
<1>3. OneAtATime' /\ Clicked' = Clicked BY <1>1, OneStays
<1>4. ScreenFits' BY <1>1, <1>3 DEF Inv, ScreenFits
<1> QED BY <1>1, <1>2, <1>3, <1>4, UserKeeps

(* The user switches wallets while a transaction is on its way. *)
LEMMA SwitchWalletKeeps ==
  ASSUME Inv, NEW w \in Wallets, SwitchWallet(w) PROVE Inv'
<1>1. /\ page = NoWallet /\ session' = w
      /\ job' = [h \in Handlers |-> IF Running(h) THEN [job[h] EXCEPT !.moved = TRUE]
                                     ELSE job[h]]
      /\ UNCHANGED <<kind, screen, busy, contacts, chain, seen, twice>>
  BY DEF SwitchWallet
<1>2. UNCHANGED <<pool, blocks, sequence, denom>> BY <1>1 DEF chain
<1>3. ASSUME NEW g \in Handlers
      PROVE  /\ job'[g] \in JobSet /\ Alike(job[g], job'[g])
             /\ ~Running(g) \/ job'[g].moved
  <2>1. job[g] \in JobSet BY JobTyped
  <2>2. CASE Running(g)
    <3>1. job'[g] = [job[g] EXCEPT !.moved = TRUE] BY <1>1, <2>2
    <3> QED BY <2>1, <3>1 DEF JobSet, Alike
  <2>3. CASE ~Running(g)
    <3>1. job'[g] = job[g] BY <1>1, <2>3
    <3> QED BY <2>1, <2>3, <3>1 DEF Alike
  <2> QED BY <2>2, <2>3
<1>4. TypeOK'
  <2>1. job' \in [Handlers -> JobSet] BY <1>1, <1>3
  <2> QED BY <1>1, <1>2, <2>1 DEF Inv, TypeOK, screen
<1>5. Included' = Included /\ Done' = Done /\ SentTxs' = SentTxs
  BY <1>2 DEF Included, Done, SentTxs
<1>6. \A t \in SentTxs : t.by \in Handlers BY DEF SentTxs, Included, Inv, TypeOK, TxSet
<1>7. SentOnce' BY <1>2, <1>3, <1>5, <1>6 DEF Inv, SentOnce, Alike
<1>8. Payers' BY <1>3, <1>5, <1>6 DEF Inv, Payers, Alike
<1>9. \A g \in Handlers : Lives(g)' <=> Lives(g) BY <1>2, <1>5 DEF Lives
<1>10. ASSUME NEW g \in Handlers PROVE HandlerFits(g)'
  <2>1. Account(g)' = Account(g) BY <1>1, <1>3 DEF Account, Flow, Alike
  <2>2. Pooled(Account(g))' = Pooled(Account(g)) BY <1>2, <2>1 DEF Pooled
  <2>3. ChainGoesOn(g) BY <1>2, <1>5, <1>9, <2>2 DEF ChainGoesOn
  <2>4. SeenKept BY <1>1 DEF SeenKept
  <2>5. HandlerFits(g) /\ kind' = kind BY <1>1 DEF Inv
  <2> QED BY <1>3, <2>3, <2>4, <2>5, OthersKept
<1>11. ScreenFits' /\ OneAtATime' /\ ClickedAgain'
  <2>1. \A g \in Handlers : Quiet(job[g], job'[g]) BY <1>3 DEF Quiet, Alike
  <2> QED BY <1>1, <1>9, <2>1, ScreenSame DEF Inv
<1> QED BY <1>4, <1>7, <1>8, <1>10, <1>11 DEF Inv

(* Nobody sends for a click that has not come. *)
LEMMA NotClickedYet ==
  ASSUME Inv, NEW h \in Handlers, job[h].pc = "idle"
  PROVE  (\A t \in SentTxs : t.by # h) /\ ~Lives(h)
<1>1. \A t \in SentTxs : t.by # h BY DEF Inv, SentOnce
<1>2. Done \subseteq SentTxs /\ pool \subseteq SentTxs BY DEF Done, SentTxs, Included
<1> QED BY <1>1, <1>2 DEF Lives

(* Where "Confirm" is clicked. *)
LEMMA ClickKeeps ==
  ASSUME Inv, NEW h \in Handlers, Click(h) PROVE Inv'
<1> DEFINE c == Cardinality(Clicked)
<1>1. PICK spins \in (IF Form.saves THEN BOOLEAN ELSE {TRUE}) :
        Started(h, spins) /\ busy' = spins
  BY DEF Click
<1>2. ~busy /\ spins \in BOOLEAN /\ (Form.saves \/ spins) BY <1>1 DEF Click
<1>3. PICK pc0 \in {"find", "first"} :
        pc0 = IF Form.saves /\ ~spins THEN "find" ELSE "first"
  OBVIOUS
<1>4. PICK stage0 \in 1..2 : stage0 = IF kind = "mint" /\ ~known THEN 1 ELSE 2 OBVIOUS
<1> DEFINE n == [NoJob EXCEPT !.pc = pc0, !.dialog = dialog, !.mount = mount,
                              !.wallet = page, !.stage = stage0]
<1>5. /\ page # NoWallet /\ view = "confirm" /\ box = "none" /\ h = c + 1
      /\ job' = [job EXCEPT ![h] = n]
      /\ twice' = (twice \/ \E g \in Handlers : job[g].pc \in {"find", "add"})
      /\ UNCHANGED <<kind, session, screen, contacts, chain, seen>>
  BY <1>1, <1>3, <1>4 DEF Started
<1>6. /\ n \in JobSet /\ n.pc = pc0 /\ n.dialog = dialog /\ n.mount = mount
      /\ n.wallet = page /\ n.stage = stage0 /\ n.result = "none" /\ n.told = "none"
      /\ n.moved = FALSE /\ n.lost = FALSE /\ n.refused = FALSE /\ n.answered = FALSE
  BY <1>3, <1>4 DEF NoJob, JobSet, Steps, Inv, TypeOK
<1> HIDE DEF n
<1>7. c \in Nat /\ Clicked = 1..c BY ClicksCounted
<1> HIDE DEF c
<1>8. job[h].pc = "idle"
  <2>1. h \notin Clicked BY <1>5, <1>7
  <2> QED BY <2>1 DEF Clicked
<1>9. /\ job' \in [Handlers -> JobSet] /\ job'[h] = n
      /\ \A g \in Handlers \ {h} : job'[g] = job[g]
  BY <1>5, <1>6 DEF Inv, TypeOK
<1>10. UNCHANGED <<pool, blocks, sequence, denom, page, mount, view, dialog, box, known,
                   checking>>
  BY <1>5 DEF chain, screen
<1>11. Included' = Included /\ Done' = Done /\ SentTxs' = SentTxs
  BY <1>10 DEF Included, Done, SentTxs
<1>12. \A g \in Handlers : Lives(g)' <=> Lives(g) BY <1>10, <1>11 DEF Lives
<1>13. \A t \in SentTxs : t.by \in Handlers \ {h}
  <2>1. \A t \in SentTxs : t.by \in Handlers BY DEF SentTxs, Included, Inv, TypeOK, TxSet
  <2> QED BY <1>8, <2>1, NotClickedYet
<1>14. TypeOK'
  <2>1. busy' \in BOOLEAN BY <1>1, <1>2
  <2>2. twice' \in BOOLEAN BY <1>5
  <2> QED BY <1>5, <1>9, <1>10, <2>1, <2>2 DEF Inv, TypeOK
<1>15. SentOnce' BY <1>9, <1>10, <1>11, <1>13 DEF Inv, SentOnce
<1>16. Payers' BY <1>9, <1>11, <1>13 DEF Inv, Payers
<1>17. ASSUME NEW g \in Handlers \ {h} PROVE HandlerFits(g)'
  <2>1. Alike(job[g], job'[g]) BY <1>9 DEF Alike
  <2>2. Account(g)' = Account(g) BY <1>5, <1>9 DEF Account, Flow
  <2>3. Pooled(Account(g))' = Pooled(Account(g)) BY <1>10, <2>2 DEF Pooled
  <2>4. ChainGoesOn(g) BY <1>10, <1>11, <1>12, <2>3 DEF ChainGoesOn
  <2>5. SeenKept BY <1>5 DEF SeenKept
  <2>6. HandlerFits(g) /\ kind' = kind /\ session' = session BY <1>5 DEF Inv
  <2> QED BY <2>1, <2>4, <2>5, <2>6, OthersKept
<1>18. HandlerFits(h)'
  <2>1. ResultFits(h)' BY <1>3, <1>4, <1>5, <1>6, <1>9 DEF ResultFits, EarlySteps
  <2>2. page \in Wallets /\ session = page BY <1>5 DEF Inv, TypeOK, ScreenFits
  <2>3. ReadingFits(h)' BY <1>3, <1>5, <1>6, <1>9, <2>2 DEF ReadingFits, Running, Readings
  <2>4. NumberFits(h)' BY <1>3, <1>6, <1>9 DEF NumberFits
  <2>5. ListsFit(h)' BY <1>3, <1>6, <1>9 DEF ListsFit
  <2> QED BY <2>1, <2>3, <2>4, <2>5 DEF HandlerFits
<1>19. Clicked' = Clicked \cup {h} BY <1>3, <1>6, <1>9 DEF Clicked
<1>20. Clicked' = 1..(c + 1) /\ Cardinality(Clicked') = c + 1
  <2>1. Clicked' = 1..(c + 1) BY <1>5, <1>7, <1>19
  <2>2. Cardinality(1..(c + 1)) = c + 1 BY <1>7, FS_Interval
  <2> QED BY <2>1, <2>2
<1>21. mount \in Nat /\ dialog \in Nat /\ mount <= c /\ dialog <= c
  BY DEF Inv, TypeOK, ScreenFits, c
<1>22. ScreenFits'
  <2>1. mount' <= Cardinality(Clicked') /\ dialog' <= Cardinality(Clicked')
    BY <1>7, <1>10, <1>20, <1>21
  <2>2. ASSUME NEW g \in Clicked' PROVE job'[g].mount < g /\ job'[g].dialog < g
    <3>1. CASE g = h BY <1>5, <1>6, <1>7, <1>9, <1>21, <3>1
    <3>2. CASE g # h
      <4>1. g \in Clicked /\ g \in Handlers BY <1>19, <3>2 DEF Clicked
      <4> QED BY <1>9, <3>2, <4>1 DEF Inv, ScreenFits
    <3> QED BY <3>1, <3>2
  <2>3. ASSUME NEW g \in Clicked', job'[g].dialog = dialog
        PROVE  /\ job'[g].mount = mount
               /\ job'[g].pc = "over" => job'[g].result \in {"error", "timeout"}
    <3>1. CASE g = h BY <1>3, <1>6, <1>9, <3>1
    <3>2. CASE g # h
      <4>1. g \in Clicked /\ g \in Handlers BY <1>19, <3>2 DEF Clicked
      <4> QED BY <1>5, <1>9, <2>3, <3>2, <4>1 DEF Inv, ScreenFits
    <3> QED BY <3>1, <3>2
  <2>4. Clicked' = 1..Cardinality(Clicked') BY <1>20
  <2>5. page = session BY <1>5 DEF Inv, ScreenFits
  <2> QED BY <1>5, <1>10, <2>1, <2>2, <2>3, <2>4, <2>5 DEF ScreenFits
<1>23. CASE twice' BY <1>14, <1>15, <1>16, <1>17, <1>18, <1>22, <1>23
         DEF Inv, OneAtATime, ClickedAgain
<1>24. CASE ~twice'
  <2>1. ~twice /\ \A g \in Handlers : job[g].pc \notin {"find", "add"} BY <1>5, <1>24
  <2>2. contacts <= 1 /\ \A g \in Handlers : ~(Running(g) /\ Here(g))
    BY <1>2, <2>1 DEF Inv, OneAtATime
  <2>3. \A g \in Handlers \ {h} : ~(Running(g)' /\ Here(g)')
    BY <1>9, <1>10, <2>2 DEF Running, Here
  <2>4. \A g \in Handlers \ {h} : job'[g].pc \notin {"find", "add"} BY <1>9, <2>1
  <2>5. busy' \/ job'[h].pc \in {"find", "add"} BY <1>1, <1>2, <1>3, <1>6, <1>9
  <2>6. OneAtATime'
    <3>1. contacts' <= 1 /\ \A g \in Handlers : job'[g].pc # "add"
      BY <1>3, <1>5, <1>6, <1>9, <2>2, <2>4
    <3> QED BY <2>3, <2>4, <2>5, <3>1 DEF OneAtATime
  <2>7. ASSUME NEW f \in Clicked', NEW g \in Clicked', f < g,
               job'[f].dialog = job'[g].dialog
        PROVE  job'[f].pc = "over" /\ (job'[f].lost \/ ~Lives(f)')
    <3>1. f # h /\ f \in Clicked /\ f \in Handlers
      BY <1>5, <1>7, <1>19, <1>20, <2>7 DEF Clicked
    <3>2. CASE g = h
      <4>1. job[f].dialog = dialog BY <1>6, <1>9, <2>7, <3>1, <3>2
      <4>2. job[f].mount = mount
            /\ (job[f].pc = "over" => job[f].result \in {"error", "timeout"})
        BY <1>5, <3>1, <4>1 DEF Inv, ScreenFits
      <4>3. job[f].pc = "over" BY <1>5, <2>2, <3>1, <4>2 DEF Here, Running, Clicked
      <4>4. ResultFits(f) BY <3>1, Untold
      <4>5. job[f].lost \/ ~Lives(f) BY <4>2, <4>3, <4>4 DEF ResultFits
      <4> QED BY <1>9, <1>12, <3>1, <4>3, <4>5
    <3>3. CASE g # h
      <4>1. g \in Clicked /\ g \in Handlers BY <1>19, <3>3 DEF Clicked
      <4> QED BY <1>9, <1>12, <2>1, <2>7, <3>1, <3>3, <4>1 DEF Inv, ClickedAgain
    <3> QED BY <3>2, <3>3
  <2>8. ClickedAgain' BY <2>7 DEF ClickedAgain
  <2>9. \A g \in Handlers : HandlerFits(g)' BY <1>17, <1>18
  <2> QED BY <1>14, <1>15, <1>16, <1>22, <2>6, <2>8, <2>9 DEF Inv
<1> QED BY <1>23, <1>24

-----------------------------------------------------------------------------
(* The invariant *)

(* Nobody has clicked yet. *)
LEMMA InitInv == ASSUME Init PROVE Inv
<1>1. /\ kind \in Kinds /\ session \in Wallets /\ page = NoWallet /\ mount = 0
      /\ view = "form" /\ dialog = 0 /\ busy = FALSE /\ box = "none"
      /\ job = [h \in Handlers |-> NoJob] /\ known = FALSE /\ checking = FALSE
      /\ contacts = 0 /\ sequence = [w \in Accounts |-> 0] /\ pool = {} /\ blocks = {}
      /\ denom \in BOOLEAN /\ seen = [w \in Wallets |-> [l \in Lists |-> {}]]
      /\ twice = FALSE
  BY DEF Init
<1>2. NoJob \in JobSet
  <2>1. PICK two \in 1..2 : two = 2 OBVIOUS
  <2>2. NoJob = [pc |-> "idle", dialog |-> 0, mount |-> 0, wallet |-> NoWallet,
                 first |-> NoWallet, second |-> NoWallet, number |-> 0, stage |-> two,
                 result |-> "none", told |-> "none", moved |-> FALSE,
                 overtaken |-> FALSE, lost |-> FALSE, refused |-> FALSE,
                 answered |-> FALSE]
    BY <2>1 DEF NoJob
  <2> QED BY <2>2 DEF JobSet, Steps
<1>3. /\ NoJob.pc = "idle" /\ NoJob.result = "none" /\ NoJob.told = "none"
      /\ NoJob.stage = 2 /\ NoJob.lost = FALSE /\ NoJob.refused = FALSE
      /\ NoJob.answered = FALSE
  BY DEF NoJob
<1>4. \A h \in Handlers : job[h] = NoJob BY <1>1
<1>5. Clicked = {} BY <1>3, <1>4 DEF Clicked
<1>6. Cardinality(Clicked) = 0 BY <1>5, FS_EmptySet
<1>7. Included = {} /\ Done = {} /\ SentTxs = {} BY <1>1 DEF Included, Done, SentTxs
<1>8. TypeOK
  <2>1. job \in [Handlers -> JobSet] BY <1>1, <1>2
  <2>2. sequence \in [Accounts -> Nat] BY <1>1
  <2>3. seen \in [Wallets -> [Lists -> SUBSET TxSet]] BY <1>1
  <2> QED BY <1>1, <2>1, <2>2, <2>3 DEF TypeOK
<1>9. SentOnce /\ Payers BY <1>1, <1>7, FS_EmptySet DEF SentOnce, Payers
<1>10. ASSUME NEW h \in Handlers PROVE HandlerFits(h)
  <2>1. job[h] = NoJob BY <1>4
  <2>2. ResultFits(h) BY <1>3, <2>1 DEF ResultFits, EarlySteps
  <2>3. ReadingFits(h) BY <1>3, <2>1 DEF ReadingFits, Running, Readings
  <2>4. NumberFits(h) BY <1>3, <2>1 DEF NumberFits
  <2>5. ListsFit(h) BY <1>3, <2>1 DEF ListsFit
  <2> QED BY <2>2, <2>3, <2>4, <2>5 DEF HandlerFits
<1>11. ScreenFits BY <1>1, <1>5, <1>6 DEF ScreenFits
<1>12. OneAtATime
  <2>1. \A h \in Handlers : ~Running(h) /\ job[h].pc = "idle" BY <1>3, <1>4 DEF Running
  <2> QED BY <1>1, <2>1 DEF OneAtATime
<1>13. ClickedAgain BY <1>5 DEF ClickedAgain
<1> QED BY <1>8, <1>9, <1>10, <1>11, <1>12, <1>13 DEF Inv

(* Every step keeps it. *)
LEMMA NextInv == ASSUME Inv, Next PROVE Inv'
<1>1. CASE OpenPage BY <1>1, OpenPageKeeps
<1>2. CASE LeavePage BY <1>2, LeavePageKeeps
<1>3. CASE Submit BY <1>3, SubmitKeeps
<1>4. CASE Decrypted BY <1>4, ConfirmationFits DEF Decrypted
<1>5. CASE CancelPassword \/ Cancel \/ DenomAnswered \/ Dismiss BY <1>5, DialogsKeep
<1>6. CASE \E w \in Wallets : SwitchWallet(w) BY <1>6, SwitchWalletKeeps
<1>7. ASSUME NEW h \in Handlers, Click(h) PROVE Inv' BY <1>7, ClickKeeps
<1>8. ASSUME NEW h \in Handlers, HandlerStep(h) PROVE Inv'
  <2>1. CASE FindContact(h) \/ AddContact(h)
    BY <2>1, FindContactKeeps, AddContactKeeps
  <2>2. CASE ReadSession(h) \/ PrepareTransaction(h) \/ ReadAccount(h) \/ ReadSigner(h)
    BY <2>2, ReadSessionKeeps, PrepareTransactionKeeps, ReadAccountKeeps, ReadSignerKeeps
  <2>3. CASE Sign(h) \/ SignFails(h) BY <2>3, SignKeeps, SignFailsKeeps
  <2>4. CASE Accepted(h) \/ Refused(h) BY <2>4, AcceptedKeeps, RefusedKeeps
  <2>5. CASE Poll(h) \/ PollFails(h) BY <2>5, PollKeeps, PollFailsKeeps
  <2>6. CASE RefreshBefore(h) \/ RefreshAfter(h)
    BY <2>6, RefreshBeforeKeeps, RefreshAfterKeeps
  <2>7. CASE Show(h) BY <2>7, ShowKeeps
  <2> QED BY <1>8, <2>1, <2>2, <2>3, <2>4, <2>5, <2>6, <2>7 DEF HandlerStep
<1>9. ASSUME NEW t \in pool, Include(t) \/ Drop(t) PROVE Inv'
  BY <1>9, IncludeKeeps, DropKeeps
<1> QED BY <1>1, <1>2, <1>3, <1>4, <1>5, <1>6, <1>7, <1>8, <1>9 DEF Next

(* Where nothing happens it still holds. *)
LEMMA StutterInv == ASSUME Inv, UNCHANGED vars PROVE Inv'
<1>1. UNCHANGED <<kind, session, job, contacts, chain, seen, twice>>
      /\ UNCHANGED <<page, mount, view, dialog, busy, box, known, checking>>
  BY DEF vars, chain
<1>2. TypeOK' BY <1>1 DEF Inv, TypeOK, chain
<1>3. OneAtATime' /\ Clicked' = Clicked BY <1>1, OneStays
<1>4. ScreenFits' BY <1>1, <1>3 DEF Inv, ScreenFits
<1> QED BY <1>1, <1>2, <1>3, <1>4, UserKeeps

(* From the form to the dialog with the result: what was read, what was sent, what has
   become of it and what the user is told of it agree at every step. *)
THEOREM SendingIsSound == Spec => []Inv
<1>1. Init => Inv BY InitInv
<1>2. Inv /\ [Next]_vars => Inv' BY NextInv, StutterInv
<1> QED BY <1>1, <1>2, PTL DEF Spec

(* Every state is well-typed. *)
THEOREM SendingTyped == Spec => []TypeOK
<1>1. Inv => TypeOK BY DEF Inv
<1> QED BY <1>1, SendingIsSound, PTL

-----------------------------------------------------------------------------
(* What it means for the user *)

(* A click whose transaction counts is one that a later click on the same confirmation can
   only follow when it was lost, or while its contact was saved. *)
LEMMA PaidOnce ==
  ASSUME Inv, NEW g \in Handlers, NEW h \in Handlers, g < h,
         job[g].dialog = job[h].dialog, Lives(g), Lives(h)
  PROVE  twice \/ job[g].lost
<1>1. g \in Clicked /\ h \in Clicked BY NotClickedYet DEF Clicked
<1> QED BY <1>1 DEF Inv, ClickedAgain

(* One confirmation pays at most once and saves its contact once: nobody pays a second time
   by clicking again, but for the form that saves a contact first and for a transaction
   that nobody could be told about. *)
THEOREM PaysOnce == Spec => []OnePaymentPerDialog
<1>1. ASSUME Inv PROVE OnePaymentPerDialog
  <2>1. contacts <= 1 \/ twice BY <1>1 DEF Inv, OneAtATime
  <2>2. ASSUME NEW g \in Handlers, NEW h \in Handlers, g # h,
               job[g].dialog = job[h].dialog, Lives(g), Lives(h)
        PROVE  twice \/ job[g].lost \/ job[h].lost
    <3>1. g < h \/ h < g BY <2>2, ConstantsAssumption DEF Handlers
    <3> QED BY <1>1, <2>2, <3>1, PaidOnce
  <2> QED BY <2>1, <2>2 DEF OnePaymentPerDialog
<1> QED BY <1>1, SendingIsSound, PTL

(* "Success" is said of a transaction that is in a block, or that an EVM node has taken, and
   an error of one that does not run, unless its answer was lost. *)
THEOREM TellsTheTruth == Spec => []ToldTheTruth
<1>1. ASSUME Inv PROVE ToldTheTruth
  <2>1. SUFFICES ASSUME NEW h \in Handlers
                 PROVE  /\ job[h].told = "success" =>
                             \/ \E t \in Done : t.by = h /\ t.stage = 2
                             \/ FlowOf(kind).node = "evm" /\ ~job[h].lost
                             \/ ~Dialog.tells /\ job[h].result = "timeout"
                        /\ job[h].told = "error" /\ Lives(h) => job[h].lost
    BY DEF ToldTheTruth
  <2>2. ResultFits(h) BY <1>1, Untold
  <2>3. job[h].told \in {"success", "error"} =>
          job[h].pc = "over" /\ job[h].told = Tells(h)
    BY <2>2 DEF ResultFits
  <2>4. ASSUME job[h].told = "success"
        PROVE  \/ \E t \in Done : t.by = h /\ t.stage = 2
               \/ FlowOf(kind).node = "evm" /\ ~job[h].lost
               \/ ~Dialog.tells /\ job[h].result = "timeout"
    <3>1. job[h].pc = "over" /\ Tells(h) = "success" BY <2>3, <2>4
    <3>2. job[h].result \in {"hash", "timeout", "error"} BY <2>2, <3>1 DEF ResultFits
    <3>3. CASE job[h].result = "error" BY <3>1, <3>3 DEF Tells
    <3>4. CASE job[h].result = "timeout" BY <3>1, <3>4 DEF Tells
    <3>5. CASE job[h].result = "hash"
      <4>1. job[h].stage = 2 BY <2>2, <3>1, <3>5 DEF ResultFits
      <4>2. Flow(h) = FlowOf(kind) BY <4>1 DEF Flow
      <4> QED BY <2>2, <3>5, <4>1, <4>2 DEF ResultFits
    <3> QED BY <3>2, <3>3, <3>4, <3>5
  <2>5. ASSUME job[h].told = "error", Lives(h) PROVE job[h].lost
    <3>1. job[h].pc = "over" /\ Tells(h) = "error" BY <2>3, <2>5
    <3>2. job[h].result \in {"hash", "timeout", "error"} BY <2>2, <3>1 DEF ResultFits
    <3>3. job[h].result = "error" BY <3>1, <3>2 DEF Tells
    <3> QED BY <2>2, <2>5, <3>3 DEF ResultFits
  <2> QED BY <2>4, <2>5
<1> QED BY <1>1, SendingIsSound, PTL

(* The wallet of the confirmation pays, and the node refuses nothing that is its own, unless
   the user has switched wallets or another transaction of the account came between. *)
THEOREM TheConfirmedPays == Spec => []PaidByTheConfirmed
<1>1. ASSUME Inv PROVE PaidByTheConfirmed
  <2>1. \A h \in Handlers : job[h].refused => job[h].moved \/ job[h].overtaken
    BY <1>1, Untold DEF NumberFits
  <2>2. \A t \in SentTxs : \/ t.payer = job[t.by].wallet
                           \/ t.payer \in Ledgers \cup {DeviceFirst} /\ job[t.by].moved
    BY <1>1 DEF Inv, Payers
  <2> QED BY <2>1, <2>2 DEF PaidByTheConfirmed, SentTxs, Included
<1> QED BY <1>1, SendingIsSound, PTL

(* The transfer of an NFT changes the lists that are left stale after it. *)
LEMMA NftChanges ==
  ASSUME NEW onLedger \in BOOLEAN
  PROVE  Changes(Messages("nft", onLedger)) \subseteq {"nfts", "nftAccountTxs"}
<1>1. FlowOf("nft").node = "tendermint" BY DEF FlowOf, NftFlow
<1>2. SoftMessages("nft") = SoftNfts["nft"] /\ LedgerMessages("nft") = LedgerNfts["nft"]
  BY SoftDomains, LedgerDomains DEF SoftMessages, LedgerMessages
<1>3. SoftNfts["nft"] = {"MsgTransferNFT"} /\ LedgerNfts["nft"] = {"MsgTransferNFT"}
  BY DEF SoftNfts, LedgerNfts
<1>4. Messages("nft", onLedger) = {"MsgTransferNFT"} BY <1>1, <1>2, <1>3 DEF Messages
<1> QED BY <1>4 DEF Changes

(* When the user is told of success, the saved lists show what the transaction has changed,
   but for the lists the application leaves stale until the next sync. *)
THEOREM ShowsWhatIsSent == Spec => []SeenAfterSend
<1>1. ASSUME Inv PROVE SeenAfterSend
  <2>1. SUFFICES ASSUME NEW h \in Handlers, job[h].told = "success",
                        job[h].result = "hash", job[h].answered, ~job[h].moved,
                        NEW t \in Done, t.by = h, t.stage = 2,
                        NEW l \in (Lists \ LeftStale)
                                    \cap Changes(Messages(kind, t.payer \in Ledgers))
                 PROVE  t \in seen[t.payer][l]
    BY DEF SeenAfterSend, Shown
  <2>2. job[h].pc = "over" /\ ListsFit(h)
    <3>1. ResultFits(h) /\ ListsFit(h) BY <1>1, Untold
    <3> QED BY <2>1, <3>1 DEF ResultFits
  <2>3. t.payer \in Wallets
    <3>1. t \in SentTxs BY DEF Done, SentTxs, Included
    <3> QED BY <1>1, <2>1, <3>1 DEF Inv, Payers
  <2>4. kind \in Kinds BY <1>1 DEF Inv, TypeOK
  <2>5. CASE Refreshes
    <3>1. l \in FlowOf(kind).after
      <4>1. (t.payer \in Ledgers) \in BOOLEAN OBVIOUS
      <4> QED BY <2>4, <2>5, <4>1, RefreshCovers
    <3> QED BY <2>1, <2>2, <2>3, <2>5, <3>1 DEF ListsFit
  <2>6. CASE kind = "nft"
    <3>1. LeftStale = {"nfts", "nftAccountTxs"}
      BY <2>6 DEF LeftStale, FlowOf, NftFlow
    <3>2. (t.payer \in Ledgers) \in BOOLEAN OBVIOUS
    <3> QED BY <2>6, <3>1, <3>2, NftChanges
  <2>7. CASE kind # "nft" /\ FlowOf(kind).node = "evm"
    <3>1. kind \notin {"restake", "restakeAll", "deposit", "proposal"}
      BY <2>7 DEF FlowOf, DelegateFlow, RestakeFlow, RestakeAllFlow, DepositFlow,
                  ProposalFlow
    <3>2. LeftStale = Lists BY <2>7, <3>1 DEF LeftStale
    <3> QED BY <3>2
  <2> QED BY <2>5, <2>6, <2>7 DEF Refreshes
<1> QED BY <1>1, SendingIsSound, PTL
=============================================================================
