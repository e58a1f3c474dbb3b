------------------------------ MODULE SendFlows ------------------------------
(***************************************************************************)
(* What TransactionSenderService, the signers and the forms do with each   *)
(* kind of transaction: one record per sending function, per group of      *)
(* signing functions and per form.  TransactionSend runs them.             *)
(***************************************************************************)
EXTENDS Functions, FiniteSets

(***************************************************************************)
(* A sending function.                                                     *)
(*   first   it reads the session itself before prepareTransaction does    *)
(*   from    whose address the message names: the wallet of the first or   *)
(*           the second reading, of the page, or of the key that signs     *)
(*   index   the reading a Ledger takes its path from                      *)
(*   node    tendermint waits for the block, evm for the acceptance        *)
(*   before  the lists it refreshes before it sends the transaction        *)
(*   after   the lists it refreshes after                                  *)
(***************************************************************************)
TransferFlow == [first |-> TRUE, from |-> "first", index |-> "second",
                 node |-> "tendermint", before |-> {}, after |-> {"balances"}]

\* The other signer takes the address from the phrase.
CosmosTransferFlow == [TransferFlow EXCEPT !.from = "key"]

EvmTransferFlow == [first |-> TRUE, from |-> "page", index |-> "first",
                    node |-> "evm", before |-> {}, after |-> {}]

TokenTransferFlow == [EvmTransferFlow EXCEPT !.from = "first"]

DelegateFlow == [first |-> FALSE, from |-> "second", index |-> "second",
                 node |-> "tendermint", before |-> {},
                 after |-> {"balances", "delegations", "rewards"}]

RestakeFlow == [DelegateFlow EXCEPT !.after = {"balances", "delegations"}]

RestakeAllFlow == [DelegateFlow EXCEPT !.after = {"balances", "delegations"}]

\* mutant: the refresh of the list that changes most is forgotten
UndelegateUnlisted == DelegateFlow

UndelegateFlow == [DelegateFlow EXCEPT !.after = @ \cup {"unbonding"}]

RedelegateFlow == DelegateFlow

VoteFlow == [DelegateFlow EXCEPT !.after = {"proposals"}]

DepositFlow == [DelegateFlow EXCEPT !.from = "page", !.after = {"proposals"}]

ProposalFlow == [DelegateFlow EXCEPT !.from = "page", !.after = {"proposals"}]

\* The lists are fetched again before the transaction is sent.
NftFlow == [first |-> TRUE, from |-> "page", index |-> "second", node |-> "tendermint",
            before |-> {"nfts", "nftAccountTxs"}, after |-> {}]

\* sendContractCallTransaction reads the session once more, to sign.
Nft721Flow == [first |-> TRUE, from |-> "page", index |-> "signing", node |-> "evm",
               before |-> {}, after |-> {"nfts", "nftAccountTxs"}]

WithdrawFlow == [DelegateFlow EXCEPT !.after = {"rewards", "balances"}]

WithdrawAllFlow == [DelegateFlow EXCEPT !.after = {"rewards", "balances"}]

MintFlow == [DelegateFlow EXCEPT !.from = "page", !.after = {"nfts", "nftAccountTxs"}]

IssueFlow == [DelegateFlow EXCEPT !.from = "page", !.after = {"nfts", "nftAccountTxs"}]

FlowOf(kind) ==
  CASE kind = "transfer"       -> TransferFlow
    [] kind = "cosmosTransfer" -> CosmosTransferFlow
    [] kind = "evmTransfer"    -> EvmTransferFlow
    [] kind = "tokenTransfer"  -> TokenTransferFlow
    [] kind = "delegate"       -> DelegateFlow
    [] kind = "undelegate"     -> UndelegateFlow
    [] kind = "redelegate"     -> RedelegateFlow
    [] kind = "withdraw"       -> WithdrawFlow
    [] kind = "withdrawAll"    -> WithdrawAllFlow
    [] kind = "restake"        -> RestakeFlow
    [] kind = "restakeAll"     -> RestakeAllFlow
    [] kind = "vote"           -> VoteFlow
    [] kind = "deposit"        -> DepositFlow
    [] kind = "proposal"       -> ProposalFlow
    [] kind = "nft"            -> NftFlow
    [] kind = "nft721"         -> Nft721Flow
    [] kind = "mint"           -> MintFlow
    [] kind = "issue"          -> IssueFlow

-----------------------------------------------------------------------------
(* The messages a transaction is signed with *)

SoftTransfer == [k \in {"transfer", "cosmosTransfer"} |-> {"MsgSend"}]

SoftGovernance ==
  [k \in {"vote", "deposit", "proposal"} |->
     CASE k = "vote" -> {"MsgVote"} [] k = "deposit" -> {"MsgDeposit"}
       [] k = "proposal" -> {"MsgSubmitProposal"}]

SoftNfts ==
  [k \in {"nft", "mint", "issue"} |->
     CASE k = "nft" -> {"MsgTransferNFT"} [] k = "mint" -> {"MsgMintNFT"}
       [] k = "issue" -> {"MsgIssueDenom"}]

SoftStaking ==
  [k \in {"delegate", "restake", "restakeAll", "withdraw", "withdrawAll"} |->
     (IF k \in {"delegate", "restake", "restakeAll"} THEN {"MsgDelegate"} ELSE {})
     \cup (IF k # "delegate" THEN {"MsgWithdraw"} ELSE {})]

SoftMoves == [k \in {"undelegate", "redelegate"} |->
                IF k = "undelegate" THEN {"MsgUndelegate"} ELSE {"MsgBeginRedelegate"}]

SoftMessages(kind) ==
  CASE kind \in DOMAIN SoftTransfer   -> SoftTransfer[kind]
    [] kind \in DOMAIN SoftGovernance -> SoftGovernance[kind]
    [] kind \in DOMAIN SoftNfts       -> SoftNfts[kind]
    [] kind \in DOMAIN SoftStaking    -> SoftStaking[kind]
    [] kind \in DOMAIN SoftMoves      -> SoftMoves[kind]

LedgerTransfer == [k \in {"transfer", "cosmosTransfer"} |-> {"MsgSend"}]

LedgerGovernance ==
  [k \in {"vote", "deposit", "proposal"} |->
     CASE k = "vote" -> {"MsgVote"} [] k = "deposit" -> {"MsgDeposit"}
       [] k = "proposal" -> {"MsgSubmitProposal"}]

LedgerStaking ==
  [k \in {"delegate", "restake", "restakeAll", "withdraw", "withdrawAll",
          "undelegate", "redelegate"} |->
     CASE k = "undelegate" -> {"MsgUndelegate"}
       [] k = "redelegate" -> {"MsgBeginRedelegate"}
       [] k = "delegate"   -> {"MsgDelegate"}
       [] k \in {"withdraw", "withdrawAll"} -> {"MsgWithdraw"}
       [] k \in {"restake", "restakeAll"}   -> {"MsgWithdraw", "MsgDelegate"}]

LedgerNfts ==
  [k \in {"nft", "mint", "issue"} |->
     CASE k = "nft" -> {"MsgTransferNFT"} [] k = "mint" -> {"MsgMintNFT"}
       [] k = "issue" -> {"MsgIssueDenom"}]

LedgerMessages(kind) ==
  CASE kind \in DOMAIN LedgerTransfer   -> LedgerTransfer[kind]
    [] kind \in DOMAIN LedgerGovernance -> LedgerGovernance[kind]
    [] kind \in DOMAIN LedgerNfts       -> LedgerNfts[kind]
    [] kind \in DOMAIN LedgerStaking    -> LedgerStaking[kind]

EvmMessages ==
  [k \in {"evmTransfer", "tokenTransfer", "nft721"} |->
     CASE k = "evmTransfer" -> {"value"} [] k = "tokenTransfer" -> {"transfer"}
       [] k = "nft721" -> {"safeTransferFrom"}]

Messages(kind, onLedger) ==
  IF FlowOf(kind).node = "evm" THEN EvmMessages[kind]
  ELSE IF onLedger THEN LedgerMessages(kind) ELSE SoftMessages(kind)

\* What a message changes on chain, as far as the wallet keeps a list of it; staking
\* pays out the rewards.  The fee, which every transaction takes from the balance, is
\* left out.
Changes(messages) == UNION
  {CASE m \in {"MsgSend", "value", "transfer"} -> {"balances"}
     [] m = "MsgDelegate"        -> {"balances", "delegations", "rewards"}
     [] m = "MsgBeginRedelegate" -> {"delegations", "rewards"}
     [] m = "MsgUndelegate"      -> {"balances", "delegations", "rewards", "unbonding"}
     [] m = "MsgWithdraw"        -> {"balances", "rewards"}
     [] m \in {"MsgDeposit", "MsgSubmitProposal"} -> {"balances", "proposals"}
     [] m \in {"MsgTransferNFT", "MsgMintNFT", "safeTransferFrom"} ->
          {"nfts", "nftAccountTxs"}
     [] OTHER -> {} : m \in messages}

-----------------------------------------------------------------------------
(***************************************************************************)
(* The handlers of a form.                                                 *)
(*   saves   the address is saved in the address book before the form      *)
(*           shows that it is busy                                         *)
(*   stays   the confirmation stays open when an error is shown            *)
(*   silent  it shows nothing when the node gives no hash                  *)
(***************************************************************************)
PlainForm == [saves |-> FALSE, stays |-> FALSE, silent |-> FALSE]

SendForm == [PlainForm EXCEPT !.saves = TRUE]

DelegateForm == PlainForm

OperationsForm == PlainForm

WithdrawForm == PlainForm

WithdrawAllForm == PlainForm

RestakeForm == PlainForm

RestakeAllForm == PlainForm

VoteForm == PlainForm

DepositForm == [PlainForm EXCEPT !.stays = TRUE, !.silent = TRUE]

ProposalForm == PlainForm

NftForm == [PlainForm EXCEPT !.stays = TRUE]

MintForm == PlainForm

FormOf(kind) ==
  CASE kind \in {"transfer", "cosmosTransfer", "evmTransfer", "tokenTransfer"} -> SendForm
    [] kind = "delegate"                   -> DelegateForm
    [] kind \in {"undelegate", "redelegate"} -> OperationsForm
    [] kind = "withdraw"                   -> WithdrawForm
    [] kind = "withdrawAll"                -> WithdrawAllForm
    [] kind = "restake"                    -> RestakeForm
    [] kind = "restakeAll"                 -> RestakeAllForm
    [] kind = "vote"                       -> VoteForm
    [] kind = "deposit"                    -> DepositForm
    [] kind = "proposal"                   -> ProposalForm
    [] kind \in {"nft", "nft721"}          -> NftForm
    [] kind = "mint"                       -> MintForm

(***************************************************************************)
(* The dialogs of a form.                                                  *)
(*   cancel  the confirmation can be closed while the transaction is sent  *)
(*   tells   the dialog of success tells a timeout from a success          *)
(***************************************************************************)
PlainDialog == [cancel |-> TRUE, tells |-> TRUE]

SendDialog == PlainDialog

DelegateDialog == PlainDialog

OperationsDialog == PlainDialog

WithdrawDialog == PlainDialog

WithdrawAllDialog == PlainDialog

RestakeDialog == PlainDialog

RestakeAllDialog == PlainDialog

VoteDialog == PlainDialog

DepositDialog == [PlainDialog EXCEPT !.cancel = FALSE]

ProposalDialog == [cancel |-> FALSE, tells |-> FALSE]

NftDialog == PlainDialog

MintDialog == [PlainDialog EXCEPT !.cancel = FALSE]

DialogOf(kind) ==
  CASE kind \in {"transfer", "cosmosTransfer", "evmTransfer", "tokenTransfer"} -> SendDialog
    [] kind = "delegate"                   -> DelegateDialog
    [] kind \in {"undelegate", "redelegate"} -> OperationsDialog
    [] kind = "withdraw"                   -> WithdrawDialog
    [] kind = "withdrawAll"                -> WithdrawAllDialog
    [] kind = "restake"                    -> RestakeDialog
    [] kind = "restakeAll"                 -> RestakeAllDialog
    [] kind = "vote"                       -> VoteDialog
    [] kind = "deposit"                    -> DepositDialog
    [] kind = "proposal"                   -> ProposalDialog
    [] kind \in {"nft", "nft721"}          -> NftDialog
    [] kind = "mint"                       -> MintDialog

Kinds ==
  {"transfer", "cosmosTransfer", "evmTransfer", "tokenTransfer", "delegate",
   "undelegate", "redelegate", "withdraw", "withdrawAll", "restake", "restakeAll",
   "vote", "deposit", "proposal", "nft", "nft721", "mint"}

Lists == {"balances", "delegations", "rewards", "unbonding", "proposals", "nfts",
          "nftAccountTxs"}
=============================================================================
