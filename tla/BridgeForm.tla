------------------------------ MODULE BridgeForm -------------------------------
(***************************************************************************)
(* The form of the bridge: two chains, an asset, and the address the       *)
(* transfer goes to, which is the wallet's own on the other chain or one   *)
(* the user has typed.  What the confirmation shows and what is sent come  *)
(* from different places: fields of the form, state of the form and of the *)
(* page.  The bridge's configuration is loaded with every validation.      *)
(***************************************************************************)
EXTENDS Naturals, FiniteSets

CONSTANT Nothing   \* undefined, or an empty field

Chains == {"CRONOS_TENDERMINT", "CRONOS", "COSMOS_HUB"}

\* SUPPORTED_BRIDGE_BY_CHAIN
Across(c) ==
  CASE c = "CRONOS_TENDERMINT" -> {"CRONOS"}
    [] c = "CRONOS"            -> {"CRONOS_TENDERMINT", "COSMOS_HUB"}
    [] c = "COSMOS_HUB"        -> {"CRONOS"}

Direction(a, b) == IF a \in Chains /\ b \in Across(a) THEN <<a, b>> ELSE Nothing

Directions == UNION {{<<a, b>> : b \in Across(a)} : a \in Chains}

\* The asset of a chain, and the one that stands for ATOM on Cronos.
Native(c) == [chain |-> c, token |-> FALSE]

Assets == {Native(c) : c \in Chains} \cup {[chain |-> "CRONOS", token |-> TRUE]}

\* getBridgeSupportedAssetList, and SUPPORTED_ASSETS_BY_BRIDGE_DIRECTION.
Supported(d) ==
  IF d = Nothing THEN {}
  ELSE {a \in Assets : a.chain = d[1] /\ a.token = (d[2] = "COSMOS_HUB")}

Requests == [direction : Directions, asset : Assets, recipient : Chains \cup {"typed"}]

ASSUME NothingAssumption ==
  /\ Nothing \notin Chains \cup {"typed"} /\ Nothing \notin Directions
  /\ Nothing \notin Assets /\ Nothing \notin Requests

VARIABLES
  from, to,   \* bridgeFrom and bridgeTo
  direction,  \* bridgeTransferDirection
  valid,      \* isBridgeValid
  options,    \* bridgeSupportedAssets
  asset,      \* the asset that is chosen
  current,    \* currentAsset
  custom,     \* isCustomToAddress
  typing,     \* ~isToAddressDisabled: the box is ticked
  toAddress,  \* the field: the wallet's address on a chain, or "typed"
  shown       \* toDestinationAddress

fields == <<from, to, direction, valid, options, asset, current, custom, typing,
            toAddress, shown>>

FormInit ==
  /\ from = "CRONOS_TENDERMINT" /\ to = "CRONOS"
  /\ direction = <<from, to>>
  /\ valid = TRUE
  /\ options = {Native(from)}
  /\ asset = Native(from) /\ current = Native(from)
  /\ custom = FALSE /\ typing = FALSE
  /\ toAddress = to /\ shown = to

\* A new form.
FormMounted ==
  /\ from' = "CRONOS_TENDERMINT" /\ to' = "CRONOS"
  /\ direction' = <<from', to'>>
  /\ valid' = TRUE
  /\ options' = {Native(from')}
  /\ asset' = Native(from') /\ current' = Native(from')
  /\ custom' = FALSE /\ typing' = FALSE
  /\ toAddress' = to' /\ shown' = to'

\* Back from the confirmation: the fields have been kept, the box is ticked again.
FormRestored ==
  /\ valid' = TRUE
  /\ options' = Supported(Direction(from, to))
  /\ typing' = custom
  /\ UNCHANGED <<from, to, direction, asset, current, custom, toAddress, shown>>

\* The wallet's own address on the chain that is chosen, or on the first one.
OwnAddress(c) == IF c = Nothing THEN "CRONOS_TENDERMINT" ELSE c

Recipient(c) ==
  /\ toAddress' = OwnAddress(c)
  /\ shown' = OwnAddress(c)
  /\ typing' = FALSE

-----------------------------------------------------------------------------
\* onSwitchBridge with the new chain and the old other one, which is taken out then.
ChooseFrom(c) ==
  /\ from' = c
  /\ to' = Nothing
  /\ valid' = FALSE
  /\ options' = Supported(Direction(c, to))
  /\ current' = Native(c)
  /\ asset' = Nothing
  /\ custom' = FALSE
  /\ Recipient(to)
  /\ UNCHANGED direction

\* The validators of the field, and onSwitchBridge.
ChooseTo(c) ==
  /\ c \in Across(from)
  /\ to' = c
  /\ direction' = Direction(from, c)
  /\ valid' = TRUE
  /\ options' = Supported(Direction(from, c))
  /\ current' = Native(from)
  /\ asset' = Nothing
  /\ custom' = FALSE
  /\ Recipient(c)
  /\ UNCHANGED from

\* mutant: the field keeps an asset that is not the current one any more
KeepsAsset == asset

ResetAsset == Nothing

\* onBridgeExchange; validating the fields sets the direction.
Exchange ==
  /\ to # Nothing
  /\ from' = to /\ to' = from
  /\ direction' = Direction(to, from)
  /\ valid' = TRUE
  /\ options' = Supported(Direction(to, from))
  /\ current' = Nothing
  /\ asset' = ResetAsset
  /\ custom' = FALSE
  /\ Recipient(from)

\* The list of assets is closed while the chains are not valid.
Offered == IF valid THEN options ELSE {}

ChooseAsset(a) ==
  /\ a \in Offered
  /\ asset' = a /\ current' = a
  /\ UNCHANGED <<from, to, direction, valid, options, custom, typing, toAddress, shown>>

\* The box: an address of one's own, or back to the wallet's.
TickBox ==
  /\ custom' = ~typing
  /\ typing' = ~typing
  /\ IF typing
     THEN IF to = Nothing
          THEN UNCHANGED <<toAddress, shown>>
          ELSE toAddress' = to /\ shown' = to
     ELSE toAddress' = Nothing /\ shown' = Nothing
  /\ UNCHANGED <<from, to, direction, valid, options, asset, current>>

TypeAddress ==
  /\ typing
  /\ toAddress' = "typed" /\ shown' = "typed"
  /\ UNCHANGED <<from, to, direction, valid, options, asset, current, custom, typing>>

FillIn ==
  \/ \E c \in Chains : ChooseFrom(c) \/ ChooseTo(c)
  \/ \E a \in Assets : ChooseAsset(a)
  \/ Exchange \/ TickBox \/ TypeAddress

-----------------------------------------------------------------------------
\* The rules of the fields; the amount is left out.
Complete == to # Nothing /\ asset # Nothing /\ toAddress # Nothing

\* BridgeTransferRequest, with the recipient its direction makes of it.
TheRequest ==
  [direction |-> direction, asset |-> current,
   recipient |-> IF custom THEN toAddress ELSE direction[2]]

\* What the user is asked to confirm.
Confirmation == [direction |-> <<from, to>>, asset |-> current, recipient |-> shown]

FormTypeOK ==
  /\ from \in Chains /\ to \in Chains \cup {Nothing}
  /\ direction \in Directions
  /\ {valid, custom, typing} \subseteq BOOLEAN
  /\ options \subseteq Assets
  /\ {asset, current} \subseteq Assets \cup {Nothing}
  /\ {toAddress, shown} \subseteq Chains \cup {"typed", Nothing}
=============================================================================
