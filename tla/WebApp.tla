------------------------------- MODULE WebApp -------------------------------
(***************************************************************************)
(* app/src: the browser shows the pool page or the sDIEM card, which then  *)
(* runs against the contracts, or the fees page or the yields, which show  *)
(* what one answer of their queries holds.                                 *)
(***************************************************************************)
EXTENDS PoolPage, SDiemCard, FeesChart, StakingYield

VARIABLES
  page,       \* "pool", "card", "fees" or "yields", those of the pool page and the card
  shown       \* the data of the fees page or of the yields

webVars == <<walletVars, pageVars, cardVars, page, shown>>

NoData == [now |-> -1]

WebInit ==
  /\ WalletInit /\ PageInit /\ CardInit
  /\ \/ page \in {"pool", "card"} /\ shown = NoData
     \/ page = "fees" /\ shown \in FeeInputs
     \/ page = "yields" /\ shown \in YieldInputs

OnPool(step) == page = "pool" /\ step /\ UNCHANGED <<cardVars, page, shown>>
OnCard(step) == page = "card" /\ step /\ UNCHANGED <<pageVars, page, shown>>

WebNext == OnPool(PageNext) \/ OnCard(CardNext)

WebSpec == WebInit /\ [][WebNext]_webVars

\* Snapshots come, transactions are mined, and a holder who has not got what
\* the supply button is for types an amount and presses it again.
HolderPersists ==
  /\ WF_webVars(OnPool(Fetch)) /\ WF_webVars(OnPool(Mined \/ Reverted))
  /\ WF_webVars(OnPool(\E amount \in Amounts : Type(amount)))
  /\ SF_webVars(OnPool(PressSupply("stake")))

FairWebSpec == WebSpec /\ HolderPersists
-----------------------------------------------------------------------------
\* What the page or the card offers works, if it is decided on what is true, and is sent
\* once.
OfferedCallsWork == PageOffersWork /\ CardOffersWork

\* A holder who keeps pressing the pool page's supply button gets stakes through,
\* approval after approval, whatever happens to the snapshots in between, unless
\* staking is paused or there is less in the wallet than was typed.
SupplyGoesThrough ==
  page = "pool" =>
    \/ []<>(typed = 0 \/ typed > wallet[Me] \/ paused)
    \/ []<><<Mined /\ tx.call = <<"stake">>>>_webVars

\* Each point of the fee chart is the sum over its own window: no distribution
\* is lost, counted twice or kept too long, whatever the order they come in,
\* and however many fall on one day or on midnight; and the table's rows add up
\* to the all-time total (rollingFees, FeesPage).
FeesExact == page = "fees" => ShowsFees(shown) /\ AddsUp(shown)

\* What the page's charts are given they draw: no known value is left out or off the
\* axis, none that is not known is drawn through, every month has its label unless
\* there is no room, and the pointer picks the point it is nearest to (FeesChart).
ChartsDrawn == page = "fees" => DrawsCharts(shown)

\* Each point of the APR chart is the one of its own window, or open where the
\* price of one of its days is unknown: the fees, stakes and prices, walked by
\* cursors of their own, stay aligned (stakedAtClose, pricesAtClose, rollingApr).
\* And the yields of the pool page and the card are what the reward period pays and
\* has paid: a rate that has lapsed shows no current yield, the trailing ones none
\* but what accrued (calcSDiemApr, useTrailingApr, calcTrailingApr).
AprExact ==
  /\ page = "fees" => ShowsApr(shown)
  /\ page = "yields" => ShowsYield(shown)
=============================================================================
