----------------------------- MODULE RelayServer -----------------------------
(***************************************************************************)
(* The relay server as one program: the accounts and requests (Relay), the *)
(* sale of dated credits (Auction) and what is reported of the use         *)
(* (UsageReports).  The three are checked side by side, on clocks of their *)
(* own: Relay's needs days only, the sale hours, the reports seconds.      *)
(***************************************************************************)
EXTENDS Relay, SequencesExt

CONSTANTS
  HoursPerDay, SaleCutoffHour, AdvanceDiscountRate, MinDiscountRate,
  MaxDiscountRate, MaxHours,                            \* see Auction
  Charges, DAY, SummaryDays, AskedDays, AdminLimit,
  MaxTime, MaxLogs                                      \* see UsageReports

ASSUME AuctionAssumption ==
  /\ HoursPerDay \in Nat \ {0} /\ SaleCutoffHour \in 1..HoursPerDay - 1
  /\ {AdvanceDiscountRate, MinDiscountRate, MaxDiscountRate, MaxHours} \subseteq Nat
  /\ MaxDiscountRate <= MinDiscountRate

ASSUME ReportsAssumption ==
  /\ Charges \subseteq Nat
  /\ {DAY, AdminLimit} \subseteq Nat \ {0}
  /\ {SummaryDays, MaxTime, MaxLogs} \cup AskedDays \subseteq Nat

VARIABLES
  part,                                             \* "accounts", "sale" or "reports"
  hour, quote, sold,                                \* Auction's
  second, counters, logs, command, report           \* UsageReports'

saleVars == <<hour, quote, sold>>
reportVars == <<second, counters, logs, command, report>>
serverVars == <<vars, saleVars, reportVars, part>>

Sale == INSTANCE Auction WITH now <- hour, credits <- sold
Reports == INSTANCE UsageReports WITH now <- second, borrowers <- counters

ServerInit ==
  /\ Init /\ Sale!Init /\ Reports!Init
  /\ part \in {"accounts", "sale", "reports"}

InAccounts(step) == part = "accounts" /\ step /\ UNCHANGED <<saleVars, reportVars, part>>
InSale(step) == part = "sale" /\ step /\ UNCHANGED <<vars, reportVars, part>>
InReports(step) == part = "reports" /\ step /\ UNCHANGED <<vars, saleVars, part>>

ServerNext == InAccounts(Next) \/ InSale(Sale!Next) \/ InReports(Reports!Next)

ServerSpec == ServerInit /\ [][ServerNext]_serverVars
-----------------------------------------------------------------------------
\* No day's credits are sold or offered by the rules of another, nor for more than was
\* quoted (POST /v1/buy, GET /v1/pricing).
DaysSoldApart == Sale!DaysSoldApart

\* The day's counter, the lifetime totals and the log of the use agree, in the tables and
\* as they are reported (settleUsage, GET /admin, admin.ts).
UsageAgrees == Reports!UsageAgrees
=============================================================================
