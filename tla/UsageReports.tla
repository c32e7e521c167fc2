----------------------------- MODULE UsageReports -----------------------------
(***************************************************************************)
(* What the relay reports of its use: the counters of table borrowers and  *)
(* the rows of usage_logs, as settleUsage writes them (src/db/index.ts),   *)
(* the admin's endpoints (src/index.ts) and the commands of src/admin.ts,  *)
(* which is a process of its own on the same database: the server may      *)
(* settle a request between two statements of a command.                   *)
(*                                                                         *)
(* A handler of the server is one action, in which the clock may go on by  *)
(* a unit between two of its readings.  What a request costs and does to   *)
(* its borrower's credits is Relay's; of the sums over usage_logs, that of *)
(* the charges stands for the tokens', the cost's and the fees', which are *)
(* taken over the same rows.                                               *)
(***************************************************************************)
EXTENDS Integers, SequencesExt

CONSTANTS
  Borrowers,      \* those registered
  Charges,        \* BOUND: what requests are charged
  DAY,            \* seconds of a day
  SummaryDays,    \* the 30 days of a summary that is not asked for others
  AskedDays,      \* BOUND: the days asked for
  AdminLimit,     \* the 50 rows of GET /admin/usage
  MaxTime,        \* BOUND: times are DAY..MaxTime
  MaxLogs         \* BOUND: requests settled

VARIABLES
  now,        \* the clock
  borrowers,  \* borrower -> totalSpent, dailySpent and dailyReset
  logs,       \* table usage_logs; reckoned is when its charge was added to dailySpent
  command,    \* what the command of admin.ts under way has read, or NoCommand; BOUND:
              \* one at a time
  report      \* what was shown just now, or NoReport

vars == <<now, borrowers, logs, command, report>>

NoCommand == [of |-> {}]
NoReport == [kind |-> "none"]
NewRow == [totalSpent |-> 0, dailySpent |-> 0, dailyReset |-> 0]

\* The clock is past the day of time 0, for which daily_reset stands at first.
Init ==
  /\ now = DAY
  /\ borrowers = [b \in Borrowers |-> NewRow]
  /\ logs = <<>>
  /\ command = NoCommand /\ report = NoReport

DayStart(t) == t - (t % DAY)
Soon == {t \in {now, now + 1} : t <= MaxTime}
-----------------------------------------------------------------------------
(* The server's requests.                                                  *)

\* (mutant) every reading of the counter resets it.
AlwaysReset(row, t) == [row EXCEPT !.dailySpent = 0, !.dailyReset = DayStart(t)]
ResetDailyIfNeeded(row, t) ==
  IF row.dailyReset < DayStart(t)
  THEN [row EXCEPT !.dailySpent = 0, !.dailyReset = DayStart(t)]
  ELSE row

Charge(row, charged) == [row EXCEPT !.totalSpent = @ + charged, !.dailySpent = @ + charged]

\* settleUsage(): the row of the log has the time of its own statement.
SettleUsage(b, charged) ==
  /\ Len(logs) < MaxLogs
  /\ \E t \in Soon, createdAt \in Soon :
       /\ t <= createdAt
       /\ now' = createdAt
       /\ borrowers' = [borrowers EXCEPT ![b] = Charge(ResetDailyIfNeeded(@, t), charged)]
       /\ logs' = Append(logs, [borrower |-> b, charged |-> charged, createdAt |-> createdAt,
                                reckoned |-> t])
  /\ report' = NoReport /\ UNCHANGED command

\* getDailySpent(), for a request that is then refused or not answered yet.
GetDailySpent(b) ==
  /\ borrowers' = [borrowers EXCEPT ![b] = ResetDailyIfNeeded(@, now)]
  /\ report' = NoReport /\ UNCHANGED <<now, logs, command>>

Tick ==
  /\ now < MaxTime /\ now' = now + 1
  /\ report' = NoReport /\ UNCHANGED <<borrowers, logs, command>>
-----------------------------------------------------------------------------
(* The queries.                                                            *)

Charged(rows) == SumFunctionOnSet([i \in DOMAIN logs |-> logs[i].charged], rows)
Since(t, days) == t - days * DAY

\* (mutant) what is as old as the period is left out.
StrictlySince(of, since) ==
  LET rows == {i \in DOMAIN logs : logs[i].borrower \in of /\ logs[i].createdAt > since}
  IN  [since |-> since, requests |-> Cardinality(rows), charged |-> Charged(rows)]
GetUsageSummary(of, since) ==
  LET rows == {i \in DOMAIN logs : logs[i].borrower \in of /\ logs[i].createdAt >= since}
  IN  [since |-> since, requests |-> Cardinality(rows), charged |-> Charged(rows)]

\* (mutant) the oldest first.
OldestFirst(limit) == SubSeq(logs, 1, Min({limit, Len(logs)}))
\* The newest first.
GetRecentUsage(limit) == Reverse(SubSeq(logs, Max({1, Len(logs) - limit + 1}), Len(logs)))

\* The lifetime totals of some borrowers, read when the log had so many rows.
Totals(of) ==
  [of |-> of, rows |-> Len(logs),
   spent |-> SumFunctionOnSet([b \in Borrowers |-> borrowers[b].totalSpent], of),
   active |-> Cardinality({b \in of : borrowers[b].totalSpent > 0})]

TotalsReport(totals, t) ==
  [kind |-> "totals", totals |-> totals,
   summary |-> GetUsageSummary(totals.of, Since(t, SummaryDays))]

Groups == {Borrowers} \cup {{b} : b \in Borrowers}
-----------------------------------------------------------------------------
(* The endpoints, of which the totals are read as the summary is.          *)

\* GET /admin/stats and GET /admin/borrowers/:address
ShowTotals(of) ==
  /\ now' \in Soon
  /\ report' = TotalsReport(Totals(of), now')
  /\ UNCHANGED <<borrowers, logs, command>>

\* GET /admin/usage
ShowUsage(days) ==
  /\ now' \in Soon
  /\ report' = [kind |-> "usage", summary |-> GetUsageSummary(Borrowers, Since(now', days)),
                recent |-> GetRecentUsage(AdminLimit)]
  /\ UNCHANGED <<borrowers, logs, command>>
-----------------------------------------------------------------------------
(* src/admin.ts                                                            *)

\* The commands stats and info: getAllBorrowers() or getBorrower(),
ReadTotals(of) ==
  /\ command = NoCommand
  /\ command' = Totals(of)
  /\ report' = NoReport /\ UNCHANGED <<now, borrowers, logs>>

\* then getUsageSummary().
ReadSummary ==
  /\ command # NoCommand
  /\ report' = TotalsReport(command, now)
  /\ command' = NoCommand
  /\ UNCHANGED <<now, borrowers, logs>>

Next ==
  \/ \E b \in Borrowers : GetDailySpent(b) \/ \E charged \in Charges : SettleUsage(b, charged)
  \/ Tick
  \/ \E of \in Groups : ShowTotals(of) \/ ReadTotals(of)
  \/ \E days \in AskedDays : ShowUsage(days)
  \/ ReadSummary

Spec == Init /\ [][Next]_vars
-----------------------------------------------------------------------------
DailySpentOfOneDay ==
  \A b \in Borrowers :
    borrowers[b].dailySpent =
      Charged({i \in DOMAIN logs : /\ logs[i].borrower = b
                                   /\ DayStart(logs[i].reckoned) = borrowers[b].dailyReset})

\* But for what was settled between the two readings of a command.
TotalsAgree ==
  report.kind = "totals" =>
    LET totals == report.totals
        theirs == {i \in DOMAIN logs : logs[i].borrower \in totals.of}
        older == {i \in theirs : logs[i].createdAt < report.summary.since}
        between == {i \in theirs : i > totals.rows}
    IN  /\ report.summary.charged + Charged(older) = totals.spent + Charged(between)
        /\ totals.active =
             Cardinality({logs[i].borrower : i \in {j \in theirs \ between : logs[j].charged > 0}})

\* As many as there is room for.
SummaryListsItsNewest ==
  report.kind = "usage" =>
    Cardinality({i \in DOMAIN report.recent :
                   report.recent[i].createdAt >= report.summary.since})
      = Min({report.summary.requests, AdminLimit})

\* Three accounts of one use, kept and read at times of their own, agree.  daily_spent,
\* on which the daily limit is decided, is what the borrower was charged on the day it
\* was last reset for, whatever was settled around midnight; the lifetime totals are the
\* summary of the log and what is older than its period, the active borrowers those with
\* a charge in it; and of what a summary counts the newest are listed beside it
\* (settleUsage, resetDailyIfNeeded, the admin's endpoints and commands).
UsageAgrees == DailySpentOfOneDay /\ TotalsAgree /\ SummaryListsItsNewest
=============================================================================
