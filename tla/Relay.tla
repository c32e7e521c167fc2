-------------------------------- MODULE Relay --------------------------------
(***************************************************************************)
(* The relay server: dated prepaid credits, and the requests that spend    *)
(* them (src/index.ts, src/metering.ts, src/auth.ts, src/db/index.ts).     *)
(*                                                                         *)
(* The server is one JavaScript thread with a synchronous SQLite driver:   *)
(* what a handler does between two awaits is one action here.  A chat      *)
(* request awaits its body after the session check, and Venice's answer    *)
(* after reserving credit; a login awaits the verification of a signature. *)
(* Between those points any other handler, midnight, the minute timer or a *)
(* crash may run.                                                          *)
(*                                                                         *)
(* Amounts are whole units of the last digit the code rounds to (1e-6      *)
(* dollars), so ROUND(x, 6) and the 0.000001 thresholds vanish.            *)
(***************************************************************************)
EXTENDS Integers, Sequences, FiniteSetsExt, Functions

CONSTANTS
  Borrowers,
  NoBorrower,       \* of a request not made yet or finished
  Requests,         \* BOUND: chat requests, each made at most once
  TxHashes,         \* hashes of on-chain payments
  NoTx,             \* a credit without txHash
  Payments,         \* BOUND: the txHash arguments addCredit is given
  Grants,           \* BOUND: the amounts addCredit is given
  Models,           \* the models that requests name
  ModelPricing,     \* config.pricing.models: model -> [input, output, cache]
  DefaultPricing,   \* of the models it does not list
  Usages,           \* BOUND: [prompt, completion, cache], the tokens Venice reports
  EstimatedUsage,   \* the 4000, 4000 and 2000 tokens a request is reserved for
  MinEstimate,      \* the 0.01 dollars below which nothing is reserved
  MaxDailySpend,    \* config.maxDailySpendUsd
  MaxDay,           \* BOUND: days are 0..MaxDay
  MaxTranches,      \* BOUND: credits bought
  MaxSessions,      \* BOUND: sessions and logins per borrower at a time
  CrashPoints       \* where the process may die: "await", between the two
                    \* statements of resetDailyIfNeeded ("reset"), after the
                    \* first of sweepExpiredCredits ("sweep") and between the
                    \* two of a suspension ("suspend")

ASSUME RelayAssumption ==
  /\ IsFiniteSet(Requests)
  /\ NoTx \notin TxHashes /\ NoBorrower \notin Borrowers
  /\ Payments \subseteq TxHashes \cup {NoTx}
  /\ Grants \subseteq Nat \ {0} /\ MinEstimate \in Nat \ {0}
  /\ {DefaultPricing} \cup Range(ModelPricing) \subseteq [input : Nat, output : Nat, cache : Nat]
  /\ Usages \cup {EstimatedUsage} \subseteq [prompt : Nat, completion : Nat, cache : Nat]
  /\ MaxDailySpend \in Nat /\ MaxDay \in Nat /\ MaxTranches \in Nat
  /\ MaxSessions \in Nat \ {0}
  /\ CrashPoints \subseteq {"await", "reset", "sweep", "suspend"}

VARIABLES
  day,          \* todayUtc()
  db,           \* the tables credits and borrowers, see Books
  registered,   \* the borrowers that have a row in table borrowers
  active,       \* borrowers.active
  sessions,     \* borrower -> valid rows of table sessions
  logins,       \* borrower -> logins awaiting verifyMessage
  request,      \* [pc, borrower, reserved]: the handler of a chat request
  torn          \* history: borrower -> the last day whose reset was cut short

vars == <<day, db, registered, active, sessions, logins, request, torn>>

Days == 0..MaxDay + 1       \* credit for tomorrow may be bought on the last day
NoDay == -1                 \* daily_reset of a new row

Tranches == [borrower : Borrowers, validDate : Days, original : Nat, remaining : Nat,
             tx : TxHashes \cup {NoTx}, expired : BOOLEAN]

\* credits in the order of their ids; the others are columns of borrowers.
Books == [credits : Seq(Tranches), balance : [Borrowers -> Int],
          totalSpent : [Borrowers -> Nat], dailySpent : [Borrowers -> Nat],
          dailyReset : [Borrowers -> {NoDay} \cup Days]]

Idle == "idle"      \* not made yet
Body == "body"      \* session checked, awaiting the body
Venice == "venice"  \* credit reserved, awaiting Venice
Done == "done"

NoRequest == [pc |-> Idle, borrower |-> NoBorrower, reserved |-> 0]
Finished == [pc |-> Done, borrower |-> NoBorrower, reserved |-> 0]
-----------------------------------------------------------------------------
(* db/index.ts: each operator maps a state of the tables to the next.      *)

ForToday(d, b) ==
  {i \in DOMAIN d.credits : /\ d.credits[i].borrower = b
                            /\ d.credits[i].validDate = day
                            /\ ~d.credits[i].expired}

RemainingOf(d, S) == SumFunctionOnSet([i \in DOMAIN d.credits |-> d.credits[i].remaining], S)

TodayBalance(d, b) == RemainingOf(d, ForToday(d, b))

SyncBalance(d, b) == [d EXCEPT !.balance[b] = TodayBalance(d, b)]

MarkReset(d, b) == [d EXCEPT !.dailySpent[b] = 0, !.dailyReset[b] = day]

\* (mutant) a new day without a look at its credits.
ResetOnly(d, b) == IF d.dailyReset[b] < day THEN MarkReset(d, b) ELSE d

ResetDailyIfNeeded(d, b) ==
  IF d.dailyReset[b] < day THEN SyncBalance(MarkReset(d, b), b) ELSE d

\* What reserveBalance takes from tranche i: the oldest are used up first.
TakenFrom(d, b, amount, i) ==
  LET before == RemainingOf(d, {j \in ForToday(d, b) : j < i})
      wanted == IF before < amount THEN amount - before ELSE 0
  IN  IF i \notin ForToday(d, b) THEN 0
      ELSE IF wanted < d.credits[i].remaining THEN wanted ELSE d.credits[i].remaining

\* reserveBalance(): all of the amount or nothing.
CanReserve(d, b, amount) == TodayBalance(d, b) >= amount

ReserveBalance(d, b, amount) ==
  IF ~CanReserve(d, b, amount) THEN d
  ELSE [d EXCEPT !.credits = [i \in DOMAIN d.credits |->
                                [d.credits[i] EXCEPT
                                   !.remaining = @ - TakenFrom(d, b, amount, i)]],
                 !.balance[b] = @ - amount]

RefundTranche(b, amount) ==
  [borrower |-> b, validDate |-> day, original |-> amount, remaining |-> amount,
   tx |-> NoTx, expired |-> FALSE]

\* (mutant) refunds the newest tranche only, as far as it goes.
RefundNewest(d, b, amount) ==
  LET newest == Max(ForToday(d, b))
      room == d.credits[newest].original - d.credits[newest].remaining
      back == IF amount < room THEN amount ELSE room
  IN  IF ForToday(d, b) = {} THEN d
      ELSE [d EXCEPT !.credits[newest].remaining = @ + back, !.balance[b] = @ + back]

\* (mutant) refunds the newest tranche past its original amount.
RefundUncapped(d, b, amount) ==
  IF ForToday(d, b) = {} THEN d
  ELSE [d EXCEPT !.credits[Max(ForToday(d, b))].remaining = @ + amount,
                 !.balance[b] = @ + amount]

\* refundReservation(): the newest tranche of today is refilled up to what it
\* was bought for; what does not fit becomes a new tranche of today.
RefundReservation(d, b, amount) ==
  LET today == ForToday(d, b)
      newest == Max(today)
      room == d.credits[newest].original - d.credits[newest].remaining
      back == IF today = {} THEN 0 ELSE IF amount < room THEN amount ELSE room
      refilled == IF back = 0 THEN d.credits
                  ELSE [d.credits EXCEPT ![newest].remaining = @ + back]
  IN  [d EXCEPT !.credits = IF back = amount THEN refilled
                            ELSE Append(refilled, RefundTranche(b, amount - back)),
                !.balance[b] = @ + amount]

\* settleUsage(): the difference to the reservation, then the counters.  That
\* reserveBalance may fail to get the extra amount is ignored.
SettleUsage(d, b, reserved, charged) ==
  LET settled == IF reserved > charged THEN RefundReservation(d, b, reserved - charged)
                 ELSE IF reserved < charged THEN ReserveBalance(d, b, charged - reserved)
                 ELSE d
      today == ResetDailyIfNeeded(settled, b)
  IN  [today EXCEPT !.totalSpent[b] = @ + charged, !.dailySpent[b] = @ + charged]

Stale(d) == {i \in DOMAIN d.credits : d.credits[i].validDate < day}

MarkExpired(d) ==
  [d EXCEPT !.credits = [i \in DOMAIN d.credits |->
     [d.credits[i] EXCEPT !.expired = @ \/ i \in Stale(d)]]]

\* sweepExpiredCredits(): every borrower with a lapsed tranche is synced.
Sweepable(d) == \E i \in Stale(d) : ~d.credits[i].expired /\ d.credits[i].remaining > 0

SweepExpired(d) ==
  LET affected == {d.credits[i].borrower : i \in Stale(d)}
  IN  [MarkExpired(d) EXCEPT !.balance =
         [b \in Borrowers |-> IF b \in affected THEN TodayBalance(d, b) ELSE d.balance[b]]]
-----------------------------------------------------------------------------
Init ==
  /\ day = 0
  /\ db = [credits |-> <<>>,
           balance |-> [b \in Borrowers |-> 0],
           totalSpent |-> [b \in Borrowers |-> 0],
           dailySpent |-> [b \in Borrowers |-> 0],
           dailyReset |-> [b \in Borrowers |-> NoDay]]
  /\ registered = {}
  /\ active = [b \in Borrowers |-> TRUE]
  /\ sessions = [b \in Borrowers |-> 0]
  /\ logins = [b \in Borrowers |-> 0]
  /\ request = [r \in Requests |-> NoRequest]
  /\ torn = [b \in Borrowers |-> NoDay]

Midnight ==
  /\ day < MaxDay
  /\ day' = day + 1
  /\ UNCHANGED <<db, registered, active, sessions, logins, request, torn>>

\* upsertBorrower(): POST /admin/borrowers, for the watcher as well, and the command
\* add-borrower of admin.ts.  Of a row that exists only the alias changes.
UpsertBorrower(b) ==
  /\ b \notin registered
  /\ registered' = registered \cup {b}
  /\ UNCHANGED <<day, db, active, sessions, logins, request, torn>>

AlreadyProcessed(tx) ==
  tx # NoTx /\ \E i \in DOMAIN db.credits : db.credits[i].tx = tx

\* addCredit().  A hash that was credited before changes nothing.
AddCredit(b, amount, validDate, tx) ==
  /\ Len(db.credits) < MaxTranches
  /\ ~AlreadyProcessed(tx)
  /\ db' = [db EXCEPT
       !.credits = Append(@, [borrower |-> b, validDate |-> validDate, original |-> amount,
                              remaining |-> amount, tx |-> tx, expired |-> FALSE]),
       !.balance[b] = IF validDate = day THEN @ + amount ELSE @]
  /\ registered' = registered \cup {b}
  /\ UNCHANGED <<day, active, sessions, logins, request, torn>>

\* POST /v1/buy: "sameday" until the sale closes, whose hour is left open, or
\* "advance".  The discount is paid for off the books: what is credited is amountUsd.
Buy(b, amount, tx) == AddCredit(b, amount, day, tx) \/ AddCredit(b, amount, day + 1, tx)

\* POST /admin/credit, for any date: today's if it names none, tomorrow's if the
\* watcher sends it.
AdminCredit(b, amount, tx) == \E validDate \in Days : AddCredit(b, amount, validDate, tx)

\* The minute timer and POST /admin/sweep.
Sweep ==
  /\ Sweepable(db)
  /\ db' = SweepExpired(db)
  /\ UNCHANGED <<day, registered, active, sessions, logins, request, torn>>
-----------------------------------------------------------------------------
(* Sessions.                                                               *)

BeginLogin(b) ==
  /\ logins[b] + sessions[b] < MaxSessions
  /\ logins' = [logins EXCEPT ![b] = @ + 1]
  /\ UNCHANGED <<day, db, registered, active, sessions, request, torn>>

MayOpenSession(b) == b \in registered /\ active[b]

CreateSession(b) == sessions' = [sessions EXCEPT ![b] = @ + 1]
InvalidateBorrowerSessions(b) == sessions' = [sessions EXCEPT ![b] = 0]

\* The signature is verified: a session, if the account is registered and not
\* suspended now.  A bad signature ends the login as a suspended account does.
FinishLogin(b) ==
  /\ logins[b] > 0
  /\ logins' = [logins EXCEPT ![b] = @ - 1]
  /\ \/ UNCHANGED sessions
     \/ MayOpenSession(b) /\ CreateSession(b)
  /\ UNCHANGED <<day, db, registered, active, request, torn>>

ExpireSession(b) ==
  /\ sessions[b] > 0
  /\ sessions' = [sessions EXCEPT ![b] = @ - 1]
  /\ UNCHANGED <<day, db, registered, active, logins, request, torn>>

\* POST /admin/borrowers/:address/suspend, of one who is suspended as well: the
\* account is made inactive, then its sessions are removed.
Deactivate(b) == b \in registered /\ active' = [active EXCEPT ![b] = FALSE]

Suspend(b) ==
  /\ Deactivate(b)
  /\ InvalidateBorrowerSessions(b)
  /\ UNCHANGED <<day, db, registered, logins, request, torn>>

Unsuspend(b) ==
  /\ ~active[b]
  /\ active' = [active EXCEPT ![b] = TRUE]
  /\ UNCHANGED <<day, db, registered, sessions, logins, request, torn>>
-----------------------------------------------------------------------------
(* POST /v1/chat/completions.                                              *)

Finish(r) == request' = [request EXCEPT ![r] = Finished]

\* requireSession(): validateSession, then await of the body.
BeginRequest(r, b) ==
  /\ request[r].pc = Idle
  /\ sessions[b] > 0 /\ active[b]
  /\ request' = [request EXCEPT ![r] = [pc |-> Body, borrower |-> b, reserved |-> 0]]
  /\ UNCHANGED <<day, db, registered, active, sessions, logins, torn>>

\* (mutant) trusts the session check made before the await.
SessionWasValid(b) == TRUE
StillActive(b) == active[b]

GetModelPricing(model) ==
  IF model \in DOMAIN ModelPricing THEN ModelPricing[model] ELSE DefaultPricing

\* computeCost(): at list price.
ComputeCost(model, usage) ==
  LET price == GetModelPricing(model)
  IN  usage.prompt * price.input + usage.completion * price.output + usage.cache * price.cache

\* estimateMaxCost()
EstimateMaxCost(model) == Max({ComputeCost(model, EstimatedUsage), MinEstimate})

\* A body without model or messages, or none that parses.
RejectBody(r) ==
  /\ request[r].pc = Body
  /\ Finish(r)
  /\ UNCHANGED <<day, db, registered, active, sessions, logins, torn>>

\* preflightCheck(): daily reset, balance and limit, then the reservation.
Preflight(r, estimate) ==
  LET b == request[r].borrower
      today == ResetDailyIfNeeded(db, b)
      allowed == /\ today.balance[b] > 0
                 /\ today.dailySpent[b] < MaxDailySpend
                 /\ CanReserve(today, b, estimate)
  IN  /\ request[r].pc = Body
      /\ db' = IF ~StillActive(b) THEN db
               ELSE IF allowed THEN ReserveBalance(today, b, estimate) ELSE today
      /\ IF StillActive(b) /\ allowed
         THEN request' = [request EXCEPT ![r].pc = Venice, ![r].reserved = estimate]
         ELSE Finish(r)
      /\ UNCHANGED <<day, registered, active, sessions, logins, torn>>

\* forwardChatCompletion(): the usage of the answer, <<>> of one without it, of
\* an error status and of a broken connection.
ForwardChatCompletion == {<<>>} \cup {<<usage>> : usage \in Usages}

RefundPreflight(b, reserved) == IF reserved > 0 THEN RefundReservation(db, b, reserved) ELSE db

VeniceFails(r, answer) ==
  /\ request[r].pc = Venice /\ answer = <<>>
  /\ db' = RefundPreflight(request[r].borrower, request[r].reserved)
  /\ Finish(r)
  /\ UNCHANGED <<day, registered, active, sessions, logins, torn>>

\* meterUsage(): charged for the model that was reserved for, more than the
\* estimate included.
VeniceAnswers(r, model, answer) ==
  /\ request[r].pc = Venice /\ request[r].reserved = EstimateMaxCost(model)
  /\ answer # <<>>
  /\ db' = SettleUsage(db, request[r].borrower, request[r].reserved,
                       ComputeCost(model, answer[1]))
  /\ Finish(r)
  /\ UNCHANGED <<day, registered, active, sessions, logins, torn>>
-----------------------------------------------------------------------------
(* Crashes, and the end of a graceful shutdown: handlers are gone, the     *)
(* tables stay, and with them every reservation of a request in flight.    *)

HandlersDie ==
  /\ request' = [r \in Requests |->
                   IF request[r].pc \in {Body, Venice}
                   THEN Finished ELSE request[r]]
  /\ logins' = [b \in Borrowers |-> 0]
  /\ UNCHANGED <<day, registered, sessions>>

Crash ==
  /\ "await" \in CrashPoints
  /\ HandlersDie
  /\ UNCHANGED <<db, active, torn>>

\* The two UPDATEs of resetDailyIfNeeded are separate transactions when
\* preflightCheck makes them.
CrashInReset(r) ==
  LET b == request[r].borrower
  IN  /\ "reset" \in CrashPoints
      /\ request[r].pc = Body /\ active[b]
      /\ db.dailyReset[b] < day
      /\ db' = MarkReset(db, b)
      /\ torn' = [torn EXCEPT ![b] = day]
      /\ HandlersDie
      /\ UNCHANGED active

CrashInSweep ==
  /\ "sweep" \in CrashPoints
  /\ Sweepable(db)
  /\ db' = MarkExpired(db)
  /\ HandlersDie
  /\ UNCHANGED <<active, torn>>

\* The account is inactive, its sessions are still there.
CrashInSuspend(b) ==
  /\ "suspend" \in CrashPoints
  /\ Deactivate(b)
  /\ HandlersDie
  /\ UNCHANGED <<db, torn>>

BorrowerStep(b) ==
  \/ UpsertBorrower(b)
  \/ \E amount \in Grants, tx \in Payments : Buy(b, amount, tx) \/ AdminCredit(b, amount, tx)
  \/ BeginLogin(b) \/ FinishLogin(b) \/ ExpireSession(b)
  \/ Suspend(b) \/ Unsuspend(b) \/ CrashInSuspend(b)
  \/ \E r \in Requests : BeginRequest(r, b)

RequestStep(r) ==
  \/ RejectBody(r)
  \/ \E model \in Models : Preflight(r, EstimateMaxCost(model))
  \/ \E answer \in ForwardChatCompletion :
       VeniceFails(r, answer) \/ \E model \in Models : VeniceAnswers(r, model, answer)
  \/ CrashInReset(r)

Next ==
  \/ Midnight
  \/ Sweep
  \/ \E b \in Borrowers : BorrowerStep(b)
  \/ \E r \in Requests : RequestStep(r)
  \/ Crash \/ CrashInSweep

Spec == Init /\ [][Next]_vars
-----------------------------------------------------------------------------
\* The tables and handlers keep their types; a tranche holds no less than
\* nothing and no more than it was bought for, whatever is refunded into it
\* (refundReservation's cap); and no row refers to a borrower who has none, which
\* the database would refuse (the schema's foreign keys).
TypeOK ==
  /\ day \in 0..MaxDay
  /\ db \in Books
  /\ \A i \in DOMAIN db.credits : db.credits[i].remaining <= db.credits[i].original
  /\ \A b \in Borrowers \ registered :
       sessions[b] = 0 /\ \A i \in DOMAIN db.credits : db.credits[i].borrower # b
  /\ active \in [Borrowers -> BOOLEAN]
  /\ sessions \in [Borrowers -> 0..MaxSessions] /\ logins \in [Borrowers -> 0..MaxSessions]
  /\ request \in [Requests -> [pc : {Idle, Body, Venice, Done}, reserved : Nat,
                               borrower : Borrowers \cup {NoBorrower}]]
  /\ torn \in [Borrowers -> {NoDay} \cup Days]

BalanceRight(b) == db.dailyReset[b] = day => db.balance[b] = TodayBalance(db, b)

\* Once the day's first request has reset a borrower, balance_usd, which the
\* balance check of preflightCheck trusts, is the sum of today's credits, in
\* whatever order purchases, reservations, refunds, settlements, sweeps and
\* crashes follow; unless a crash cut that reset short.
BalanceInSync == \A b \in Borrowers : torn[b] # day => BalanceRight(b)

\* The borrowers' accounts: what is usable today or later, what is held by
\* requests in flight, what was charged.
Usable(b) ==
  RemainingOf(db, {i \in DOMAIN db.credits : /\ db.credits[i].borrower = b
                                             /\ db.credits[i].validDate >= day})
HeldFor(b) ==
  SumFunctionOnSet([r \in Requests |-> request[r].reserved],
                   {r \in Requests : request[r].borrower = b})

RequestsOf(b) == {r \in Requests : request[r].borrower = b}

\* Suspending leaves no session, unless the process dies between its two
\* statements; and while an account is suspended no session is added to what is
\* there, not even by a login whose signature was being verified when the
\* suspension came, no request begins, not even on a session that a crash left
\* behind, and one that had passed the session check before reserves no more
\* credit (verifyAndLogin, validateSession, preflightCheck).
SuspendedLockedOut ==
  [][\A b \in Borrowers :
       /\ active[b] /\ ~active'[b] => sessions'[b] = 0 \/ CrashInSuspend(b)
       /\ ~active[b] => /\ sessions'[b] <= sessions[b]
                        /\ RequestsOf(b)' \subseteq RequestsOf(b)
                        /\ HeldFor(b)' <= HeldFor(b)]_vars

Accounts == INSTANCE PrepaidAccounts WITH
  Amounts <- Grants,
  credit <- [b \in Borrowers |-> Usable(b)],
  held <- [b \in Borrowers |-> HeldFor(b)],
  spent <- db.totalSpent

\* Every handler is a step of the borrower's prepaid account: what a request
\* reserved is spent or given back exactly once, across tranches, midnight,
\* sweeps and concurrent requests.
ImplementsAccounts == Accounts!Spec
=============================================================================
