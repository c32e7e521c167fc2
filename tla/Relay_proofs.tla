----------------------------- MODULE Relay_proofs -----------------------------
(***************************************************************************)
(* Theorems about Relay, for any number of borrowers, requests, tranches,  *)
(* days and sessions, and any prices and limits.                           *)
(*                                                                         *)
(* The operators of db/index.ts come first: each is described by what it   *)
(* moves, today and in all, for the borrower it is about and for nobody    *)
(* else (Moves), whatever it does to the tranches.  The steps of the relay *)
(* are then followed through Moves alone.                                  *)
(***************************************************************************)
EXTENDS Relay, SequenceTheorems, ArithmeticTheorems

\* Tables whose tranches hold no more than they were bought for.
Sound == {d \in Books : \A i \in DOMAIN d.credits :
                          d.credits[i].remaining <= d.credits[i].original}

Owners(d) == {d.credits[i].borrower : i \in DOMAIN d.credits}

RightFor(d, b) == d.dailyReset[b] = day => d.balance[b] = TodayBalance(d, b)

\* Every tranche belongs to a registered borrower, no reset is ahead of the
\* calendar, and the balances are right but for a reset cut short today.
TablesOK ==
  /\ day \in 0..MaxDay /\ db \in Sound
  /\ registered \subseteq Borrowers /\ Owners(db) \subseteq registered
  /\ torn \in [Borrowers -> {NoDay} \cup Days]
  /\ \A b \in Borrowers : /\ db.dailyReset[b] <= day /\ torn[b] <= day
                          /\ torn[b] # day => RightFor(db, b)

\* A login holds the place of the session it may become; who is not registered
\* has no session.
AccessOK ==
  /\ active \in [Borrowers -> BOOLEAN]
  /\ sessions \in [Borrowers -> Nat] /\ logins \in [Borrowers -> Nat]
  /\ \A b \in Borrowers : /\ sessions[b] + logins[b] <= MaxSessions
                          /\ b \notin registered => sessions[b] = 0

Handlers == [pc : {Idle, Body, Venice, Done}, reserved : Nat,
             borrower : Borrowers \cup {NoBorrower}]

\* Only a request with Venice holds credit, and it is a registered borrower's.
RequestOK(q) ==
  /\ q.pc \in {Idle, Done} => q.borrower = NoBorrower /\ q.reserved = 0
  /\ q.pc \in {Body, Venice} => q.borrower \in registered
  /\ q.pc = Body => q.reserved = 0
  /\ q.pc = Venice => q.reserved > 0

RequestsOK ==
  request \in [Requests -> Handlers] /\ \A r \in Requests : RequestOK(request[r])

IInv == TablesOK /\ AccessOK /\ RequestsOK
-----------------------------------------------------------------------------
(* What is left in a set of tranches.                                      *)

\* The rows of the tables.
LEMMA Rows ==
  ASSUME NEW d \in Sound
  PROVE  /\ Len(d.credits) \in Nat /\ DOMAIN d.credits = 1..Len(d.credits)
         /\ IsFiniteSet(DOMAIN d.credits)
         /\ \A i \in DOMAIN d.credits :
              d.credits[i] \in Tranches /\ d.credits[i].remaining <= d.credits[i].original
<1>1. d.credits \in Seq(Tranches)
  BY DEF Sound, Books
<1>2. Len(d.credits) \in Nat /\ DOMAIN d.credits = 1..Len(d.credits)
  BY <1>1, LenProperties
<1>3. \A i \in DOMAIN d.credits : d.credits[i] \in Tranches
  BY <1>1, <1>2, ElementOfSeq
<1>4. IsFiniteSet(1..Len(d.credits))
  BY <1>2, FS_Interval, 1 \in Int, Len(d.credits) \in Int
<1>5. \A i \in DOMAIN d.credits : d.credits[i].remaining <= d.credits[i].original
  BY DEF Sound
<1>. QED  BY <1>2, <1>3, <1>4, <1>5

\* The entries that RemainingOf adds up.
Left(d) == [i \in DOMAIN d.credits |-> d.credits[i].remaining]

LEMMA LeftIsNatural ==
  ASSUME NEW d \in Sound
  PROVE  \A i \in DOMAIN d.credits : Left(d)[i] \in Nat /\ Left(d)[i] = d.credits[i].remaining
BY Rows DEF Left, Tranches

LEMMA RemainingIsNatural ==
  ASSUME NEW d \in Sound, NEW S \in SUBSET DOMAIN d.credits
  PROVE  IsFiniteSet(S) /\ RemainingOf(d, S) \in Nat
<1>1. IsFiniteSet(S)
  BY Rows, FS_Subset
<1>2. SumFunctionOnSet(Left(d), S) \in Nat
  BY <1>1, LeftIsNatural, SumIsNatural
<1>. QED  BY <1>1, <1>2 DEF RemainingOf, Left

LEMMA RemainingOfNone ==
  ASSUME NEW d
  PROVE  RemainingOf(d, {}) = 0
BY SumOfNothing DEF RemainingOf

LEMMA RemainingOfPart ==
  ASSUME NEW d \in Sound, NEW S \in SUBSET DOMAIN d.credits, NEW P \in SUBSET S
  PROVE  RemainingOf(d, P) <= RemainingOf(d, S)
<1>1. IsFiniteSet(S)
  BY RemainingIsNatural
<1>2. SumFunctionOnSet(Left(d), P) <= SumFunctionOnSet(Left(d), S)
  BY <1>1, LeftIsNatural, SumOfPart
<1>. QED  BY <1>2 DEF RemainingOf, Left

LEMMA RemainingAgrees ==
  ASSUME NEW d \in Sound, NEW e \in Sound,
         NEW S, S \subseteq DOMAIN d.credits, S \subseteq DOMAIN e.credits,
         \A i \in S : e.credits[i].remaining = d.credits[i].remaining
  PROVE  RemainingOf(e, S) = RemainingOf(d, S)
<1>1. IsFiniteSet(S)
  BY RemainingIsNatural
<1>2. \A i \in S : Left(e)[i] \in Int /\ Left(e)[i] = Left(d)[i]
  BY LeftIsNatural
<1>3. SumFunctionOnSet(Left(e), S) = SumFunctionOnSet(Left(d), S)
  BY <1>1, <1>2, SumAgrees
<1>. QED  BY <1>3 DEF RemainingOf, Left

LEMMA RemainingAdded ==
  ASSUME NEW d \in Sound, NEW S \in SUBSET DOMAIN d.credits,
         NEW n \in DOMAIN d.credits, n \notin S
  PROVE  RemainingOf(d, S \cup {n}) = RemainingOf(d, S) + d.credits[n].remaining
<1>1. IsFiniteSet(S) /\ \A i \in S \cup {n} : Left(d)[i] \in Int
  BY RemainingIsNatural, LeftIsNatural
<1>2. SumFunctionOnSet(Left(d), S \cup {n}) = SumFunctionOnSet(Left(d), S) + Left(d)[n]
  BY <1>1, SumAdded
<1>. QED  BY <1>2, LeftIsNatural DEF RemainingOf, Left

LEMMA RemainingChanged ==
  ASSUME NEW d \in Sound, NEW e \in Sound,
         NEW S, S \subseteq DOMAIN d.credits, S \subseteq DOMAIN e.credits, NEW n \in S,
         \A i \in S \ {n} : e.credits[i].remaining = d.credits[i].remaining
  PROVE  RemainingOf(e, S)
           = RemainingOf(d, S) + (e.credits[n].remaining - d.credits[n].remaining)
<1>1. IsFiniteSet(S)
  BY RemainingIsNatural
<1>2. /\ \A i \in S : Left(d)[i] \in Int
      /\ Left(e)[n] \in Int /\ \A i \in S \ {n} : Left(e)[i] = Left(d)[i]
  BY LeftIsNatural
<1>3. SumFunctionOnSet(Left(e), S) = SumFunctionOnSet(Left(d), S) + (Left(e)[n] - Left(d)[n])
  BY <1>1, <1>2, SumOneChanged
<1>. QED  BY <1>3, LeftIsNatural DEF RemainingOf, Left
-----------------------------------------------------------------------------
(* What an operator of db/index.ts moves.                                  *)

UsableRows(d, b) == {i \in DOMAIN d.credits : /\ d.credits[i].borrower = b
                                              /\ d.credits[i].validDate >= day}

UsableBalance(d, b) == RemainingOf(d, UsableRows(d, b))

SameCounters(d, e) ==
  e.totalSpent = d.totalSpent /\ e.dailySpent = d.dailySpent /\ e.dailyReset = d.dailyReset

\* From d to e, b gains `today' in today's tranches and in balance_usd, and
\* `usable' in those of today and later; nobody else gains or loses.
Moves(d, e, b, today, usable) ==
  /\ e \in Sound /\ Owners(e) \subseteq Owners(d) \cup {b}
  /\ e.balance = [d.balance EXCEPT ![b] = @ + today]
  /\ SameCounters(d, e)
  /\ TodayBalance(e, b) = TodayBalance(d, b) + today
  /\ UsableBalance(e, b) = UsableBalance(d, b) + usable
  /\ \A c \in Borrowers \ {b} : /\ TodayBalance(e, c) = TodayBalance(d, c)
                                /\ UsableBalance(e, c) = UsableBalance(d, c)

\* Today's tranches are usable ones.
LEMMA TodayIsUsable ==
  ASSUME NEW d \in Sound, NEW b, day \in Int
  PROVE  /\ ForToday(d, b) \subseteq UsableRows(d, b)
         /\ UsableRows(d, b) \subseteq DOMAIN d.credits
         /\ TodayBalance(d, b) \in Nat /\ UsableBalance(d, b) \in Nat
         /\ TodayBalance(d, b) <= UsableBalance(d, b)
<1>1. ForToday(d, b) \subseteq UsableRows(d, b) /\ UsableRows(d, b) \subseteq DOMAIN d.credits
  BY DEF ForToday, UsableRows
<1>. QED  BY <1>1, RemainingIsNatural, RemainingOfPart DEF TodayBalance, UsableBalance

\* Two moves for the same borrower make one.
LEMMA MovesCompose ==
  ASSUME NEW d \in Sound, NEW e, NEW f, NEW b \in Borrowers, day \in Int,
         NEW t \in Int, NEW u \in Int, NEW t2 \in Int, NEW u2 \in Int,
         Moves(d, e, b, t, u), Moves(e, f, b, t2, u2)
  PROVE  Moves(d, f, b, t + t2, u + u2)
<1>1. TodayBalance(d, b) \in Nat /\ UsableBalance(d, b) \in Nat
  BY TodayIsUsable
<1>2. d.balance \in [Borrowers -> Int]
  BY DEF Sound, Books
<1>3. f.balance = [d.balance EXCEPT ![b] = @ + (t + t2)]
  BY <1>2 DEF Moves
<1>. QED  BY <1>1, <1>3 DEF Moves, SameCounters
-----------------------------------------------------------------------------
(* A new tranche, and a refilled one.                                      *)

\* A tranche that a purchase or a refund adds.
NewRow(b, amount, row) ==
  /\ row \in Tranches /\ row.borrower = b /\ ~row.expired
  /\ row.original = amount /\ row.remaining = amount

\* A new tranche is usable unless its date is over, and moves today's balance if
\* it is for today.
LEMMA RowAdded ==
  ASSUME NEW d \in Sound, NEW b \in Borrowers, NEW amount \in Nat, NEW row,
         NewRow(b, amount, row), day \in Int, NEW e,
         e = [d EXCEPT !.credits = Append(@, row),
                       !.balance[b] = IF row.validDate = day THEN @ + amount ELSE @]
  PROVE  Moves(d, e, b, IF row.validDate = day THEN amount ELSE 0,
                        IF row.validDate >= day THEN amount ELSE 0)
<1>. DEFINE n == Len(d.credits) + 1
            today == IF row.validDate = day THEN amount ELSE 0
            usable == IF row.validDate >= day THEN amount ELSE 0
<1>1. /\ Len(d.credits) \in Nat /\ DOMAIN d.credits = 1..Len(d.credits)
      /\ d.credits \in Seq(Tranches) /\ row \in Tranches
      /\ d \in Books /\ d.balance \in [Borrowers -> Int]
  BY Rows DEF NewRow, Sound, Books
<1>2. /\ e.credits = Append(d.credits, row)
      /\ e.balance = [d.balance EXCEPT ![b] = IF row.validDate = day THEN @ + amount ELSE @]
      /\ SameCounters(d, e)
  BY <1>1 DEF Books, SameCounters
<1>3. /\ e.credits \in Seq(Tranches) /\ Len(e.credits) = n
      /\ \A i \in 1..Len(d.credits) : e.credits[i] = d.credits[i]
      /\ e.credits[n] = row
  BY <1>1, <1>2, AppendProperties
<1>4. DOMAIN e.credits = DOMAIN d.credits \cup {n} /\ n \notin DOMAIN d.credits
  <2>1. DOMAIN e.credits = 1..n
    BY <1>3, LenProperties
  <2>. QED  BY <1>1, <2>1
<1>5. e \in Sound
  <2>1. e.balance \in [Borrowers -> Int]
    BY <1>1, <1>2
  <2>2. e \in Books
    BY <1>1, <1>3, <2>1 DEF Books
  <2>3. row.remaining <= row.original
    BY DEF NewRow
  <2>4. \A i \in DOMAIN e.credits : e.credits[i].remaining <= e.credits[i].original
    BY <1>1, <1>3, <1>4, <2>3 DEF Sound
  <2>. QED  BY <2>2, <2>4 DEF Sound
<1>6. Owners(e) \subseteq Owners(d) \cup {b}
  BY <1>1, <1>3, <1>4 DEF Owners, NewRow
<1>7. \A S \in SUBSET DOMAIN d.credits :
        /\ RemainingOf(e, S) = RemainingOf(d, S)
        /\ RemainingOf(e, S \cup {n}) = RemainingOf(d, S) + amount
        /\ RemainingOf(d, S) \in Nat
  <2>. SUFFICES ASSUME NEW S \in SUBSET DOMAIN d.credits
                PROVE  /\ RemainingOf(e, S) = RemainingOf(d, S)
                       /\ RemainingOf(e, S \cup {n}) = RemainingOf(d, S) + amount
                       /\ RemainingOf(d, S) \in Nat
    OBVIOUS
  <2>1. S \subseteq DOMAIN e.credits /\ n \in DOMAIN e.credits /\ n \notin S
    BY <1>4
  <2>2. \A i \in S : e.credits[i].remaining = d.credits[i].remaining
    BY <1>1, <1>3
  <2>3. e.credits[n].remaining = amount
    BY <1>3 DEF NewRow
  <2>4. RemainingOf(e, S) = RemainingOf(d, S)
    BY <1>5, <2>1, <2>2, RemainingAgrees
  <2>. HIDE DEF n
  <2>5. RemainingOf(e, S \cup {n}) = RemainingOf(e, S) + e.credits[n].remaining
    BY <1>5, <2>1, RemainingAdded
  <2>. QED  BY <2>3, <2>4, <2>5, RemainingIsNatural
<1>8. /\ ForToday(e, b) = ForToday(d, b) \cup (IF row.validDate = day THEN {n} ELSE {})
      /\ UsableRows(e, b) = UsableRows(d, b) \cup (IF row.validDate >= day THEN {n} ELSE {})
      /\ \A c \in Borrowers \ {b} : /\ ForToday(e, c) = ForToday(d, c)
                                    /\ UsableRows(e, c) = UsableRows(d, c)
  BY <1>1, <1>3, <1>4 DEF ForToday, UsableRows, NewRow
<1>9. \A c \in Borrowers : /\ ForToday(d, c) \in SUBSET DOMAIN d.credits
                           /\ UsableRows(d, c) \in SUBSET DOMAIN d.credits
  BY TodayIsUsable
<1>10. TodayBalance(e, b) = TodayBalance(d, b) + today
  <2>1. CASE row.validDate = day
    <3>1. ForToday(e, b) = ForToday(d, b) \cup {n}
      BY <1>8, <2>1
    <3>. HIDE DEF n
    <3>. QED  BY <1>7, <1>9, <2>1, <3>1 DEF TodayBalance
  <2>2. CASE row.validDate # day
    <3>1. ForToday(e, b) = ForToday(d, b)
      BY <1>8, <2>2
    <3>2. today = 0
      BY <2>2
    <3>3. TodayBalance(e, b) = TodayBalance(d, b) /\ TodayBalance(d, b) \in Nat
      BY <1>7, <1>9, <3>1 DEF TodayBalance
    <3>. QED  BY <3>2, <3>3
  <2>. QED  BY <2>1, <2>2
<1>11. UsableBalance(e, b) = UsableBalance(d, b) + usable
  <2>1. CASE row.validDate >= day
    <3>1. UsableRows(e, b) = UsableRows(d, b) \cup {n}
      BY <1>8, <2>1
    <3>. HIDE DEF n
    <3>. QED  BY <1>7, <1>9, <2>1, <3>1 DEF UsableBalance
  <2>2. CASE ~ (row.validDate >= day)
    <3>1. UsableRows(e, b) = UsableRows(d, b)
      BY <1>8, <2>2
    <3>2. UsableBalance(e, b) = UsableBalance(d, b) /\ UsableBalance(d, b) \in Nat
      BY <1>7, <1>9, <3>1 DEF UsableBalance
    <3>. QED  BY <2>2, <3>2
  <2>. QED  BY <2>1, <2>2
<1>12. \A c \in Borrowers \ {b} : /\ TodayBalance(e, c) = TodayBalance(d, c)
                                  /\ UsableBalance(e, c) = UsableBalance(d, c)
  BY <1>7, <1>8, <1>9 DEF TodayBalance, UsableBalance
<1>13. e.balance = [d.balance EXCEPT ![b] = @ + today]
  BY <1>1, <1>2
<1>. QED  BY <1>2, <1>5, <1>6, <1>10, <1>11, <1>12, <1>13 DEF Moves

\* A tranche with another amount left.
LEMMA RowWith ==
  ASSUME NEW row \in Tranches, NEW amount \in Nat
  PROVE  /\ [row EXCEPT !.remaining = amount] \in Tranches
         /\ [row EXCEPT !.remaining = amount].remaining = amount
         /\ [row EXCEPT !.remaining = amount].borrower = row.borrower
         /\ [row EXCEPT !.remaining = amount].validDate = row.validDate
         /\ [row EXCEPT !.remaining = amount].original = row.original
         /\ [row EXCEPT !.remaining = amount].expired = row.expired
BY DEF Tranches

LEMMA OneRowRefilled ==
  ASSUME NEW d \in Sound, NEW e \in Sound, DOMAIN e.credits = DOMAIN d.credits,
         NEW n \in DOMAIN d.credits, NEW back \in Nat,
         e.credits[n].remaining = d.credits[n].remaining + back,
         \A i \in DOMAIN d.credits \ {n} : e.credits[i] = d.credits[i],
         NEW S \in SUBSET DOMAIN d.credits
  PROVE  RemainingOf(e, S) = RemainingOf(d, S) + IF n \in S THEN back ELSE 0
<1>1. RemainingOf(d, S) \in Nat
  BY RemainingIsNatural
<1>2. CASE n \in S
  <2>1. \A i \in S \ {n} : e.credits[i].remaining = d.credits[i].remaining
    OBVIOUS
  <2>2. RemainingOf(e, S) = RemainingOf(d, S) + (e.credits[n].remaining - d.credits[n].remaining)
    BY <1>2, <2>1, RemainingChanged
  <2>3. d.credits[n].remaining \in Nat
    BY Rows DEF Tranches
  <2>. QED  BY <1>1, <1>2, <2>2, <2>3
<1>3. CASE n \notin S
  <2>1. \A i \in S : e.credits[i].remaining = d.credits[i].remaining
    BY <1>3
  <2>2. RemainingOf(e, S) = RemainingOf(d, S)
    BY <2>1, RemainingAgrees
  <2>. QED  BY <1>1, <1>3, <2>2
<1>. QED  BY <1>2, <1>3

\* Refilling a tranche of today up to what it was bought for.
LEMMA RowRefilled ==
  ASSUME NEW d \in Sound, NEW e \in Sound, NEW b \in Borrowers, day \in Int,
         NEW n \in ForToday(d, b), NEW back \in Nat,
         DOMAIN e.credits = DOMAIN d.credits,
         e.credits[n].remaining = d.credits[n].remaining + back,
         e.credits[n].borrower = d.credits[n].borrower,
         e.credits[n].validDate = d.credits[n].validDate,
         e.credits[n].expired = d.credits[n].expired,
         \A i \in DOMAIN d.credits \ {n} : e.credits[i] = d.credits[i],
         e.balance = [d.balance EXCEPT ![b] = @ + back], SameCounters(d, e)
  PROVE  Moves(d, e, b, back, back)
<1>1. n \in DOMAIN d.credits
  BY DEF ForToday
<1>3. /\ Owners(e) = Owners(d)
      /\ \A c : ForToday(e, c) = ForToday(d, c) /\ UsableRows(e, c) = UsableRows(d, c)
  <2>1. \A i \in DOMAIN d.credits : /\ e.credits[i].borrower = d.credits[i].borrower
                                    /\ e.credits[i].validDate = d.credits[i].validDate
                                    /\ e.credits[i].expired = d.credits[i].expired
    BY <1>1
  <2>. QED  BY <2>1 DEF Owners, ForToday, UsableRows
<1>4. \A S \in SUBSET DOMAIN d.credits :
        /\ RemainingOf(e, S) = RemainingOf(d, S) + IF n \in S THEN back ELSE 0
        /\ RemainingOf(d, S) \in Nat
  <2>. SUFFICES ASSUME NEW S \in SUBSET DOMAIN d.credits
                PROVE  /\ RemainingOf(e, S) = RemainingOf(d, S) + IF n \in S THEN back ELSE 0
                       /\ RemainingOf(d, S) \in Nat
    OBVIOUS
  <2>1. RemainingOf(e, S) = RemainingOf(d, S) + IF n \in S THEN back ELSE 0
    BY <1>1, OneRowRefilled
  <2>. QED  BY <2>1, RemainingIsNatural
<1>5. /\ \A c : /\ ForToday(d, c) \in SUBSET DOMAIN d.credits
                /\ UsableRows(d, c) \in SUBSET DOMAIN d.credits
      /\ n \in ForToday(d, b) /\ n \in UsableRows(d, b)
      /\ \A c \in Borrowers \ {b} : n \notin ForToday(d, c) /\ n \notin UsableRows(d, c)
  BY TodayIsUsable DEF ForToday, UsableRows
<1>6. /\ TodayBalance(e, b) = TodayBalance(d, b) + back
      /\ UsableBalance(e, b) = UsableBalance(d, b) + back
  BY <1>3, <1>4, <1>5 DEF TodayBalance, UsableBalance
<1>7. \A c \in Borrowers \ {b} : /\ TodayBalance(e, c) = TodayBalance(d, c)
                                 /\ UsableBalance(e, c) = UsableBalance(d, c)
  BY <1>3, <1>4, <1>5 DEF TodayBalance, UsableBalance
<1>. QED  BY <1>3, <1>6, <1>7 DEF Moves
-----------------------------------------------------------------------------
(* refundReservation and reserveBalance.                                   *)

\* Max finds a tranche of today where there is one.
LEMMA NewestIsToday ==
  ASSUME NEW d \in Sound, NEW b, ForToday(d, b) # {}
  PROVE  Max(ForToday(d, b)) \in ForToday(d, b)
<1>1. /\ ForToday(d, b) \in SUBSET Int /\ Len(d.credits) \in Int
      /\ \A i \in ForToday(d, b) : i <= Len(d.credits)
  BY Rows DEF ForToday
<1>2. \E n \in ForToday(d, b) : \A i \in ForToday(d, b) : i <= n
  BY <1>1, GreatestInteger
<1>3. \E n \in ForToday(d, b) : \A i \in ForToday(d, b) : n >= i
  BY <1>1, <1>2
<1>. QED  BY <1>3 DEF Max

LEMMA NothingMoves ==
  ASSUME NEW d \in Sound, NEW b \in Borrowers, day \in Int
  PROVE  Moves(d, d, b, 0, 0)
<1>1. d.balance \in [Borrowers -> Int]
  BY DEF Sound, Books
<1>2. TodayBalance(d, b) \in Nat /\ UsableBalance(d, b) \in Nat
  BY TodayIsUsable
<1>3. d.balance = [d.balance EXCEPT ![b] = @ + 0]
  BY <1>1
<1>. QED  BY <1>2, <1>3 DEF Moves, SameCounters

\* A refund goes back to the borrower in full, in one tranche of today or two.
LEMMA RefundMoves ==
  ASSUME NEW d \in Sound, NEW b \in Borrowers, NEW amount \in Nat, day \in 0..MaxDay
  PROVE  Moves(d, RefundReservation(d, b, amount), b, amount, amount)
<1>. DEFINE today == ForToday(d, b)
            newest == Max(today)
            room == d.credits[newest].original - d.credits[newest].remaining
            back == IF today = {} THEN 0 ELSE IF amount < room THEN amount ELSE room
            refilled == IF back = 0 THEN d.credits
                        ELSE [d.credits EXCEPT ![newest].remaining = @ + back]
            d1 == [d EXCEPT !.credits = refilled, !.balance[b] = @ + back]
            row == RefundTranche(b, amount - back)
            d2 == [d1 EXCEPT !.credits = Append(@, row), !.balance[b] = @ + (amount - back)]
<1>1. d \in Books /\ d.balance \in [Borrowers -> Int] /\ d.credits \in Seq(Tranches)
  BY DEF Sound, Books
<1>2. today # {} => /\ newest \in today /\ newest \in DOMAIN d.credits
                    /\ d.credits[newest] \in Tranches
                    /\ d.credits[newest].remaining \in Nat
                    /\ d.credits[newest].original \in Nat /\ room \in Nat
  <2>. SUFFICES ASSUME today # {}
                PROVE  /\ newest \in today /\ newest \in DOMAIN d.credits
                       /\ d.credits[newest] \in Tranches
                       /\ d.credits[newest].remaining \in Nat
                       /\ d.credits[newest].original \in Nat /\ room \in Nat
    OBVIOUS
  <2>1. newest \in today
    BY NewestIsToday
  <2>2. newest \in DOMAIN d.credits
    BY <2>1 DEF ForToday
  <2>. HIDE DEF newest
  <2>3. d.credits[newest] \in Tranches /\ d.credits[newest].remaining <= d.credits[newest].original
    BY <2>2, Rows
  <2>. QED  BY <2>1, <2>2, <2>3 DEF Tranches
<1>3. /\ back \in Nat /\ back <= amount /\ amount - back \in Nat
      /\ back # 0 => today # {} /\ back <= room
  BY <1>2
<1>. HIDE DEF newest, room, back, today
<1>4. Moves(d, d1, b, back, back)
  <2>1. CASE back = 0
    <3>. HIDE DEF refilled
    <3>1. refilled = d.credits /\ [d.balance EXCEPT ![b] = @ + back] = d.balance
      BY <1>1, <2>1 DEF refilled
    <3>2. d1 = d
      BY <1>1, <3>1 DEF Books
    <3>3. day \in Int
      OBVIOUS
    <3>. QED  BY <2>1, <3>2, <3>3, NothingMoves
  <2>2. CASE back # 0
    <3>. DEFINE left == d.credits[newest].remaining + back
                refill == [d.credits[newest] EXCEPT !.remaining = left]
    <3>1. /\ newest \in today /\ newest \in DOMAIN d.credits /\ d.credits[newest] \in Tranches
          /\ left \in Nat /\ left <= d.credits[newest].original
      BY <1>2, <1>3, <2>2 DEF room
    <3>. HIDE DEF left
    <3>2. /\ refill \in Tranches /\ refill.remaining = left
          /\ refill.borrower = d.credits[newest].borrower
          /\ refill.validDate = d.credits[newest].validDate
          /\ refill.original = d.credits[newest].original
          /\ refill.expired = d.credits[newest].expired
      BY <3>1, RowWith
    <3>3. /\ d1.credits = [d.credits EXCEPT ![newest] = refill]
          /\ d1.balance = [d.balance EXCEPT ![b] = @ + back]
          /\ SameCounters(d, d1)
      BY <1>1, <2>2 DEF Books, SameCounters, left
    <3>4. d1.balance \in [Borrowers -> Int]
      BY <1>1, <1>3, <3>3
    <3>. HIDE DEF refill
    <3>5. /\ d1.credits \in Seq(Tranches) /\ DOMAIN d1.credits = DOMAIN d.credits
          /\ d1.credits[newest] = refill
          /\ \A i \in DOMAIN d.credits \ {newest} : d1.credits[i] = d.credits[i]
      <4>1. /\ newest \in 1..Len(d.credits)
        BY <3>1, Rows
      <4>2. [d.credits EXCEPT ![newest] = refill] \in Seq(Tranches)
        BY <1>1, <3>2, <4>1, ExceptSeq
      <4>. QED  BY <3>1, <3>3, <4>2
    <3>6. d1 \in Books
      BY <1>1, <3>4, <3>5 DEF Books
    <3>. HIDE DEF d1
    <3>7. d1 \in Sound
      BY <3>1, <3>2, <3>5, <3>6 DEF Sound
    <3>8. /\ d1.credits[newest].remaining = d.credits[newest].remaining + back
          /\ d1.credits[newest].borrower = d.credits[newest].borrower
          /\ d1.credits[newest].validDate = d.credits[newest].validDate
          /\ d1.credits[newest].expired = d.credits[newest].expired
      BY <3>2, <3>5 DEF left
    <3>9. day \in Int /\ newest \in ForToday(d, b)
      BY <3>1 DEF today
    <3>. QED  BY <1>3, <3>3, <3>5, <3>7, <3>8, <3>9, RowRefilled
  <2>. QED  BY <2>1, <2>2
<1>5. CASE back = amount
  <2>1. RefundReservation(d, b, amount) = d1
    BY <1>5 DEF RefundReservation, back, room, newest, today
  <2>. QED  BY <1>4, <1>5, <2>1
<1>6. CASE back # amount
  <2>1. d1.balance[b] = d.balance[b] + back /\ d1.balance = [d.balance EXCEPT ![b] = @ + back]
    BY <1>1 DEF Books
  <2>2. d2.balance = [d.balance EXCEPT ![b] = @ + amount]
    BY <1>1, <1>3, <2>1
  <2>3. RefundReservation(d, b, amount) = [d EXCEPT !.credits = Append(refilled, row),
                                                    !.balance[b] = @ + amount]
    BY <1>6 DEF RefundReservation, back, room, newest, today
  <2>4. RefundReservation(d, b, amount) = d2
    BY <1>1, <2>2, <2>3 DEF Books
  <2>5. /\ day \in Days /\ day \in Int /\ row \in Tranches
        /\ NewRow(b, amount - back, row) /\ row.validDate = day
    BY <1>3, RelayAssumption DEF RefundTranche, NewRow, Tranches, Days
  <2>6. d1 \in Sound
    BY <1>4 DEF Moves
  <2>. HIDE DEF d1, row
  <2>7. d2 = [d1 EXCEPT !.credits = Append(@, row),
                        !.balance[b] = IF row.validDate = day THEN @ + (amount - back) ELSE @]
    BY <2>5
  <2>. HIDE DEF d2
  <2>8. Moves(d1, d2, b, amount - back, amount - back)
    <3>1. Moves(d1, d2, b, IF row.validDate = day THEN amount - back ELSE 0,
                           IF row.validDate >= day THEN amount - back ELSE 0)
      BY <1>3, <2>5, <2>6, <2>7, RowAdded
    <3>. QED  BY <2>5, <3>1
  <2>9. Moves(d, d2, b, back + (amount - back), back + (amount - back))
    BY <1>3, <1>4, <2>5, <2>8, MovesCompose
  <2>. QED  BY <1>3, <2>4, <2>9
<1>. QED  BY <1>5, <1>6

Least(m, n) == IF m < n THEN m ELSE n

Before(d, b, k) == {j \in ForToday(d, b) : j < k}

Taken(d, b, amount) == [i \in DOMAIN d.credits |-> TakenFrom(d, b, amount, i)]

LEMMA RowsBefore ==
  ASSUME NEW d \in Sound, NEW b, NEW k \in Int
  PROVE  /\ Before(d, b, k) \in SUBSET DOMAIN d.credits /\ IsFiniteSet(Before(d, b, k))
         /\ RemainingOf(d, Before(d, b, k)) \in Nat
<1>1. Before(d, b, k) \in SUBSET DOMAIN d.credits
  BY DEF Before, ForToday
<1>. QED  BY <1>1, RemainingIsNatural

\* What is left of the amount is taken from a tranche of today, as far as it
\* goes, and nothing from others.
LEMMA TakenFromRow ==
  ASSUME NEW d \in Sound, NEW b, NEW amount \in Nat, NEW i \in DOMAIN d.credits
  PROVE  LET before == RemainingOf(d, Before(d, b, i))
         IN  /\ d.credits[i].remaining \in Nat /\ before \in Nat
             /\ Taken(d, b, amount)[i] \in Nat
             /\ Taken(d, b, amount)[i] <= d.credits[i].remaining
             /\ i \notin ForToday(d, b) => Taken(d, b, amount)[i] = 0
             /\ i \in ForToday(d, b) =>
                  Least(amount, before) + Taken(d, b, amount)[i]
                    = Least(amount, before + d.credits[i].remaining)
<1>. DEFINE before == RemainingOf(d, Before(d, b, i))
            left == d.credits[i].remaining
            wanted == IF before < amount THEN amount - before ELSE 0
<1>1. i \in Int
  BY Rows
<1>2. before \in Nat
  BY <1>1, RowsBefore
<1>3. left \in Nat
  BY Rows DEF Tranches
<1>4. Taken(d, b, amount)[i] = IF i \notin ForToday(d, b) THEN 0
                               ELSE IF wanted < left THEN wanted ELSE left
  BY DEF Taken, TakenFrom, Before
<1>. HIDE DEF before, left
<1>5. /\ Taken(d, b, amount)[i] \in Nat /\ Taken(d, b, amount)[i] <= left
      /\ i \notin ForToday(d, b) => Taken(d, b, amount)[i] = 0
  BY <1>2, <1>3, <1>4
<1>6. i \in ForToday(d, b) =>
        Least(amount, before) + Taken(d, b, amount)[i] = Least(amount, before + left)
  BY <1>2, <1>3, <1>4 DEF Least
<1>. QED  BY <1>2, <1>3, <1>5, <1>6 DEF before, left

\* What is taken from the tranches before the k-th is the amount, as far as
\* they go: the oldest are used up first.
LEMMA Waterfall ==
  ASSUME NEW d \in Sound, NEW b, NEW amount \in Nat, NEW k \in 1..Len(d.credits) + 1
  PROVE  SumFunctionOnSet(Taken(d, b, amount), Before(d, b, k))
           = Least(amount, RemainingOf(d, Before(d, b, k)))
<1>. DEFINE Right(m) == SumFunctionOnSet(Taken(d, b, amount), Before(d, b, m))
                          = Least(amount, RemainingOf(d, Before(d, b, m)))
            Wrong == {m \in 1..Len(d.credits) + 1 : ~ Right(m)}
<1>. HIDE DEF Right
<1>1. Len(d.credits) \in Nat /\ DOMAIN d.credits = 1..Len(d.credits)
  BY Rows
<1>2. ForToday(d, b) \in SUBSET DOMAIN d.credits
  BY DEF ForToday
<1>3. Right(1)
  <2>1. Before(d, b, 1) = {}
    BY <1>1, <1>2 DEF Before
  <2>2. /\ SumFunctionOnSet(Taken(d, b, amount), Before(d, b, 1)) = 0
        /\ RemainingOf(d, Before(d, b, 1)) = 0
    BY <2>1, SumOfNothing, RemainingOfNone
  <2>. QED  BY <2>2 DEF Least, Right
<1>4. ASSUME NEW h \in DOMAIN d.credits, Right(h)  PROVE Right(h + 1)
  <2>1. h \in Int
    BY <1>1
  <2>2. CASE h \notin ForToday(d, b)
    <3>1. Before(d, b, h + 1) = Before(d, b, h)
      BY <1>1, <1>2, <2>1, <2>2 DEF Before
    <3>. QED  BY <1>4, <3>1 DEF Right
  <2>3. CASE h \in ForToday(d, b)
    <3>1. Before(d, b, h + 1) = Before(d, b, h) \cup {h} /\ h \notin Before(d, b, h)
      BY <1>1, <1>2, <2>1, <2>3 DEF Before
    <3>2. RemainingOf(d, Before(d, b, h) \cup {h})
            = RemainingOf(d, Before(d, b, h)) + d.credits[h].remaining
      BY <2>1, <3>1, RowsBefore, RemainingAdded
    <3>3. SumFunctionOnSet(Taken(d, b, amount), Before(d, b, h) \cup {h})
            = SumFunctionOnSet(Taken(d, b, amount), Before(d, b, h)) + Taken(d, b, amount)[h]
      <4>1. \A j \in Before(d, b, h) \cup {h} : j \in DOMAIN d.credits
        BY <2>1, RowsBefore
      <4>2. \A j \in Before(d, b, h) \cup {h} : Taken(d, b, amount)[j] \in Int
        BY <4>1, TakenFromRow
      <4>3. IsFiniteSet(Before(d, b, h))
        BY <2>1, RowsBefore
      <4>. QED  BY <3>1, <4>2, <4>3, SumAdded
    <3>4. Least(amount, RemainingOf(d, Before(d, b, h))) + Taken(d, b, amount)[h]
            = Least(amount, RemainingOf(d, Before(d, b, h)) + d.credits[h].remaining)
      BY <2>3, TakenFromRow
    <3>. QED  BY <1>4, <3>1, <3>2, <3>3, <3>4 DEF Right
  <2>. QED  BY <2>2, <2>3
<1>5. Wrong = {}
  <2>. SUFFICES ASSUME Wrong # {}  PROVE FALSE
    OBVIOUS
  <2>1. Wrong \in SUBSET Nat
    BY <1>1
  <2>2. PICK m \in Wrong : \A n \in Wrong : m <= n
    BY <2>1, LeastNatural
  <2>3. m \in 1..Len(d.credits) + 1 /\ ~ Right(m) /\ m \in Nat
    BY <2>1
  <2>4. m # 1
    BY <1>3, <2>3
  <2>5. m - 1 \in DOMAIN d.credits /\ m - 1 \in 1..Len(d.credits) + 1 /\ ~ m <= m - 1
    BY <1>1, <2>3, <2>4
  <2>6. m - 1 \notin Wrong
    BY <2>2, <2>5
  <2>7. Right(m - 1) /\ (m - 1) + 1 = m
    BY <2>3, <2>5, <2>6
  <2>. QED  BY <1>4, <2>3, <2>5, <2>7
<1>. QED  BY <1>5 DEF Right

\* A reservation that goes through takes the whole amount from today's tranches
\* and leaves none of them below nothing.
LEMMA ReserveMoves ==
  ASSUME NEW d \in Sound, NEW b \in Borrowers, NEW amount \in Nat, day \in Int,
         CanReserve(d, b, amount)
  PROVE  Moves(d, ReserveBalance(d, b, amount), b, -amount, -amount)
<1>. DEFINE taken == Taken(d, b, amount)
            rows == [i \in DOMAIN d.credits |-> [d.credits[i] EXCEPT !.remaining = @ - taken[i]]]
            today == ForToday(d, b)
            e == ReserveBalance(d, b, amount)
<1>1. /\ d \in Books /\ d.balance \in [Borrowers -> Int]
      /\ Len(d.credits) \in Nat /\ DOMAIN d.credits = 1..Len(d.credits)
      /\ today \in SUBSET DOMAIN d.credits
  BY Rows DEF Sound, Books, ForToday
<1>2. \A i \in DOMAIN d.credits :
        /\ d.credits[i] \in Tranches /\ d.credits[i].remaining \in Nat
        /\ d.credits[i].remaining <= d.credits[i].original /\ d.credits[i].original \in Nat
  BY Rows DEF Tranches
<1>3. \A i \in DOMAIN d.credits : /\ taken[i] \in Nat /\ taken[i] <= d.credits[i].remaining
                                  /\ i \notin today => taken[i] = 0
  BY TakenFromRow
<1>4. e = [d EXCEPT !.credits = rows, !.balance[b] = @ - amount]
  BY DEF ReserveBalance, Taken
<1>5. SumFunctionOnSet(taken, today) = amount
  <2>. DEFINE n == Len(d.credits) + 1
  <2>1. n \in 1..Len(d.credits) + 1 /\ Before(d, b, n) = today
    BY <1>1 DEF Before
  <2>2. SumFunctionOnSet(taken, today) = Least(amount, RemainingOf(d, today))
    BY <2>1, Waterfall
  <2>3. RemainingOf(d, today) >= amount /\ RemainingOf(d, today) \in Nat
    BY <1>1, RemainingIsNatural DEF CanReserve, TodayBalance
  <2>. QED  BY <2>2, <2>3 DEF Least
<1>. HIDE DEF taken
<1>6. \A i \in DOMAIN d.credits :
        /\ rows[i] \in Tranches /\ rows[i].remaining = d.credits[i].remaining - taken[i]
        /\ rows[i].borrower = d.credits[i].borrower /\ rows[i].original = d.credits[i].original
        /\ rows[i].validDate = d.credits[i].validDate /\ rows[i].expired = d.credits[i].expired
  <2>. SUFFICES ASSUME NEW i \in DOMAIN d.credits
                PROVE  LET row == [d.credits[i] EXCEPT !.remaining = d.credits[i].remaining - taken[i]]
                       IN  /\ row \in Tranches /\ row.remaining = d.credits[i].remaining - taken[i]
                           /\ row.borrower = d.credits[i].borrower
                           /\ row.original = d.credits[i].original
                           /\ row.validDate = d.credits[i].validDate
                           /\ row.expired = d.credits[i].expired
    OBVIOUS
  <2>1. d.credits[i] \in Tranches /\ d.credits[i].remaining - taken[i] \in Nat
    BY <1>2, <1>3
  <2>. QED  BY <2>1, RowWith
<1>. HIDE DEF rows
<1>7. /\ e.credits = rows /\ e.balance = [d.balance EXCEPT ![b] = @ + (-amount)]
      /\ SameCounters(d, e)
  BY <1>1, <1>4 DEF Books, SameCounters
<1>8. DOMAIN e.credits = DOMAIN d.credits
  BY <1>7 DEF rows
<1>9. e \in Sound
  <2>1. rows \in Seq(Tranches)
    <3>1. rows \in [1..Len(d.credits) -> Tranches]
      BY <1>1, <1>6 DEF rows
    <3>. QED  BY <1>1, <3>1, SeqDef
  <2>2. e.balance \in [Borrowers -> Int]
    BY <1>1, <1>7
  <2>3. e \in Books
    BY <1>1, <1>4, <1>7, <2>1, <2>2 DEF Books
  <2>4. \A i \in DOMAIN e.credits : e.credits[i].remaining <= e.credits[i].original
    BY <1>2, <1>3, <1>6, <1>7, <1>8
  <2>. QED  BY <2>3, <2>4 DEF Sound
<1>10. /\ \A i \in DOMAIN d.credits : /\ e.credits[i].borrower = d.credits[i].borrower
                                      /\ e.credits[i].validDate = d.credits[i].validDate
                                      /\ e.credits[i].expired = d.credits[i].expired
  BY <1>6, <1>7
<1>. HIDE DEF e
<1>11. /\ Owners(e) = Owners(d)
       /\ \A c : ForToday(e, c) = ForToday(d, c) /\ UsableRows(e, c) = UsableRows(d, c)
  BY <1>8, <1>10 DEF Owners, ForToday, UsableRows
<1>12. ASSUME NEW S \in SUBSET DOMAIN d.credits
       PROVE  /\ today \subseteq S => RemainingOf(e, S) = RemainingOf(d, S) + (-amount)
              /\ today \cap S = {} => RemainingOf(e, S) = RemainingOf(d, S)
  <2>1. IsFiniteSet(S) /\ RemainingOf(d, S) \in Nat
    BY RemainingIsNatural
  <2>2. \A i \in S : /\ Left(d)[i] \in Int /\ taken[i] \in Int
                     /\ Left(e)[i] = Left(d)[i] - taken[i]
    BY <1>3, <1>6, <1>7, <1>8, <1>9, LeftIsNatural
  <2>3. SumFunctionOnSet(Left(e), S) = SumFunctionOnSet(Left(d), S) - SumFunctionOnSet(taken, S)
    BY <2>1, <2>2, SumOfDifference
  <2>4. RemainingOf(e, S) = RemainingOf(d, S) - SumFunctionOnSet(taken, S)
    BY <2>3 DEF RemainingOf, Left
  <2>5. CASE today \subseteq S
    <3>1. SumFunctionOnSet(taken, S) = SumFunctionOnSet(taken, today)
      <4>. HIDE DEF today
      <4>1. \A x \in today : taken[x] \in Int /\ taken[x] = taken[x]
        BY <1>1, <1>3
      <4>2. \A x \in S \ today : taken[x] = 0
        BY <1>3
      <4>. QED  BY <2>1, <2>5, <4>1, <4>2, SumOfSelected
    <3>2. today \cap S = {} => amount = 0
      <4>1. today \cap S = {} => today = {}
        BY <2>5
      <4>. QED  BY <1>5, <4>1, SumOfNothing
    <3>. QED  BY <1>5, <2>1, <2>4, <2>5, <3>1, <3>2
  <2>6. CASE today \cap S = {} /\ ~ today \subseteq S
    <3>1. \A i \in S : taken[i] = 0
      BY <1>3, <2>6
    <3>2. SumFunctionOnSet(taken, S) = 0
      BY <2>1, <3>1, SumOfZeros
    <3>. QED  BY <2>1, <2>4, <2>6, <3>2
  <2>. QED  BY <2>5, <2>6
<1>13. /\ \A c : /\ ForToday(d, c) \in SUBSET DOMAIN d.credits
                 /\ UsableRows(d, c) \in SUBSET DOMAIN d.credits
       /\ today \subseteq ForToday(d, b) /\ today \subseteq UsableRows(d, b)
       /\ \A c \in Borrowers \ {b} : today \cap ForToday(d, c) = {} /\ today \cap UsableRows(d, c) = {}
  BY TodayIsUsable DEF ForToday, UsableRows
<1>14. /\ TodayBalance(e, b) = TodayBalance(d, b) + (-amount)
       /\ UsableBalance(e, b) = UsableBalance(d, b) + (-amount)
  BY <1>11, <1>12, <1>13 DEF TodayBalance, UsableBalance
<1>15. \A c \in Borrowers \ {b} : /\ TodayBalance(e, c) = TodayBalance(d, c)
                                  /\ UsableBalance(e, c) = UsableBalance(d, c)
  BY <1>11, <1>12, <1>13 DEF TodayBalance, UsableBalance
<1>16. Moves(d, e, b, -amount, -amount)
  BY <1>7, <1>9, <1>11, <1>14, <1>15 DEF Moves
<1>. QED  BY <1>16 DEF e
-----------------------------------------------------------------------------
(* The tables after a step, apart from the tranches.                       *)

\* What every operator keeps: the tables are sound, a balance that was right is
\* right, no reset is ahead of the calendar, and no tranche is another
\* borrower's than b's or one's who had some.
Follows(d, e, b) ==
  /\ e \in Sound /\ Owners(e) \subseteq Owners(d) \cup {b}
  /\ \A c \in Borrowers : /\ RightFor(d, c) => RightFor(e, c)
                          /\ d.dailyReset[c] <= day => e.dailyReset[c] <= day

\* The step in the account of b: `usable' more to spend, `spent' more spent.
Accounted(d, e, b, usable, spent) ==
  /\ e.totalSpent = [d.totalSpent EXCEPT ![b] = @ + spent]
  /\ UsableBalance(e, b) = UsableBalance(d, b) + usable
  /\ \A c \in Borrowers \ {b} : UsableBalance(e, c) = UsableBalance(d, c)

LEMMA MovesFollow ==
  ASSUME NEW d \in Sound, NEW e, NEW b \in Borrowers, NEW t \in Int, NEW u \in Int,
         Moves(d, e, b, t, u)
  PROVE  Follows(d, e, b) /\ Accounted(d, e, b, u, 0)
<1>1. d.balance \in [Borrowers -> Int] /\ d.totalSpent \in [Borrowers -> Nat]
  BY DEF Sound, Books
<1>2. \A c \in Borrowers : RightFor(d, c) => RightFor(e, c)
  BY <1>1 DEF Moves, SameCounters, RightFor
<1>3. d.totalSpent = [d.totalSpent EXCEPT ![b] = @ + 0]
  BY <1>1
<1>. QED  BY <1>2, <1>3 DEF Moves, SameCounters, Follows, Accounted

\* Tables with the same tranches, but for what has expired.
SameTranches(d, e) ==
  /\ DOMAIN e.credits = DOMAIN d.credits
  /\ \A i \in DOMAIN d.credits : /\ e.credits[i].borrower = d.credits[i].borrower
                                 /\ e.credits[i].validDate = d.credits[i].validDate
                                 /\ e.credits[i].remaining = d.credits[i].remaining
                                 /\ d.credits[i].validDate >= day =>
                                      e.credits[i].expired = d.credits[i].expired

LEMMA SameTranchesSameSums ==
  ASSUME NEW d \in Sound, NEW e \in Sound, SameTranches(d, e), day \in Int
  PROVE  /\ Owners(e) = Owners(d)
         /\ \A c : /\ TodayBalance(e, c) = TodayBalance(d, c)
                   /\ UsableBalance(e, c) = UsableBalance(d, c)
<1>1. Owners(e) = Owners(d)
  BY DEF SameTranches, Owners
<1>2. \A S \in SUBSET DOMAIN d.credits : RemainingOf(e, S) = RemainingOf(d, S)
  BY RemainingAgrees DEF SameTranches
<1>3. \A i \in DOMAIN d.credits : d.credits[i].validDate \in Int
  BY Rows DEF Tranches, Days
<1>4. \A c : /\ ForToday(e, c) = ForToday(d, c) /\ UsableRows(e, c) = UsableRows(d, c)
             /\ ForToday(d, c) \in SUBSET DOMAIN d.credits
             /\ UsableRows(d, c) \in SUBSET DOMAIN d.credits
  BY <1>3 DEF SameTranches, ForToday, UsableRows
<1>. QED  BY <1>1, <1>2, <1>4 DEF TodayBalance, UsableBalance

\* The daily reset: today's counters, and a balance that is right.
LEMMA ResetFollows ==
  ASSUME NEW d \in Sound, NEW b \in Borrowers, day \in 0..MaxDay, d.dailyReset[b] <= day
  PROVE  LET e == ResetDailyIfNeeded(d, b)
         IN  /\ Follows(d, e, b) /\ Accounted(d, e, b, 0, 0)
             /\ \A c : TodayBalance(e, c) = TodayBalance(d, c)
             /\ RightFor(d, b) => e.balance[b] = TodayBalance(e, b)
<1>. DEFINE e == ResetDailyIfNeeded(d, b)
            balance == IF d.dailyReset[b] < day THEN [d.balance EXCEPT ![b] = TodayBalance(d, b)]
                       ELSE d.balance
<1>1. /\ d \in Books /\ d.balance \in [Borrowers -> Int] /\ d.totalSpent \in [Borrowers -> Nat]
      /\ d.dailySpent \in [Borrowers -> Nat] /\ d.dailyReset \in [Borrowers -> {NoDay} \cup Days]
      /\ d.dailyReset[b] \in Int /\ day \in Int /\ day \in Days
  BY RelayAssumption DEF Sound, Books, Days, NoDay
<1>2. TodayBalance(d, b) \in Nat /\ UsableBalance(d, b) \in Nat
  BY <1>1, TodayIsUsable
<1>3. TodayBalance(MarkReset(d, b), b) = TodayBalance(d, b)
  BY <1>1 DEF MarkReset, Books, TodayBalance, RemainingOf, ForToday
<1>4. /\ e \in Books /\ e.credits = d.credits /\ e.totalSpent = d.totalSpent
      /\ e.balance = balance /\ e.dailyReset = [d.dailyReset EXCEPT ![b] = day]
  <2>1. CASE d.dailyReset[b] < day
    <3>. DEFINE m == MarkReset(d, b)
    <3>1. /\ m.credits = d.credits /\ m.totalSpent = d.totalSpent /\ m.balance = d.balance
          /\ m.dailyReset = [d.dailyReset EXCEPT ![b] = day] /\ m \in Books
      BY <1>1 DEF MarkReset, Books
    <3>2. e = [m EXCEPT !.balance[b] = TodayBalance(d, b)]
      BY <1>3, <2>1 DEF ResetDailyIfNeeded, SyncBalance
    <3>. HIDE DEF m, e
    <3>3. /\ e.credits = d.credits /\ e.totalSpent = d.totalSpent
          /\ e.balance = [d.balance EXCEPT ![b] = TodayBalance(d, b)]
          /\ e.dailyReset = [d.dailyReset EXCEPT ![b] = day]
      BY <3>1, <3>2 DEF Books
    <3>4. e.balance \in [Borrowers -> Int]
      BY <1>1, <1>2, <3>3
    <3>5. e \in Books
      BY <3>1, <3>2, <3>3, <3>4 DEF Books
    <3>. QED  BY <2>1, <3>3, <3>5
  <2>2. CASE ~ d.dailyReset[b] < day
    <3>1. d.dailyReset[b] = day
      BY <1>1, <2>2
    <3>. QED  BY <1>1, <2>2, <3>1 DEF ResetDailyIfNeeded
  <2>. QED  BY <2>1, <2>2
<1>. HIDE DEF e
<1>5. e \in Sound /\ SameTranches(d, e)
  BY <1>4 DEF Sound, SameTranches
<1>6. Owners(e) = Owners(d) /\ \A c : /\ TodayBalance(e, c) = TodayBalance(d, c)
                                      /\ UsableBalance(e, c) = UsableBalance(d, c)
  BY <1>1, <1>5, SameTranchesSameSums
<1>7. RightFor(d, b) => e.balance[b] = TodayBalance(e, b)
  <2>1. CASE d.dailyReset[b] < day
    BY <1>1, <1>4, <1>6, <2>1
  <2>2. CASE ~ d.dailyReset[b] < day
    <3>1. d.dailyReset[b] = day
      BY <1>1, <2>2
    <3>. QED  BY <1>4, <1>6, <2>2, <3>1 DEF RightFor
  <2>. QED  BY <2>1, <2>2
<1>8. \A c \in Borrowers : /\ RightFor(d, c) => RightFor(e, c)
                           /\ d.dailyReset[c] <= day => e.dailyReset[c] <= day
  <2>. SUFFICES ASSUME NEW c \in Borrowers
                PROVE  /\ RightFor(d, c) => RightFor(e, c)
                       /\ d.dailyReset[c] <= day => e.dailyReset[c] <= day
    OBVIOUS
  <2>1. CASE c = b
    BY <1>1, <1>4, <1>7, <2>1 DEF RightFor
  <2>2. CASE c # b
    BY <1>1, <1>4, <1>6, <2>2 DEF RightFor
  <2>. QED  BY <2>1, <2>2
<1>9. d.totalSpent = [d.totalSpent EXCEPT ![b] = @ + 0]
  BY <1>1
<1>10. Follows(d, e, b)
  BY <1>5, <1>6, <1>8 DEF Follows
<1>11. Accounted(d, e, b, 0, 0)
  BY <1>2, <1>4, <1>6, <1>9 DEF Accounted
<1>. QED  BY <1>6, <1>7, <1>10, <1>11 DEF e

LEMMA FollowsCompose ==
  ASSUME NEW d \in Sound, NEW e, NEW f, NEW b \in Borrowers, day \in Int,
         NEW u \in Int, NEW u2 \in Int, NEW spent \in Int, NEW spent2 \in Int,
         Follows(d, e, b), Follows(e, f, b),
         Accounted(d, e, b, u, spent), Accounted(e, f, b, u2, spent2)
  PROVE  Follows(d, f, b) /\ Accounted(d, f, b, u + u2, spent + spent2)
<1>1. UsableBalance(d, b) \in Nat /\ d.totalSpent \in [Borrowers -> Nat]
  BY TodayIsUsable DEF Sound, Books
<1>2. f.totalSpent = [d.totalSpent EXCEPT ![b] = @ + (spent + spent2)]
  <2>1. e.totalSpent = [d.totalSpent EXCEPT ![b] = @ + spent]
    BY DEF Accounted
  <2>2. f.totalSpent = [e.totalSpent EXCEPT ![b] = @ + spent2]
    BY DEF Accounted
  <2>. QED  BY <1>1, <2>1, <2>2
<1>. QED  BY <1>1, <1>2 DEF Follows, Accounted

\* Tables that differ only in what was spent.
LEMMA OnlyCounters ==
  ASSUME NEW d \in Sound, NEW e \in Books, NEW b \in Borrowers, NEW spent \in Int, day \in Int,
         e.credits = d.credits, e.balance = d.balance, e.dailyReset = d.dailyReset,
         e.totalSpent = [d.totalSpent EXCEPT ![b] = @ + spent]
  PROVE  Follows(d, e, b) /\ Accounted(d, e, b, 0, spent)
<1>1. e \in Sound /\ SameTranches(d, e)
  BY DEF Sound, SameTranches
<1>2. Owners(e) = Owners(d) /\ \A c : /\ TodayBalance(e, c) = TodayBalance(d, c)
                                      /\ UsableBalance(e, c) = UsableBalance(d, c)
  BY <1>1, SameTranchesSameSums
<1>3. UsableBalance(d, b) \in Nat
  BY TodayIsUsable
<1>4. Follows(d, e, b)
  BY <1>1, <1>2 DEF Follows, RightFor
<1>. QED  BY <1>2, <1>3, <1>4 DEF Accounted

\* A settlement charges the whole cost and returns what of the reservation is
\* left over; a cost above the reservation is taken from the tranches or not.
LEMMA SettleFollows ==
  ASSUME NEW d \in Sound, NEW b \in Borrowers, NEW reserved \in Nat, NEW charged \in Nat,
         day \in 0..MaxDay, d.dailyReset[b] <= day
  PROVE  LET e == SettleUsage(d, b, reserved, charged)
         IN  /\ Follows(d, e, b)
             /\ \/ Accounted(d, e, b, reserved - charged, charged)
                \/ charged > reserved /\ Accounted(d, e, b, 0, charged)
<1>. DEFINE settled == IF reserved > charged THEN RefundReservation(d, b, reserved - charged)
                       ELSE IF reserved < charged THEN ReserveBalance(d, b, charged - reserved)
                       ELSE d
            today == ResetDailyIfNeeded(settled, b)
            e == [today EXCEPT !.totalSpent[b] = @ + charged, !.dailySpent[b] = @ + charged]
<1>1. day \in Int
  OBVIOUS
<1>2. \E u \in Int : /\ Moves(d, settled, b, u, u)
                     /\ u = reserved - charged \/ (charged > reserved /\ u = 0)
  <2>1. CASE reserved > charged
    <3>1. reserved - charged \in Nat
      BY <2>1
    <3>. QED  BY <2>1, <3>1, RefundMoves
  <2>2. CASE reserved < charged /\ CanReserve(d, b, charged - reserved)
    <3>1. charged - reserved \in Nat /\ -(charged - reserved) = reserved - charged
      BY <2>2
    <3>2. Moves(d, settled, b, -(charged - reserved), -(charged - reserved))
      BY <1>1, <2>2, <3>1, ReserveMoves
    <3>. QED  BY <3>1, <3>2
  <2>3. CASE reserved < charged /\ ~ CanReserve(d, b, charged - reserved)
    <3>1. settled = d
      BY <2>3 DEF ReserveBalance
    <3>. QED  BY <1>1, <2>3, <3>1, NothingMoves
  <2>4. CASE reserved = charged
    BY <1>1, <2>4, NothingMoves
  <2>. QED  BY <2>1, <2>2, <2>3, <2>4
<1>3. PICK u \in Int : /\ Moves(d, settled, b, u, u)
                       /\ u = reserved - charged \/ (charged > reserved /\ u = 0)
  BY <1>2
<1>. HIDE DEF settled
<1>4. /\ settled \in Sound /\ settled.dailyReset[b] <= day
      /\ Follows(d, settled, b) /\ Accounted(d, settled, b, u, 0)
  BY <1>3, MovesFollow DEF Moves, SameCounters
<1>5. Follows(settled, today, b) /\ Accounted(settled, today, b, 0, 0)
  BY <1>4, ResetFollows
<1>. HIDE DEF today
<1>6. today \in Sound /\ today \in Books
  BY <1>5 DEF Follows, Sound
<1>7. Follows(today, e, b) /\ Accounted(today, e, b, 0, charged)
  <2>1. today.totalSpent \in [Borrowers -> Nat] /\ today.dailySpent \in [Borrowers -> Nat]
    BY <1>6 DEF Books
  <2>. DEFINE total == [today.totalSpent EXCEPT ![b] = @ + charged]
              daily == [today.dailySpent EXCEPT ![b] = @ + charged]
  <2>2. total \in [Borrowers -> Nat] /\ daily \in [Borrowers -> Nat]
    BY <2>1
  <2>3. e = [today EXCEPT !.totalSpent = total, !.dailySpent = daily]
    BY <1>6 DEF Books
  <2>. HIDE DEF e, total, daily
  <2>4. /\ e.credits = today.credits /\ e.balance = today.balance
        /\ e.dailyReset = today.dailyReset /\ e.totalSpent = total /\ e \in Books
    BY <1>6, <2>2, <2>3 DEF Books
  <2>5. e.totalSpent = [today.totalSpent EXCEPT ![b] = @ + charged]
    BY <2>4 DEF total
  <2>. QED  BY <1>1, <1>6, <2>4, <2>5, OnlyCounters
<1>8. Follows(d, today, b) /\ Accounted(d, today, b, u, 0)
  BY <1>1, <1>4, <1>5, FollowsCompose
<1>9. Follows(d, e, b) /\ Accounted(d, e, b, u, charged)
  <2>. HIDE DEF e
  <2>1. Follows(d, e, b) /\ Accounted(d, e, b, u + 0, 0 + charged)
    BY <1>1, <1>7, <1>8, FollowsCompose
  <2>. QED  BY <2>1
<1>10. SettleUsage(d, b, reserved, charged) = e
  BY DEF SettleUsage, settled, today
<1>. QED  BY <1>3, <1>9, <1>10

\* A sweep marks what has lapsed, and moves nothing that can still be used.
Unmoved(d, e) ==
  /\ e \in Sound /\ Owners(e) = Owners(d)
  /\ e.totalSpent = d.totalSpent /\ e.dailyReset = d.dailyReset
  /\ \A c \in Borrowers : /\ RightFor(d, c) => RightFor(e, c)
                          /\ UsableBalance(e, c) = UsableBalance(d, c)

LEMMA MarkedRow ==
  ASSUME NEW row \in Tranches, NEW flag \in BOOLEAN
  PROVE  LET marked == [row EXCEPT !.expired = @ \/ flag]
         IN  /\ marked \in Tranches /\ marked.borrower = row.borrower
             /\ marked.validDate = row.validDate /\ marked.remaining = row.remaining
             /\ marked.original = row.original /\ ~flag => marked.expired = row.expired
BY DEF Tranches

LEMMA MarkExpiredKeeps ==
  ASSUME NEW d \in Sound, day \in Int
  PROVE  LET e == MarkExpired(d)
         IN  /\ e \in Sound /\ SameTranches(d, e) /\ SameCounters(d, e)
             /\ e.balance = d.balance
<1>. DEFINE e == MarkExpired(d)
            rows == [i \in DOMAIN d.credits |->
                       [d.credits[i] EXCEPT !.expired = @ \/ i \in Stale(d)]]
<1>1. d \in Books /\ Len(d.credits) \in Nat /\ DOMAIN d.credits = 1..Len(d.credits)
  BY Rows DEF Sound
<1>2. \A i \in DOMAIN d.credits :
        /\ rows[i] \in Tranches /\ rows[i].borrower = d.credits[i].borrower
        /\ rows[i].validDate = d.credits[i].validDate
        /\ rows[i].remaining = d.credits[i].remaining
        /\ rows[i].original = d.credits[i].original
        /\ i \notin Stale(d) => rows[i].expired = d.credits[i].expired
  <2>. SUFFICES ASSUME NEW i \in DOMAIN d.credits
                PROVE  /\ rows[i] \in Tranches /\ rows[i].borrower = d.credits[i].borrower
                       /\ rows[i].validDate = d.credits[i].validDate
                       /\ rows[i].remaining = d.credits[i].remaining
                       /\ rows[i].original = d.credits[i].original
                       /\ i \notin Stale(d) => rows[i].expired = d.credits[i].expired
    OBVIOUS
  <2>. DEFINE flag == i \in Stale(d)
              marked == [d.credits[i] EXCEPT !.expired = @ \/ flag]
  <2>1. d.credits[i] \in Tranches /\ flag \in BOOLEAN
    BY Rows
  <2>2. rows[i] = marked
    OBVIOUS
  <2>. HIDE DEF flag
  <2>3. /\ marked \in Tranches /\ marked.borrower = d.credits[i].borrower
        /\ marked.validDate = d.credits[i].validDate /\ marked.remaining = d.credits[i].remaining
        /\ marked.original = d.credits[i].original
        /\ ~flag => marked.expired = d.credits[i].expired
    BY <2>1, MarkedRow
  <2>. HIDE DEF rows, marked
  <2>. QED  BY <2>2, <2>3 DEF flag
<1>3. \A i \in DOMAIN d.credits : d.credits[i].validDate >= day => i \notin Stale(d)
  BY Rows DEF Stale, Tranches, Days
<1>4. DOMAIN rows = DOMAIN d.credits
  OBVIOUS
<1>5. rows \in Seq(Tranches)
  <2>1. rows \in [1..Len(d.credits) -> Tranches]
    BY <1>1, <1>2
  <2>. HIDE DEF rows
  <2>. QED  BY <1>1, <2>1, SeqDef
<1>6. e = [d EXCEPT !.credits = rows]
  BY DEF MarkExpired
<1>. HIDE DEF rows, e
<1>7. e.credits = rows /\ e.balance = d.balance /\ SameCounters(d, e) /\ e \in Books
  BY <1>1, <1>5, <1>6 DEF Books, SameCounters
<1>8. e \in Sound
  BY <1>2, <1>4, <1>7 DEF Sound
<1>9. SameTranches(d, e)
  BY <1>2, <1>3, <1>4, <1>7 DEF SameTranches
<1>. QED  BY <1>7, <1>8, <1>9 DEF e

LEMMA SweepMovesNothing ==
  ASSUME NEW d \in Sound, day \in Int
  PROVE  Unmoved(d, MarkExpired(d)) /\ Unmoved(d, SweepExpired(d))
<1>. DEFINE m == MarkExpired(d)
            e == SweepExpired(d)
<1>1. m \in Sound /\ m \in Books /\ SameTranches(d, m) /\ SameCounters(d, m) /\ m.balance = d.balance
  BY MarkExpiredKeeps DEF Sound
<1>2. Owners(m) = Owners(d) /\ \A c : /\ TodayBalance(m, c) = TodayBalance(d, c)
                                      /\ UsableBalance(m, c) = UsableBalance(d, c)
  BY <1>1, SameTranchesSameSums
<1>3. Unmoved(d, m)
  BY <1>1, <1>2 DEF Unmoved, SameCounters, RightFor
<1>. DEFINE balance == [c \in Borrowers |->
                          IF c \in {d.credits[i].borrower : i \in Stale(d)}
                          THEN TodayBalance(d, c) ELSE d.balance[c]]
<1>4. e = [m EXCEPT !.balance = balance]
  BY DEF SweepExpired
<1>5. balance \in [Borrowers -> Int]
  <2>1. d.balance \in [Borrowers -> Int]
    BY DEF Sound, Books
  <2>2. \A c \in Borrowers : TodayBalance(d, c) \in Nat
    BY TodayIsUsable
  <2>. QED  BY <2>1, <2>2
<1>6. \A c \in Borrowers : balance[c] = d.balance[c] \/ balance[c] = TodayBalance(d, c)
  OBVIOUS
<1>. HIDE DEF m, e, balance
<1>7. /\ e \in Books /\ e.credits = m.credits /\ e.balance = balance
      /\ e.totalSpent = m.totalSpent /\ e.dailyReset = m.dailyReset
  BY <1>1, <1>4, <1>5 DEF Books
<1>8. e \in Sound /\ SameTranches(m, e)
  BY <1>1, <1>7 DEF Sound, SameTranches
<1>9. Owners(e) = Owners(m) /\ \A c : /\ TodayBalance(e, c) = TodayBalance(m, c)
                                      /\ UsableBalance(e, c) = UsableBalance(m, c)
  BY <1>1, <1>8, SameTranchesSameSums
<1>10. \A c \in Borrowers : RightFor(d, c) => RightFor(e, c)
  BY <1>1, <1>2, <1>6, <1>7, <1>9 DEF RightFor, SameCounters
<1>11. Unmoved(d, e)
  BY <1>1, <1>2, <1>7, <1>8, <1>9, <1>10 DEF Unmoved, SameCounters
<1>. QED  BY <1>3, <1>11 DEF m, e

\* A reset cut short: the counters are today's, the balance is not looked at.
LEMMA MarkResetKeeps ==
  ASSUME NEW d \in Sound, NEW b \in Borrowers, day \in 0..MaxDay
  PROVE  LET e == MarkReset(d, b)
         IN  /\ e \in Sound /\ Owners(e) = Owners(d) /\ e.totalSpent = d.totalSpent
             /\ e.dailyReset = [d.dailyReset EXCEPT ![b] = day]
             /\ \A c \in Borrowers \ {b} : RightFor(d, c) => RightFor(e, c)
             /\ \A c \in Borrowers : UsableBalance(e, c) = UsableBalance(d, c)
<1>. DEFINE e == MarkReset(d, b)
<1>1. d \in Books /\ d.dailyReset \in [Borrowers -> {NoDay} \cup Days] /\ day \in Days /\ day \in Int
  BY RelayAssumption DEF Sound, Books, Days
<1>2. /\ e.credits = d.credits /\ e.balance = d.balance /\ e.totalSpent = d.totalSpent
      /\ e.dailyReset = [d.dailyReset EXCEPT ![b] = day] /\ e \in Books
  BY <1>1 DEF MarkReset, Books
<1>. HIDE DEF e
<1>3. e \in Sound /\ SameTranches(d, e)
  BY <1>2 DEF Sound, SameTranches
<1>4. Owners(e) = Owners(d) /\ \A c : /\ TodayBalance(e, c) = TodayBalance(d, c)
                                      /\ UsableBalance(e, c) = UsableBalance(d, c)
  BY <1>1, <1>3, SameTranchesSameSums
<1>5. \A c \in Borrowers \ {b} : RightFor(d, c) => RightFor(e, c)
  BY <1>1, <1>2, <1>4 DEF RightFor
<1>. QED  BY <1>2, <1>3, <1>4, <1>5 DEF e
-----------------------------------------------------------------------------
(* What a request costs, and what requests hold.                           *)

\* A cost is never negative, and something is always reserved.
LEMMA CostIsNatural ==
  ASSUME NEW model, NEW usage \in [prompt : Nat, completion : Nat, cache : Nat]
  PROVE  ComputeCost(model, usage) \in Nat
<1>. DEFINE price == GetModelPricing(model)
<1>1. price \in [input : Nat, output : Nat, cache : Nat]
  BY RelayAssumption DEF GetModelPricing, Range
<1>. HIDE DEF price
<1>2. /\ usage.prompt \in Nat /\ usage.completion \in Nat /\ usage.cache \in Nat
      /\ price.input \in Nat /\ price.output \in Nat /\ price.cache \in Nat
  BY <1>1
<1>3. \A m \in Nat : \A n \in Nat : m * n \in Nat
  OBVIOUS
<1>4. /\ usage.prompt * price.input \in Nat /\ usage.completion * price.output \in Nat
      /\ usage.cache * price.cache \in Nat
  BY <1>2, <1>3
<1>5. ComputeCost(model, usage) = usage.prompt * price.input
                                  + usage.completion * price.output + usage.cache * price.cache
  BY DEF ComputeCost, price
<1>. QED  BY <1>4, <1>5

LEMMA EstimateIsPositive ==
  ASSUME NEW model
  PROVE  EstimateMaxCost(model) \in Nat /\ EstimateMaxCost(model) > 0
<1>. DEFINE cost == ComputeCost(model, EstimatedUsage)
            S == {cost, MinEstimate}
<1>1. cost \in Nat /\ MinEstimate \in Nat /\ MinEstimate > 0
  BY CostIsNatural, RelayAssumption
<1>. HIDE DEF cost
<1>2. \E x \in S : \A y \in S : x >= y
  BY <1>1
<1>3. EstimateMaxCost(model) \in S /\ \A y \in S : EstimateMaxCost(model) >= y
  BY <1>2 DEF Max, EstimateMaxCost, cost
<1>4. EstimateMaxCost(model) \in Nat
  BY <1>1, <1>3
<1>5. EstimateMaxCost(model) >= MinEstimate
  BY <1>3
<1>. QED  BY <1>1, <1>4, <1>5

HeldIn(q, b) == SumFunctionOnSet([r \in Requests |-> q[r].reserved],
                                 {r \in Requests : q[r].borrower = b})

\* What one request holds for b.
Own(h, b) == IF h.borrower = b THEN h.reserved ELSE 0

LEMMA HeldIsSum ==
  ASSUME NEW q \in [Requests -> Handlers], NEW b
  PROVE  /\ HeldIn(q, b) = SumFunctionOnSet([r \in Requests |-> Own(q[r], b)], Requests)
         /\ HeldIn(q, b) \in Nat
         /\ \A r \in Requests : Own(q[r], b) \in Nat /\ Own(q[r], b) <= HeldIn(q, b)
<1>. DEFINE P == {r \in Requests : q[r].borrower = b}
            f == [r \in Requests |-> q[r].reserved]
            g == [r \in Requests |-> Own(q[r], b)]
<1>1. IsFiniteSet(Requests) /\ P \in SUBSET Requests
  BY RelayAssumption
<1>2. \A r \in Requests : q[r].reserved \in Nat
  BY DEF Handlers
<1>3. \A r \in Requests : g[r] \in Nat
  BY <1>2 DEF Own
<1>4. (\A x \in P : f[x] \in Int /\ g[x] = f[x]) /\ (\A x \in Requests \ P : g[x] = 0)
  BY <1>2 DEF Own
<1>5. \A r \in Requests : g[r] = Own(q[r], b)
  OBVIOUS
<1>. HIDE DEF P, f, g
<1>6. SumFunctionOnSet(g, Requests) = SumFunctionOnSet(f, P)
  BY <1>1, <1>4, SumOfSelected
<1>7. SumFunctionOnSet(g, Requests) \in Nat
  BY <1>1, <1>3, SumIsNatural
<1>8. \A r \in Requests : g[r] <= SumFunctionOnSet(g, Requests)
  BY <1>1, <1>3, EntryInSum
<1>9. HeldIn(q, b) = SumFunctionOnSet(f, P)
  BY DEF HeldIn, f, P
<1>. QED  BY <1>3, <1>5, <1>6, <1>7, <1>8, <1>9 DEF g

\* A step of one request changes what is held by what that request holds.
LEMMA HeldChanged ==
  ASSUME NEW q \in [Requests -> Handlers], NEW p \in [Requests -> Handlers],
         NEW r \in Requests, \A s \in Requests \ {r} : p[s] = q[s], NEW b
  PROVE  HeldIn(p, b) = HeldIn(q, b) + (Own(p[r], b) - Own(q[r], b))
<1>. DEFINE f == [s \in Requests |-> Own(q[s], b)]
            g == [s \in Requests |-> Own(p[s], b)]
<1>1. IsFiniteSet(Requests)
  BY RelayAssumption
<1>2. /\ \A s \in Requests : f[s] \in Int /\ f[s] = Own(q[s], b)
      /\ g[r] \in Int /\ g[r] = Own(p[r], b) /\ \A s \in Requests \ {r} : g[s] = f[s]
  <2>1. \A s \in Requests : Own(q[s], b) \in Nat
    BY HeldIsSum
  <2>2. Own(p[r], b) \in Nat
    BY HeldIsSum
  <2>. QED  BY <2>1, <2>2
<1>. HIDE DEF f, g
<1>3. SumFunctionOnSet(g, Requests) = SumFunctionOnSet(f, Requests) + (g[r] - f[r])
  BY <1>1, <1>2, SumOneChanged
<1>4. HeldIn(q, b) = SumFunctionOnSet(f, Requests) /\ HeldIn(p, b) = SumFunctionOnSet(g, Requests)
  BY HeldIsSum DEF f, g
<1>. QED  BY <1>2, <1>3, <1>4

LEMMA NothingHeld ==
  ASSUME NEW q \in [Requests -> Handlers], \A r \in Requests : q[r].reserved = 0, NEW b
  PROVE  HeldIn(q, b) = 0
<1>. DEFINE P == {r \in Requests : q[r].borrower = b}
            f == [r \in Requests |-> q[r].reserved]
<1>1. IsFiniteSet(P) /\ \A r \in P : f[r] = 0
  BY RelayAssumption, FS_Subset
<1>. HIDE DEF P, f
<1>2. SumFunctionOnSet(f, P) = 0
  BY <1>1, SumOfZeros
<1>. QED  BY <1>2 DEF HeldIn, P, f
-----------------------------------------------------------------------------
(* The invariant, part by part.                                            *)

\* On the same day, today's tranches of the new tables are found as before.
LEMMA SameDay ==
  ASSUME day' = day, NEW b
  PROVE  /\ TodayBalance(db, b)' = TodayBalance(db', b)
         /\ UsableBalance(db, b)' = UsableBalance(db', b)
         /\ RightFor(db, b)' <=> RightFor(db', b)
<1>1. /\ ForToday(db, b)' = ForToday(db', b)
      /\ UsableRows(db, b)' = UsableRows(db', b)
  BY DEF ForToday, UsableRows
<1>2. /\ TodayBalance(db, b)' = TodayBalance(db', b)
      /\ UsableBalance(db, b)' = UsableBalance(db', b)
  BY <1>1 DEF TodayBalance, UsableBalance, RemainingOf
<1>. QED  BY <1>2 DEF RightFor

LEMMA TablesKept ==
  ASSUME TablesOK, day' = day, db' \in Sound,
         registered' \subseteq Borrowers, Owners(db') \subseteq registered',
         torn' \in [Borrowers -> {NoDay} \cup Days],
         \A b \in Borrowers : /\ db'.dailyReset[b] <= day /\ torn'[b] <= day
                              /\ torn'[b] # day => RightFor(db', b)
  PROVE  TablesOK'
<1>1. Owners(db)' \subseteq registered'
  BY DEF Owners
<1>2. \A b \in Borrowers : RightFor(db, b)' <=> RightFor(db', b)
  BY SameDay
<1>3. \A b \in Borrowers : /\ db'.dailyReset[b] <= day' /\ torn'[b] <= day'
                           /\ torn'[b] # day' => RightFor(db, b)'
  BY <1>2
<1>4. day' \in 0..MaxDay
  BY DEF TablesOK
<1>. QED  BY <1>1, <1>3, <1>4 DEF TablesOK

\* An operator of db/index.ts has run for b.
LEMMA TablesFollow ==
  ASSUME TablesOK, day' = day, torn' = torn, NEW b \in Borrowers, Follows(db, db', b),
         registered' \subseteq Borrowers, registered \subseteq registered', b \in registered'
  PROVE  TablesOK'
<1>1. db' \in Sound /\ Owners(db') \subseteq registered'
  BY DEF Follows, TablesOK
<1>2. \A c \in Borrowers : /\ db'.dailyReset[c] <= day /\ torn'[c] <= day
                           /\ torn'[c] # day => RightFor(db', c)
  BY DEF Follows, TablesOK
<1>3. torn' \in [Borrowers -> {NoDay} \cup Days]
  BY DEF TablesOK
<1>. QED  BY <1>1, <1>2, <1>3, TablesKept

\* The tables are untouched, or swept.
LEMMA TablesUnmoved ==
  ASSUME TablesOK, day' = day, torn' = torn, Unmoved(db, db') \/ db' = db,
         registered' \subseteq Borrowers, registered \subseteq registered'
  PROVE  TablesOK'
<1>1. db' \in Sound /\ Owners(db') = Owners(db) /\ db'.dailyReset = db.dailyReset
  BY DEF Unmoved, TablesOK
<1>2. \A c \in Borrowers : RightFor(db, c) => RightFor(db', c)
  BY DEF Unmoved
<1>3. \A c \in Borrowers : /\ db'.dailyReset[c] <= day /\ torn'[c] <= day
                           /\ torn'[c] # day => RightFor(db', c)
  BY <1>1, <1>2 DEF TablesOK
<1>4. torn' \in [Borrowers -> {NoDay} \cup Days] /\ Owners(db') \subseteq registered'
  BY <1>1 DEF TablesOK
<1>. QED  BY <1>1, <1>3, <1>4, TablesKept

\* A handler has gone on, or accounts were added.
LEMMA RequestsKept ==
  ASSUME RequestsOK, registered \subseteq registered', NEW r \in Requests, NEW h \in Handlers,
         RequestOK(h), request' = [request EXCEPT ![r] = h] \/ request' = request
  PROVE  RequestsOK'
<1>1. request' \in [Requests -> Handlers]
  BY DEF RequestsOK
<1>2. \A s \in Requests : RequestOK(request'[s])
  BY DEF RequestsOK
<1>3. ASSUME NEW s \in Requests  PROVE RequestOK(request[s])'
  <2>1. RequestOK(request'[s])
    BY <1>2
  <2>. QED  BY <2>1 DEF RequestOK
<1>. QED  BY <1>1, <1>3 DEF RequestsOK

LEMMA AccessKept ==
  ASSUME AccessOK, UNCHANGED <<active, sessions, logins>>, registered \subseteq registered'
  PROVE  AccessOK'
BY DEF AccessOK

\* After a crash no handler is left, and nothing is held.
LEMMA HandlersGone ==
  ASSUME AccessOK, RequestsOK, HandlersDie, active' \in [Borrowers -> BOOLEAN]
  PROVE  /\ AccessOK' /\ RequestsOK' /\ day' = day /\ registered' = registered
         /\ \A b : HeldFor(b)' = 0
<1>1. /\ day' = day /\ registered' = registered /\ sessions' = sessions
      /\ logins' = [b \in Borrowers |-> 0]
      /\ request' = [r \in Requests |->
                       IF request[r].pc \in {Body, Venice} THEN Finished ELSE request[r]]
  BY DEF HandlersDie
<1>2. AccessOK'
  <2>1. logins' \in [Borrowers -> Nat]
    BY <1>1
  <2>2. \A b \in Borrowers : /\ sessions'[b] + logins'[b] <= MaxSessions
                             /\ b \notin registered' => sessions'[b] = 0
    BY <1>1, RelayAssumption DEF AccessOK
  <2>. QED  BY <1>1, <2>1, <2>2 DEF AccessOK
<1>3. \A r \in Requests : /\ request'[r] \in Handlers /\ request'[r].reserved = 0
                          /\ request'[r].pc \in {Idle, Done}
                          /\ request'[r].borrower = NoBorrower
  <2>. SUFFICES ASSUME NEW r \in Requests
                PROVE  /\ request'[r] \in Handlers /\ request'[r].reserved = 0
                       /\ request'[r].pc \in {Idle, Done}
                       /\ request'[r].borrower = NoBorrower
    OBVIOUS
  <2>1. request[r] \in Handlers /\ RequestOK(request[r])
    BY DEF RequestsOK
  <2>2. CASE request[r].pc \in {Body, Venice}
    BY <1>1, <2>2 DEF Finished, Handlers
  <2>3. CASE request[r].pc \in {Idle, Done}
    <3>1. request'[r] = request[r]
      BY <1>1, <2>3 DEF Idle, Done, Body, Venice
    <3>. QED  BY <2>1, <2>3, <3>1 DEF RequestOK
  <2>. QED  BY <2>1, <2>2, <2>3 DEF Handlers
<1>4. request' \in [Requests -> Handlers]
  BY <1>1, <1>3
<1>5. RequestsOK'
  <2>1. \A r \in Requests : RequestOK(request[r])'
    BY <1>3 DEF RequestOK, Idle, Done, Body, Venice
  <2>. QED  BY <1>4, <2>1 DEF RequestsOK
<1>6. \A b : HeldIn(request', b) = 0
  BY <1>3, <1>4, NothingHeld
<1>7. \A b : HeldFor(b)' = HeldIn(request', b)
  BY DEF HeldFor, HeldIn
<1>. QED  BY <1>1, <1>2, <1>5, <1>6, <1>7
-----------------------------------------------------------------------------
(* What each step does to the invariant and to the accounts.               *)

\* In the account of b: `usable' more to spend, `held' more held, `spent' more
\* spent.
Effect(b, usable, held, spent) ==
  /\ db'.totalSpent = [db.totalSpent EXCEPT ![b] = @ + spent]
  /\ \A c \in Borrowers : /\ Usable(c)' = Usable(c) + IF c = b THEN usable ELSE 0
                          /\ HeldFor(c)' = HeldFor(c) + IF c = b THEN held ELSE 0

\* Nobody's account has changed.
Quiet ==
  /\ db'.totalSpent = db.totalSpent
  /\ \A c \in Borrowers : Usable(c)' = Usable(c) /\ HeldFor(c)' = HeldFor(c)

LEMMA AccountsAreNatural ==
  ASSUME TablesOK, RequestsOK, NEW b
  PROVE  /\ Usable(b) = UsableBalance(db, b) /\ Usable(b) \in Nat
         /\ HeldFor(b) = HeldIn(request, b) /\ HeldFor(b) \in Nat
<1>1. db \in Sound /\ day \in Int /\ request \in [Requests -> Handlers]
  BY DEF TablesOK, RequestsOK
<1>2. UsableBalance(db, b) \in Nat /\ HeldIn(request, b) \in Nat
  BY <1>1, TodayIsUsable, HeldIsSum
<1>. QED  BY <1>2 DEF Usable, UsableBalance, UsableRows, HeldFor, HeldIn

LEMMA AccountsOfNext ==
  ASSUME day' = day, NEW b
  PROVE  Usable(b)' = UsableBalance(db', b) /\ HeldFor(b)' = HeldIn(request', b)
<1>1. Usable(b)' = UsableBalance(db, b)'
  BY DEF Usable, UsableBalance, UsableRows
<1>. QED  BY <1>1, SameDay DEF HeldFor, HeldIn

\* A handler goes on from what it held to what it holds.
LEMMA HandlerMoves ==
  ASSUME RequestsOK, NEW r \in Requests, NEW x \in Handlers, request' = [request EXCEPT ![r] = x],
         NEW c
  PROVE  /\ HeldIn(request', c) = HeldIn(request, c) + (Own(x, c) - Own(request[r], c))
         /\ Own(request[r], c) \in Nat /\ Own(request[r], c) <= HeldIn(request, c)
         /\ HeldIn(request, c) \in Nat
<1>. DEFINE q == request
            p == [q EXCEPT ![r] = x]
<1>1. q \in [Requests -> Handlers] /\ request' = p
  BY DEF RequestsOK
<1>. HIDE DEF q
<1>2. p \in [Requests -> Handlers] /\ p[r] = x /\ \A s \in Requests \ {r} : p[s] = q[s]
  BY <1>1
<1>. HIDE DEF p
<1>3. HeldIn(p, c) = HeldIn(q, c) + (Own(p[r], c) - Own(q[r], c))
  BY <1>1, <1>2, HeldChanged
<1>4. HeldIn(request', c) = HeldIn(q, c) + (Own(x, c) - Own(q[r], c))
  BY <1>1, <1>2, <1>3
<1>. QED  BY <1>1, <1>4, HeldIsSum DEF q

\* Handler r becomes x, and holds `held' more for b.
Goes(r, x, b, held) ==
  /\ r \in Requests /\ x \in Handlers /\ held \in Int
  /\ request' = [request EXCEPT ![r] = x]
  /\ \A c \in Borrowers : Own(x, c) = Own(request[r], c) + IF c = b THEN held ELSE 0

LEMMA EffectFollows ==
  ASSUME TablesOK, RequestsOK, day' = day, NEW b \in Borrowers,
         NEW u \in Int, NEW s \in Int, Accounted(db, db', b, u, s),
         NEW r, NEW x, NEW h, Goes(r, x, b, h)
  PROVE  Effect(b, u, h, s)
<1>1. /\ r \in Requests /\ x \in Handlers /\ request' = [request EXCEPT ![r] = x] /\ h \in Int
      /\ \A c \in Borrowers : Own(x, c) = Own(request[r], c) + IF c = b THEN h ELSE 0
  BY DEF Goes
<1>2. ASSUME NEW c \in Borrowers
      PROVE  HeldFor(c)' = HeldFor(c) + IF c = b THEN h ELSE 0
  <2>1. HeldIn(request', c) = HeldIn(request, c) + (Own(x, c) - Own(request[r], c))
    BY <1>1, HandlerMoves
  <2>2. Own(request[r], c) \in Nat /\ HeldIn(request, c) \in Nat
    BY <1>1, HandlerMoves
  <2>3. HeldIn(request', c) = HeldIn(request, c) + IF c = b THEN h ELSE 0
    BY <1>1, <2>1, <2>2
  <2>. QED  BY <2>3, AccountsAreNatural, AccountsOfNext
<1>3. ASSUME NEW c \in Borrowers
      PROVE  Usable(c)' = Usable(c) + IF c = b THEN u ELSE 0
  <2>1. Usable(c)' = UsableBalance(db', c) /\ Usable(c) = UsableBalance(db, c) /\ Usable(c) \in Nat
    BY AccountsAreNatural, AccountsOfNext
  <2>2. CASE c = b
    BY <2>1, <2>2 DEF Accounted
  <2>3. CASE c # b
    BY <2>1, <2>3 DEF Accounted
  <2>. QED  BY <2>2, <2>3
<1>4. db'.totalSpent = [db.totalSpent EXCEPT ![b] = @ + s]
  BY DEF Accounted
<1>. QED  BY <1>2, <1>3, <1>4 DEF Effect

\* A handler that holds nothing before or after, and tables that are left alone
\* or swept.
LEMMA QuietFollows ==
  ASSUME TablesOK, RequestsOK, day' = day, Unmoved(db, db') \/ db' = db,
         NEW r \in Requests, NEW x \in Handlers, x.reserved = 0, request[r].reserved = 0,
         request' = [request EXCEPT ![r] = x]
  PROVE  Quiet
<1>1. ASSUME NEW c \in Borrowers  PROVE HeldFor(c)' = HeldFor(c)
  <2>1. HeldIn(request', c) = HeldIn(request, c) + (Own(x, c) - Own(request[r], c))
    BY HandlerMoves
  <2>2. Own(request[r], c) = 0 /\ Own(x, c) = 0
    BY DEF Own
  <2>3. HeldFor(c) = HeldIn(request, c) /\ HeldFor(c) \in Nat /\ HeldFor(c)' = HeldIn(request', c)
    BY AccountsAreNatural, AccountsOfNext
  <2>. QED  BY <2>1, <2>2, <2>3
<1>2. ASSUME NEW c \in Borrowers  PROVE Usable(c)' = Usable(c)
  BY AccountsAreNatural, AccountsOfNext DEF Unmoved
<1>3. db'.totalSpent = db.totalSpent
  BY DEF Unmoved
<1>. QED  BY <1>1, <1>2, <1>3 DEF Quiet

LEMMA QuietWithoutRequests ==
  ASSUME TablesOK, RequestsOK, day' = day, Unmoved(db, db') \/ db' = db, request' = request
  PROVE  Quiet
<1>1. ASSUME NEW c \in Borrowers  PROVE Usable(c)' = Usable(c) /\ HeldFor(c)' = HeldFor(c)
  <2>1. UsableBalance(db', c) = UsableBalance(db, c)
    BY DEF Unmoved
  <2>. QED  BY <2>1, AccountsAreNatural, AccountsOfNext
<1>. QED  BY <1>1 DEF Quiet, Unmoved

LEMMA AddCreditStep ==
  ASSUME IInv, NEW b \in Borrowers, NEW amount \in Grants, NEW tx \in Payments,
         NEW validDate \in Days, AddCredit(b, amount, validDate, tx)
  PROVE  IInv' /\ Effect(b, IF validDate >= day THEN amount ELSE 0, 0, 0)
<1>. DEFINE row == [borrower |-> b, validDate |-> validDate, original |-> amount,
                    remaining |-> amount, tx |-> tx, expired |-> FALSE]
            usable == IF validDate >= day THEN amount ELSE 0
<1>1. /\ TablesOK /\ AccessOK /\ RequestsOK /\ db \in Sound /\ day \in 0..MaxDay /\ day \in Int
      /\ amount \in Nat /\ usable \in Int
  BY RelayAssumption DEF IInv, TablesOK
<1>2. row \in Tranches /\ NewRow(b, amount, row) /\ row.validDate = validDate
  BY <1>1, RelayAssumption DEF Tranches, NewRow
<1>3. db' = [db EXCEPT !.credits = Append(@, row),
                       !.balance[b] = IF validDate = day THEN @ + amount ELSE @]
  BY DEF AddCredit
<1>4. /\ registered' = registered \cup {b}
      /\ UNCHANGED <<day, active, sessions, logins, request, torn>>
  BY DEF AddCredit
<1>. HIDE DEF row
<1>5. Moves(db, db', b, IF validDate = day THEN amount ELSE 0, usable)
  <2>1. Moves(db, db', b, IF row.validDate = day THEN amount ELSE 0,
                          IF row.validDate >= day THEN amount ELSE 0)
    <3>1. db' = [db EXCEPT !.credits = Append(@, row),
                           !.balance[b] = IF row.validDate = day THEN @ + amount ELSE @]
      BY <1>2, <1>3
    <3>. QED  BY <1>1, <1>2, <3>1, RowAdded
  <2>. QED  BY <1>2, <2>1
<1>6. Follows(db, db', b) /\ Accounted(db, db', b, usable, 0)
  <2>1. (IF validDate = day THEN amount ELSE 0) \in Int
    BY <1>1
  <2>. QED  BY <1>1, <1>5, <2>1, MovesFollow
<1>7. TablesOK'
  <2>1. registered' \subseteq Borrowers
    BY <1>1, <1>4 DEF TablesOK
  <2>. QED  BY <1>1, <1>4, <1>6, <2>1, TablesFollow
<1>8. AccessOK' /\ RequestsOK'
  <2>1. \A r \in Requests : RequestOK(request[r])'
    BY <1>1, <1>4 DEF RequestsOK, RequestOK
  <2>. QED  BY <1>1, <1>4, <2>1, AccessKept DEF RequestsOK
<1>9. Effect(b, usable, 0, 0)
  <2>1. \A c \in Borrowers : HeldFor(c)' = HeldFor(c) + 0
    BY <1>1, <1>4, AccountsAreNatural, AccountsOfNext
  <2>2. \A c \in Borrowers : Usable(c)' = Usable(c) + IF c = b THEN usable ELSE 0
    BY <1>1, <1>4, <1>6, AccountsAreNatural, AccountsOfNext DEF Accounted
  <2>. QED  BY <1>6, <2>1, <2>2 DEF Effect, Accounted
<1>. QED  BY <1>7, <1>8, <1>9 DEF IInv

\* A request with Venice, and its borrower.
LEMMA WithVenice ==
  ASSUME TablesOK, RequestsOK, NEW r \in Requests, request[r].pc = Venice
  PROVE  LET b == request[r].borrower
         IN  /\ b \in Borrowers /\ b \in registered /\ RequestOK(Finished) /\ Finished \in Handlers
             /\ request[r].reserved \in 1..HeldFor(b)
             /\ \A c : /\ Own(Finished, c) = 0
                       /\ Own(request[r], c) = IF c = b THEN request[r].reserved ELSE 0
<1>. DEFINE b == request[r].borrower
<1>1. request \in [Requests -> Handlers] /\ request[r] \in Handlers /\ RequestOK(request[r])
  BY DEF RequestsOK
<1>2. /\ request[r].reserved \in Nat /\ request[r].reserved > 0
      /\ b \in registered /\ b \in Borrowers
  BY <1>1 DEF RequestOK, TablesOK, Handlers, Body, Venice
<1>3. \A c : /\ Own(Finished, c) = 0
             /\ Own(request[r], c) = IF c = b THEN request[r].reserved ELSE 0
  BY DEF Own, Finished
<1>4. Own(request[r], b) = request[r].reserved
  BY <1>3
<1>5. Own(request[r], b) <= HeldIn(request, b) /\ HeldIn(request, b) \in Nat
  BY <1>1, HeldIsSum
<1>6. HeldFor(b) = HeldIn(request, b)
  BY AccountsAreNatural
<1>7. RequestOK(Finished) /\ Finished \in Handlers
  BY DEF RequestOK, Finished, Handlers, Idle, Body, Venice, Done
<1>. QED  BY <1>2, <1>3, <1>4, <1>5, <1>6, <1>7

LEMMA VeniceFailsStep ==
  ASSUME IInv, NEW r \in Requests, NEW answer, VeniceFails(r, answer)
  PROVE  LET b == request[r].borrower
             reserved == request[r].reserved
         IN  /\ IInv' /\ b \in Borrowers /\ reserved \in 1..HeldFor(b)
             /\ Effect(b, reserved, -reserved, 0)
<1>. DEFINE b == request[r].borrower
            reserved == request[r].reserved
<1>1. /\ TablesOK /\ AccessOK /\ RequestsOK /\ db \in Sound /\ day \in 0..MaxDay /\ day \in Int
  BY DEF IInv, TablesOK
<1>2. /\ request[r].pc = Venice /\ request' = [request EXCEPT ![r] = Finished]
      /\ UNCHANGED <<day, registered, active, sessions, logins, torn>>
      /\ db' = RefundPreflight(b, reserved)
  BY DEF VeniceFails, Finish
<1>3. /\ b \in Borrowers /\ b \in registered /\ RequestOK(Finished) /\ Finished \in Handlers
      /\ reserved \in 1..HeldFor(b) /\ HeldFor(b) \in Nat
      /\ \A c : /\ Own(Finished, c) = 0
                /\ Own(request[r], c) = IF c = b THEN reserved ELSE 0
  BY <1>1, <1>2, WithVenice, AccountsAreNatural
<1>. HIDE DEF b, reserved
<1>4. reserved \in Nat /\ reserved > 0
  BY <1>3
<1>5. Moves(db, db', b, reserved, reserved)
  BY <1>1, <1>2, <1>3, <1>4, RefundMoves DEF RefundPreflight
<1>6. Follows(db, db', b) /\ Accounted(db, db', b, reserved, 0)
  BY <1>1, <1>3, <1>4, <1>5, MovesFollow
<1>7. IInv'
  <2>1. TablesOK'
    BY <1>1, <1>2, <1>3, <1>6, TablesFollow DEF TablesOK
  <2>2. RequestsOK'
    BY <1>1, <1>2, <1>3, RequestsKept
  <2>. QED  BY <1>1, <1>2, <2>1, <2>2, AccessKept DEF IInv
<1>8. Effect(b, reserved, -reserved, 0)
  <2>1. \A c \in Borrowers : Own(Finished, c) = Own(request[r], c) + IF c = b THEN -reserved ELSE 0
    BY <1>3, <1>4
  <2>2. Goes(r, Finished, b, -reserved)
    BY <1>2, <1>3, <1>4, <2>1 DEF Goes
  <2>. QED  BY <1>1, <1>2, <1>3, <1>4, <1>6, <2>2, EffectFollows
<1>. QED  BY <1>3, <1>7, <1>8 DEF b, reserved

LEMMA VeniceAnswersStep ==
  ASSUME IInv, NEW r \in Requests, NEW model, NEW answer \in ForwardChatCompletion,
         VeniceAnswers(r, model, answer)
  PROVE  LET b == request[r].borrower
             reserved == request[r].reserved
         IN  /\ IInv' /\ b \in Borrowers /\ reserved \in 1..HeldFor(b)
             /\ \E charged \in Nat :
                  \/ Effect(b, reserved - charged, -reserved, charged)
                  \/ charged > reserved /\ Effect(b, 0, -reserved, charged)
<1>. DEFINE b == request[r].borrower
            reserved == request[r].reserved
            charged == ComputeCost(model, answer[1])
<1>1. /\ TablesOK /\ AccessOK /\ RequestsOK /\ db \in Sound /\ day \in 0..MaxDay /\ day \in Int
  BY DEF IInv, TablesOK
<1>2. /\ request[r].pc = Venice /\ request' = [request EXCEPT ![r] = Finished]
      /\ UNCHANGED <<day, registered, active, sessions, logins, torn>>
      /\ db' = SettleUsage(db, b, reserved, charged)
  BY DEF VeniceAnswers, Finish
<1>3. /\ b \in Borrowers /\ b \in registered /\ RequestOK(Finished) /\ Finished \in Handlers
      /\ reserved \in 1..HeldFor(b) /\ HeldFor(b) \in Nat
      /\ \A c : /\ Own(Finished, c) = 0
                /\ Own(request[r], c) = IF c = b THEN reserved ELSE 0
  BY <1>1, <1>2, WithVenice, AccountsAreNatural
<1>4. charged \in Nat
  <2>1. answer # <<>>
    BY DEF VeniceAnswers
  <2>2. PICK usage \in Usages : answer = <<usage>>
    BY <2>1 DEF ForwardChatCompletion
  <2>3. answer[1] \in [prompt : Nat, completion : Nat, cache : Nat]
    BY <2>2, RelayAssumption
  <2>. QED  BY <2>3, CostIsNatural
<1>. HIDE DEF b, reserved, charged
<1>5. reserved \in Nat /\ db.dailyReset[b] <= day
  BY <1>1, <1>3 DEF TablesOK
<1>6. /\ Follows(db, db', b)
      /\ \/ Accounted(db, db', b, reserved - charged, charged)
         \/ charged > reserved /\ Accounted(db, db', b, 0, charged)
  BY <1>1, <1>2, <1>3, <1>4, <1>5, SettleFollows
<1>7. IInv'
  <2>1. TablesOK'
    BY <1>1, <1>2, <1>3, <1>6, TablesFollow DEF TablesOK
  <2>2. RequestsOK'
    BY <1>1, <1>2, <1>3, RequestsKept
  <2>. QED  BY <1>1, <1>2, <2>1, <2>2, AccessKept DEF IInv
<1>8. \/ Effect(b, reserved - charged, -reserved, charged)
      \/ charged > reserved /\ Effect(b, 0, -reserved, charged)
  <2>1. \A c \in Borrowers : Own(Finished, c) = Own(request[r], c) + IF c = b THEN -reserved ELSE 0
    BY <1>3, <1>5
  <2>2. Goes(r, Finished, b, -reserved) /\ reserved - charged \in Int
    BY <1>2, <1>3, <1>4, <1>5, <2>1 DEF Goes
  <2>. QED  BY <1>1, <1>2, <1>3, <1>4, <1>6, <2>2, EffectFollows
<1>. QED  BY <1>3, <1>4, <1>7, <1>8 DEF b, reserved

LEMMA HandlerSent ==
  ASSUME NEW h \in Handlers, NEW estimate \in Nat
  PROVE  [h EXCEPT !.pc = Venice, !.reserved = estimate]
           = [pc |-> Venice, borrower |-> h.borrower, reserved |-> estimate]
<1>. DEFINE sent == [h EXCEPT !.pc = Venice, !.reserved = estimate]
<1>1. /\ sent \in Handlers /\ sent.pc = Venice /\ sent.reserved = estimate
      /\ sent.borrower = h.borrower
  BY DEF Handlers
<1>. HIDE DEF sent
<1>2. sent = [pc |-> sent.pc, borrower |-> sent.borrower, reserved |-> sent.reserved]
  BY <1>1 DEF Handlers
<1>. QED  BY <1>1, <1>2 DEF sent

\* The day's reset is made whether or not the request goes ahead; credit is held
\* only for a borrower who is not suspended, and only what is there.
LEMMA PreflightStep ==
  ASSUME IInv, NEW r \in Requests, NEW estimate \in Nat, estimate > 0, Preflight(r, estimate)
  PROVE  LET b == request[r].borrower
         IN  /\ IInv' /\ b \in Borrowers
             /\ \/ Effect(b, 0, 0, 0)
                \/ active[b] /\ estimate <= Usable(b) /\ Effect(b, -estimate, estimate, 0)
<1>. DEFINE b == request[r].borrower
            today == ResetDailyIfNeeded(db, b)
            allowed == /\ today.balance[b] > 0
                       /\ today.dailySpent[b] < MaxDailySpend
                       /\ CanReserve(today, b, estimate)
            sent == [pc |-> Venice, borrower |-> b, reserved |-> estimate]
<1>1. /\ TablesOK /\ AccessOK /\ RequestsOK /\ db \in Sound /\ day \in 0..MaxDay /\ day \in Int
  BY DEF IInv, TablesOK
<1>2. /\ request[r].pc = Body
      /\ UNCHANGED <<day, registered, active, sessions, logins, torn>>
      /\ db' = IF ~active[b] THEN db
               ELSE IF allowed THEN ReserveBalance(today, b, estimate) ELSE today
      /\ request' = IF active[b] /\ allowed
                    THEN [request EXCEPT ![r].pc = Venice, ![r].reserved = estimate]
                    ELSE [request EXCEPT ![r] = Finished]
  BY DEF Preflight, Finish, StillActive
<1>3. /\ request[r] \in Handlers /\ request[r].reserved = 0 /\ b \in registered /\ b \in Borrowers
  BY <1>1, <1>2 DEF RequestsOK, RequestOK, TablesOK, Body, Venice, Idle, Done
<1>4. /\ RequestOK(Finished) /\ Finished \in Handlers /\ RequestOK(sent) /\ sent \in Handlers
  BY <1>3 DEF RequestOK, Finished, Handlers, Idle, Body, Venice, Done
<1>5. \A c : /\ Own(Finished, c) = 0 /\ Own(request[r], c) = 0
             /\ Own(sent, c) = IF c = b THEN estimate ELSE 0
  BY <1>3 DEF Own, Finished
<1>6. active[b] /\ allowed => request' = [request EXCEPT ![r] = sent]
  <2>1. request \in [Requests -> Handlers]
    BY <1>1 DEF RequestsOK
  <2>2. [request[r] EXCEPT !.pc = Venice, !.reserved = estimate] = sent
    BY <1>3, HandlerSent
  <2>3. [request EXCEPT ![r].pc = Venice, ![r].reserved = estimate]
          = [request EXCEPT ![r] = [request[r] EXCEPT !.pc = Venice, !.reserved = estimate]]
    BY <2>1
  <2>. HIDE DEF sent
  <2>. QED  BY <1>2, <2>2, <2>3
<1>7. /\ Follows(db, today, b) /\ Accounted(db, today, b, 0, 0)
      /\ TodayBalance(today, b) = TodayBalance(db, b)
  BY <1>1, <1>3, ResetFollows DEF TablesOK
<1>. HIDE DEF b, today, sent
<1>8. CASE ~active[b]
  <2>1. db' = db /\ request' = [request EXCEPT ![r] = Finished] /\ Moves(db, db, b, 0, 0)
    BY <1>1, <1>2, <1>3, <1>8, NothingMoves
  <2>2. Follows(db, db', b) /\ Accounted(db, db', b, 0, 0)
    BY <1>1, <1>3, <2>1, MovesFollow
  <2>3. TablesOK'
    BY <1>1, <1>2, <1>3, <2>2, TablesFollow DEF TablesOK
  <2>4. RequestsOK'
    BY <1>1, <1>2, <1>4, <2>1, RequestsKept
  <2>5. IInv'
    BY <1>1, <1>2, <2>3, <2>4, AccessKept DEF IInv
  <2>6. Effect(b, 0, 0, 0)
    <3>1. Goes(r, Finished, b, 0)
      BY <1>4, <1>5, <2>1 DEF Goes
    <3>. QED  BY <1>1, <1>2, <1>3, <2>2, <3>1, EffectFollows
  <2>. QED  BY <1>3, <2>5, <2>6 DEF b
<1>9. CASE active[b] /\ ~allowed
  <2>1. db' = today /\ request' = [request EXCEPT ![r] = Finished]
    BY <1>2, <1>9
  <2>2. Follows(db, db', b) /\ Accounted(db, db', b, 0, 0)
    BY <1>7, <2>1
  <2>3. TablesOK'
    BY <1>1, <1>2, <1>3, <2>2, TablesFollow DEF TablesOK
  <2>4. RequestsOK'
    BY <1>1, <1>2, <1>4, <2>1, RequestsKept
  <2>5. IInv'
    BY <1>1, <1>2, <2>3, <2>4, AccessKept DEF IInv
  <2>6. Effect(b, 0, 0, 0)
    <3>1. Goes(r, Finished, b, 0)
      BY <1>4, <1>5, <2>1 DEF Goes
    <3>. QED  BY <1>1, <1>2, <1>3, <2>2, <3>1, EffectFollows
  <2>. QED  BY <1>3, <2>5, <2>6 DEF b
<1>10. CASE active[b] /\ allowed
  <2>1. db' = ReserveBalance(today, b, estimate) /\ request' = [request EXCEPT ![r] = sent]
    BY <1>2, <1>6, <1>10
  <2>2. today \in Sound /\ CanReserve(today, b, estimate) /\ -estimate \in Int
    BY <1>7, <1>10 DEF Follows
  <2>3. Moves(today, db', b, -estimate, -estimate)
    BY <1>1, <1>3, <2>1, <2>2, ReserveMoves
  <2>4. Follows(today, db', b) /\ Accounted(today, db', b, -estimate, 0)
    BY <1>3, <2>2, <2>3, MovesFollow
  <2>5. Follows(db, db', b) /\ Accounted(db, db', b, -estimate, 0)
    <3>1. Follows(db, db', b) /\ Accounted(db, db', b, 0 + (-estimate), 0 + 0)
      BY <1>1, <1>3, <1>7, <2>2, <2>4, FollowsCompose
    <3>. QED  BY <3>1
  <2>6. TablesOK'
    BY <1>1, <1>2, <1>3, <2>5, TablesFollow DEF TablesOK
  <2>7. RequestsOK'
    BY <1>1, <1>2, <1>4, <2>1, RequestsKept
  <2>8. IInv'
    BY <1>1, <1>2, <2>6, <2>7, AccessKept DEF IInv
  <2>9. Effect(b, -estimate, estimate, 0)
    <3>1. Goes(r, sent, b, estimate)
      BY <1>4, <1>5, <2>1 DEF Goes
    <3>. QED  BY <1>1, <1>2, <1>3, <2>2, <2>5, <3>1, EffectFollows
  <2>10. estimate <= Usable(b)
    <3>1. estimate <= TodayBalance(db, b)
      BY <1>7, <2>2 DEF CanReserve
    <3>2. /\ TodayBalance(db, b) <= UsableBalance(db, b) /\ Usable(b) = UsableBalance(db, b)
          /\ TodayBalance(db, b) \in Nat /\ UsableBalance(db, b) \in Nat
      BY <1>1, TodayIsUsable, AccountsAreNatural
    <3>. QED  BY <3>1, <3>2
  <2>. QED  BY <1>3, <1>10, <2>8, <2>9, <2>10 DEF b
<1>. QED  BY <1>8, <1>9, <1>10

\* At midnight what was for the day that ends can no longer be used, and every
\* balance waits for the new day's reset.
LEMMA MidnightStep ==
  ASSUME IInv, Midnight
  PROVE  /\ IInv' /\ db'.totalSpent = db.totalSpent
         /\ \A c \in Borrowers : HeldFor(c)' = HeldFor(c) /\ Usable(c)' \in 0..Usable(c)
<1>1. /\ TablesOK /\ AccessOK /\ RequestsOK /\ db \in Sound /\ day \in 0..MaxDay /\ day \in Int
      /\ MaxDay \in Nat
  BY RelayAssumption DEF IInv, TablesOK
<1>2. /\ day' = day + 1 /\ day < MaxDay
      /\ UNCHANGED <<db, registered, active, sessions, logins, request, torn>>
  BY DEF Midnight
<1>3. TablesOK'
  <2>1. \A b \in Borrowers : /\ db'.dailyReset[b] <= day' /\ torn'[b] <= day'
                             /\ db'.dailyReset[b] # day'
    <3>. SUFFICES ASSUME NEW b \in Borrowers
                  PROVE  /\ db'.dailyReset[b] <= day' /\ torn'[b] <= day'
                         /\ db'.dailyReset[b] # day'
      OBVIOUS
    <3>1. db.dailyReset[b] \in Int /\ torn[b] \in Int
      BY <1>1 DEF TablesOK, Sound, Books, Days, NoDay
    <3>2. db.dailyReset[b] <= day /\ torn[b] <= day
      BY <1>1 DEF TablesOK
    <3>. QED  BY <1>1, <1>2, <3>1, <3>2
  <2>2. \A b \in Borrowers : RightFor(db, b)'
    BY <2>1 DEF RightFor
  <2>3. day' \in 0..MaxDay
    BY <1>1, <1>2
  <2>4. Owners(db)' \subseteq registered' /\ registered' \subseteq Borrowers
    BY <1>1, <1>2 DEF TablesOK, Owners
  <2>. QED  BY <1>1, <1>2, <2>1, <2>2, <2>3, <2>4 DEF TablesOK
<1>4. AccessOK'
  BY <1>1, <1>2, AccessKept
<1>5. RequestsOK'
  BY <1>1, <1>2 DEF RequestsOK, RequestOK
<1>6. ASSUME NEW c \in Borrowers  PROVE Usable(c)' \in 0..Usable(c)
  <2>. DEFINE rows == {i \in DOMAIN db.credits : /\ db.credits[i].borrower = c
                                                 /\ db.credits[i].validDate >= day + 1}
  <2>1. \A i \in DOMAIN db.credits : db.credits[i].validDate \in Int
    BY <1>1, Rows DEF Tranches, Days
  <2>2. rows \in SUBSET UsableRows(db, c) /\ UsableRows(db, c) \in SUBSET DOMAIN db.credits
    BY <1>1, <2>1 DEF UsableRows
  <2>3. Usable(c)' = RemainingOf(db, rows)
    BY <1>2 DEF Usable, RemainingOf
  <2>. HIDE DEF rows
  <2>4. RemainingOf(db, rows) <= UsableBalance(db, c) /\ RemainingOf(db, rows) \in Nat
    <3>1. RemainingOf(db, rows) <= RemainingOf(db, UsableRows(db, c))
      BY <1>1, <2>2, RemainingOfPart
    <3>2. rows \in SUBSET DOMAIN db.credits
      BY <2>2
    <3>. QED  BY <1>1, <3>1, <3>2, RemainingIsNatural DEF UsableBalance
  <2>5. Usable(c) = UsableBalance(db, c) /\ Usable(c) \in Nat
    BY <1>1, AccountsAreNatural
  <2>. QED  BY <2>3, <2>4, <2>5
<1>7. \A c \in Borrowers : HeldFor(c)' = HeldFor(c)
  BY <1>2 DEF HeldFor
<1>. QED  BY <1>2, <1>3, <1>4, <1>5, <1>6, <1>7 DEF IInv

LEMMA SweepStep ==
  ASSUME IInv, Sweep
  PROVE  IInv' /\ Quiet
<1>1. /\ TablesOK /\ AccessOK /\ RequestsOK /\ db \in Sound /\ day \in Int
  BY DEF IInv, TablesOK
<1>2. /\ db' = SweepExpired(db)
      /\ UNCHANGED <<day, registered, active, sessions, logins, request, torn>>
  BY DEF Sweep
<1>3. Unmoved(db, db')
  BY <1>1, <1>2, SweepMovesNothing
<1>4. TablesOK'
  BY <1>1, <1>2, <1>3, TablesUnmoved DEF TablesOK
<1>5. AccessOK' /\ RequestsOK'
  BY <1>1, <1>2, AccessKept DEF RequestsOK, RequestOK
<1>6. Quiet
  BY <1>1, <1>2, <1>3, QuietWithoutRequests
<1>. QED  BY <1>4, <1>5, <1>6 DEF IInv

\* Accounts, logins, sessions and suspensions: everything about who may act, and
\* nothing about credit.
AccessStep(b) ==
  \/ UpsertBorrower(b)
  \/ BeginLogin(b) \/ FinishLogin(b) \/ ExpireSession(b)
  \/ Suspend(b) \/ Unsuspend(b)

LEMMA AccessStepKeeps ==
  ASSUME IInv, NEW b \in Borrowers, AccessStep(b)
  PROVE  IInv' /\ Quiet
<1>1. TablesOK /\ AccessOK /\ RequestsOK
  BY DEF IInv
<1>2. /\ UNCHANGED <<day, db, request, torn>> /\ registered \subseteq registered'
      /\ registered' \subseteq Borrowers
  BY <1>1 DEF AccessStep, UpsertBorrower, BeginLogin, FinishLogin, ExpireSession, Suspend,
              Deactivate, Unsuspend, TablesOK
<1>3. TablesOK'
  BY <1>1, <1>2, TablesUnmoved
<1>4. RequestsOK'
  BY <1>1, <1>2 DEF RequestsOK, RequestOK
<1>5. Quiet
  BY <1>1, <1>2, QuietWithoutRequests
<1>6. AccessOK'
  <2>1. CASE UpsertBorrower(b)
    BY <1>1, <1>2, <2>1, AccessKept DEF UpsertBorrower
  <2>2. CASE BeginLogin(b)
    BY <1>1, <2>2, RelayAssumption DEF BeginLogin, AccessOK
  <2>3. CASE FinishLogin(b)
    BY <1>1, <2>3, RelayAssumption DEF FinishLogin, MayOpenSession, CreateSession, AccessOK
  <2>4. CASE ExpireSession(b)
    BY <1>1, <2>4, RelayAssumption DEF ExpireSession, AccessOK
  <2>5. CASE Suspend(b)
    BY <1>1, <2>5, RelayAssumption DEF Suspend, Deactivate, InvalidateBorrowerSessions, AccessOK
  <2>6. CASE Unsuspend(b)
    BY <1>1, <2>6, RelayAssumption DEF Unsuspend, AccessOK
  <2>. QED  BY <2>1, <2>2, <2>3, <2>4, <2>5, <2>6 DEF AccessStep
<1>. QED  BY <1>3, <1>4, <1>5, <1>6 DEF IInv

LEMMA BeginRequestStep ==
  ASSUME IInv, NEW b \in Borrowers, NEW r \in Requests, BeginRequest(r, b)
  PROVE  IInv' /\ Quiet
<1>. DEFINE begun == [pc |-> Body, borrower |-> b, reserved |-> 0]
<1>1. TablesOK /\ AccessOK /\ RequestsOK
  BY DEF IInv
<1>2. /\ request[r].pc = Idle /\ request' = [request EXCEPT ![r] = begun] /\ sessions[b] > 0
      /\ UNCHANGED <<day, db, registered, active, sessions, logins, torn>>
  BY DEF BeginRequest
<1>3. b \in registered /\ request[r].reserved = 0
  BY <1>1, <1>2 DEF AccessOK, RequestsOK, RequestOK
<1>4. begun \in Handlers /\ RequestOK(begun) /\ begun.reserved = 0
  BY <1>3 DEF Handlers, RequestOK, Idle, Body, Venice, Done
<1>. HIDE DEF begun
<1>5. TablesOK'
  BY <1>1, <1>2, TablesUnmoved DEF TablesOK
<1>6. AccessOK' /\ RequestsOK'
  BY <1>1, <1>2, <1>4, AccessKept, RequestsKept
<1>7. Quiet
  BY <1>1, <1>2, <1>3, <1>4, QuietFollows
<1>. QED  BY <1>5, <1>6, <1>7 DEF IInv

LEMMA RejectBodyStep ==
  ASSUME IInv, NEW r \in Requests, RejectBody(r)
  PROVE  IInv' /\ Quiet
<1>1. TablesOK /\ AccessOK /\ RequestsOK
  BY DEF IInv
<1>2. /\ request[r].pc = Body /\ request' = [request EXCEPT ![r] = Finished]
      /\ UNCHANGED <<day, db, registered, active, sessions, logins, torn>>
  BY DEF RejectBody, Finish
<1>3. request[r].reserved = 0
  BY <1>1, <1>2 DEF RequestsOK, RequestOK
<1>4. Finished \in Handlers /\ RequestOK(Finished) /\ Finished.reserved = 0
  BY DEF Handlers, RequestOK, Finished, Idle, Body, Venice, Done
<1>5. TablesOK'
  BY <1>1, <1>2, TablesUnmoved DEF TablesOK
<1>6. AccessOK' /\ RequestsOK'
  BY <1>1, <1>2, <1>4, AccessKept, RequestsKept
<1>7. Quiet
  BY <1>1, <1>2, <1>3, <1>4, QuietFollows
<1>. QED  BY <1>5, <1>6, <1>7 DEF IInv

\* A crash of the relay: what was held is gone, and nothing else.
Crashed ==
  /\ db'.totalSpent = db.totalSpent
  /\ \A c \in Borrowers : Usable(c)' = Usable(c) /\ HeldFor(c)' = 0

LEMMA CrashStep ==
  ASSUME IInv, \/ Crash \/ CrashInSweep \/ \E b \in Borrowers : CrashInSuspend(b)
               \/ \E r \in Requests : CrashInReset(r)
  PROVE  IInv' /\ Crashed
<1>1. /\ TablesOK /\ AccessOK /\ RequestsOK /\ db \in Sound /\ day \in 0..MaxDay /\ day \in Int
  BY DEF IInv, TablesOK
<1>2. HandlersDie /\ active' \in [Borrowers -> BOOLEAN]
  BY <1>1 DEF Crash, CrashInSweep, CrashInSuspend, Deactivate, CrashInReset, AccessOK
<1>3. /\ AccessOK' /\ RequestsOK' /\ day' = day /\ registered' = registered
      /\ \A c : HeldFor(c)' = 0
  BY <1>1, <1>2, HandlersGone
<1>4. ASSUME Crash \/ CrashInSweep \/ \E b \in Borrowers : CrashInSuspend(b)
      PROVE  TablesOK' /\ Crashed
  <2>1. /\ torn' = torn
        /\ Unmoved(db, db') \/ db' = db
    BY <1>1, <1>4, SweepMovesNothing DEF Crash, CrashInSweep, CrashInSuspend
  <2>2. TablesOK'
    BY <1>1, <1>3, <2>1, TablesUnmoved DEF TablesOK
  <2>3. /\ db'.totalSpent = db.totalSpent
        /\ \A c \in Borrowers : UsableBalance(db', c) = UsableBalance(db, c)
    BY <2>1 DEF Unmoved
  <2>4. \A c \in Borrowers : Usable(c)' = Usable(c)
    BY <1>1, <1>3, <2>3, AccountsAreNatural, AccountsOfNext
  <2>. QED  BY <1>3, <2>2, <2>3, <2>4 DEF Crashed
<1>5. ASSUME NEW r \in Requests, CrashInReset(r)  PROVE TablesOK' /\ Crashed
  <2>. DEFINE b == request[r].borrower
  <2>1. request[r].pc = Body /\ db' = MarkReset(db, b) /\ torn' = [torn EXCEPT ![b] = day]
    BY <1>5 DEF CrashInReset
  <2>2. b \in Borrowers
    BY <1>1, <2>1 DEF RequestsOK, RequestOK, TablesOK
  <2>. HIDE DEF b
  <2>3. /\ db' \in Sound /\ Owners(db') = Owners(db) /\ db'.totalSpent = db.totalSpent
        /\ db'.dailyReset = [db.dailyReset EXCEPT ![b] = day]
        /\ \A c \in Borrowers \ {b} : RightFor(db, c) => RightFor(db', c)
        /\ \A c \in Borrowers : UsableBalance(db', c) = UsableBalance(db, c)
    BY <1>1, <2>1, <2>2, MarkResetKeeps
  <2>4. /\ torn \in [Borrowers -> {NoDay} \cup Days] /\ day \in Days
        /\ db.dailyReset \in [Borrowers -> {NoDay} \cup Days]
    BY <1>1, RelayAssumption DEF TablesOK, Sound, Books, Days
  <2>5. torn' \in [Borrowers -> {NoDay} \cup Days]
    BY <2>1, <2>4
  <2>6. \A c \in Borrowers : /\ db'.dailyReset[c] <= day /\ torn'[c] <= day
                             /\ torn'[c] # day => RightFor(db', c)
    <3>. SUFFICES ASSUME NEW c \in Borrowers
                  PROVE  /\ db'.dailyReset[c] <= day /\ torn'[c] <= day
                         /\ torn'[c] # day => RightFor(db', c)
      OBVIOUS
    <3>1. CASE c = b
      BY <1>1, <2>1, <2>2, <2>3, <2>4, <3>1
    <3>2. CASE c # b
      <4>1. torn'[c] = torn[c] /\ db'.dailyReset[c] = db.dailyReset[c]
        BY <2>1, <2>3, <2>4, <3>2
      <4>2. /\ db.dailyReset[c] <= day /\ torn[c] <= day
            /\ torn[c] # day => RightFor(db, c)
        BY <1>1 DEF TablesOK
      <4>. QED  BY <2>3, <3>2, <4>1, <4>2
    <3>. QED  BY <3>1, <3>2
  <2>7. TablesOK'
    <3>1. registered' \subseteq Borrowers /\ Owners(db') \subseteq registered'
      BY <1>1, <1>3, <2>3 DEF TablesOK
    <3>2. TablesOK /\ day' = day /\ db' \in Sound
      BY <1>1, <1>3, <2>3
    <3>. QED  BY <2>5, <2>6, <3>1, <3>2, TablesKept
  <2>8. \A c \in Borrowers : Usable(c)' = Usable(c)
    BY <1>1, <1>3, <2>3, AccountsAreNatural, AccountsOfNext
  <2>. QED  BY <1>3, <2>3, <2>7, <2>8 DEF Crashed
<1>. QED  BY <1>3, <1>4, <1>5 DEF IInv
-----------------------------------------------------------------------------
(* The theorems.                                                           *)

\* What a step of the relay is for the accounts.
Outcome ==
  \/ Quiet
  \/ /\ db'.totalSpent = db.totalSpent
     /\ \A c \in Borrowers : HeldFor(c)' = HeldFor(c) /\ Usable(c)' \in 0..Usable(c)
  \/ Crashed
  \/ \E b \in Borrowers, amount \in Grants : Effect(b, amount, 0, 0)
  \/ \E b \in Borrowers : \E amount \in 1..Usable(b) :
       active[b] /\ Effect(b, -amount, amount, 0)
  \/ \E b \in Borrowers : \E amount \in 1..HeldFor(b) : Effect(b, amount, -amount, 0)
  \/ \E b \in Borrowers : \E amount \in 1..HeldFor(b), charged \in Nat :
       \/ Effect(b, amount - charged, -amount, charged)
       \/ charged > amount /\ Effect(b, 0, -amount, charged)

LEMMA NoEffectIsQuiet ==
  ASSUME IInv, NEW b \in Borrowers, Effect(b, 0, 0, 0)
  PROVE  Quiet
<1>1. \A c \in Borrowers : Usable(c) \in Nat /\ HeldFor(c) \in Nat
  BY AccountsAreNatural DEF IInv
<1>2. db.totalSpent \in [Borrowers -> Nat]
  BY DEF IInv, TablesOK, Sound, Books
<1>3. db'.totalSpent = db.totalSpent
  BY <1>2 DEF Effect
<1>. QED  BY <1>1, <1>3 DEF Effect, Quiet

LEMMA StepTaken ==
  ASSUME IInv, Next
  PROVE  IInv' /\ Outcome
<1>1. CASE Midnight
  BY <1>1, MidnightStep DEF Outcome
<1>2. CASE Sweep
  BY <1>2, SweepStep DEF Outcome
<1>3. ASSUME NEW b \in Borrowers, BorrowerStep(b)  PROVE IInv' /\ Outcome
  <2>1. CASE AccessStep(b)
    BY <2>1, AccessStepKeeps DEF Outcome
  <2>2. ASSUME NEW amount \in Grants, NEW tx \in Payments,
               Buy(b, amount, tx) \/ AdminCredit(b, amount, tx)
        PROVE  IInv' /\ Outcome
    <3>1. day \in Days /\ day + 1 \in Days
      BY RelayAssumption DEF IInv, TablesOK, Days
    <3>2. PICK validDate \in Days : AddCredit(b, amount, validDate, tx)
      BY <2>2, <3>1 DEF Buy, AdminCredit
    <3>3. IInv' /\ Effect(b, IF validDate >= day THEN amount ELSE 0, 0, 0)
      BY <3>2, AddCreditStep
    <3>4. CASE validDate >= day
      BY <3>3, <3>4 DEF Outcome
    <3>5. CASE ~ (validDate >= day)
      BY <3>3, <3>5, NoEffectIsQuiet DEF Outcome
    <3>. QED  BY <3>4, <3>5
  <2>3. ASSUME NEW r \in Requests, BeginRequest(r, b)  PROVE IInv' /\ Outcome
    BY <2>3, BeginRequestStep DEF Outcome
  <2>4. CASE CrashInSuspend(b)
    BY <2>4, CrashStep DEF Outcome
  <2>. QED  BY <1>3, <2>1, <2>2, <2>3, <2>4 DEF BorrowerStep, AccessStep
<1>4. ASSUME NEW r \in Requests, RequestStep(r)  PROVE IInv' /\ Outcome
  <2>1. CASE RejectBody(r)
    BY <2>1, RejectBodyStep DEF Outcome
  <2>2. ASSUME NEW model \in Models, Preflight(r, EstimateMaxCost(model))
        PROVE  IInv' /\ Outcome
    <3>. DEFINE b == request[r].borrower
                estimate == EstimateMaxCost(model)
    <3>1. estimate \in Nat /\ estimate > 0
      BY EstimateIsPositive
    <3>. HIDE DEF estimate
    <3>2. /\ IInv' /\ b \in Borrowers
          /\ \/ Effect(b, 0, 0, 0)
             \/ active[b] /\ estimate <= Usable(b) /\ Effect(b, -estimate, estimate, 0)
      BY <2>2, <3>1, PreflightStep DEF estimate
    <3>. HIDE DEF b
    <3>3. CASE Effect(b, 0, 0, 0)
      BY <3>2, <3>3, NoEffectIsQuiet DEF Outcome
    <3>4. CASE active[b] /\ estimate <= Usable(b) /\ Effect(b, -estimate, estimate, 0)
      <4>1. Usable(b) \in Nat
        BY AccountsAreNatural DEF IInv
      <4>2. estimate \in 1..Usable(b)
        BY <3>1, <3>4, <4>1
      <4>. QED  BY <3>2, <3>4, <4>2 DEF Outcome
    <3>. QED  BY <3>2, <3>3, <3>4
  <2>3. ASSUME NEW answer \in ForwardChatCompletion, VeniceFails(r, answer)
        PROVE  IInv' /\ Outcome
    <3>. DEFINE b == request[r].borrower
                reserved == request[r].reserved
    <3>1. /\ IInv' /\ b \in Borrowers /\ reserved \in 1..HeldFor(b)
          /\ Effect(b, reserved, -reserved, 0)
      BY <2>3, VeniceFailsStep
    <3>. HIDE DEF b, reserved
    <3>. QED  BY <3>1 DEF Outcome
  <2>4. ASSUME NEW answer \in ForwardChatCompletion, NEW model \in Models,
               VeniceAnswers(r, model, answer)
        PROVE  IInv' /\ Outcome
    <3>. DEFINE b == request[r].borrower
                reserved == request[r].reserved
    <3>1. /\ IInv' /\ b \in Borrowers /\ reserved \in 1..HeldFor(b)
          /\ \E charged \in Nat :
               \/ Effect(b, reserved - charged, -reserved, charged)
               \/ charged > reserved /\ Effect(b, 0, -reserved, charged)
      BY <2>4, VeniceAnswersStep
    <3>. HIDE DEF b, reserved
    <3>. QED  BY <3>1 DEF Outcome
  <2>5. CASE CrashInReset(r)
    BY <2>5, CrashStep DEF Outcome
  <2>. QED  BY <1>4, <2>1, <2>2, <2>3, <2>4, <2>5 DEF RequestStep
<1>5. CASE Crash \/ CrashInSweep
  BY <1>5, CrashStep DEF Outcome
<1>. QED  BY <1>1, <1>2, <1>3, <1>4, <1>5 DEF Next

LEMMA StutterKeeps ==
  ASSUME IInv, UNCHANGED vars
  PROVE  IInv' /\ Quiet
<1>1. UNCHANGED <<day, db, registered, active, sessions, logins, request, torn>>
  BY DEF vars
<1>2. TablesOK /\ AccessOK /\ RequestsOK
  BY DEF IInv
<1>3. TablesOK' /\ AccessOK' /\ RequestsOK'
  BY <1>1, <1>2, TablesUnmoved, AccessKept DEF RequestsOK, RequestOK, TablesOK
<1>. QED  BY <1>1, <1>2, <1>3, QuietWithoutRequests DEF IInv

LEMMA InitOK == Init => IInv
<1>. SUFFICES ASSUME Init  PROVE IInv
  OBVIOUS
<1>1. /\ db.credits = <<>> /\ db.balance = [b \in Borrowers |-> 0]
      /\ db.totalSpent = [b \in Borrowers |-> 0] /\ db.dailySpent = [b \in Borrowers |-> 0]
      /\ db.dailyReset = [b \in Borrowers |-> NoDay]
  BY DEF Init
<1>2. <<>> \in Seq(Tranches) /\ DOMAIN db.credits = {}
  BY <1>1
<1>3. db \in Books
  BY <1>2 DEF Init, Books
<1>4. db \in Sound /\ Owners(db) = {}
  BY <1>2, <1>3 DEF Sound, Owners
<1>5. TablesOK
  <2>1. day = 0 /\ registered = {} /\ torn = [b \in Borrowers |-> NoDay]
    BY DEF Init
  <2>2. \A b \in Borrowers : db.dailyReset[b] = NoDay /\ torn[b] = NoDay
    BY <1>1, <2>1
  <2>3. \A b \in Borrowers : RightFor(db, b)
    BY <2>1, <2>2 DEF RightFor, NoDay
  <2>. QED  BY <1>4, <2>1, <2>2, <2>3, RelayAssumption DEF TablesOK, NoDay, Days
<1>6. AccessOK
  BY RelayAssumption DEF Init, AccessOK
<1>7. RequestsOK
  BY DEF Init, RequestsOK, RequestOK, NoRequest, Handlers, Idle, Body, Venice, Done
<1>. QED  BY <1>5, <1>6, <1>7 DEF IInv

LEMMA Invariance == Spec => []IInv
<1>1. IInv /\ [Next]_vars => IInv'
  BY StepTaken, StutterKeeps
<1>. QED  BY <1>1, InitOK, PTL DEF Spec

\* The tables and handlers keep their types, and no tranche holds more than it
\* was bought for.
THEOREM Typed == Spec => []TypeOK
<1>1. IInv => TypeOK
  <2>. SUFFICES ASSUME IInv  PROVE TypeOK
    OBVIOUS
  <2>1. TablesOK /\ AccessOK /\ RequestsOK /\ db \in Sound
    BY DEF IInv, TablesOK
  <2>2. \A b \in Borrowers \ registered :
          sessions[b] = 0 /\ \A i \in DOMAIN db.credits : db.credits[i].borrower # b
    BY <2>1 DEF TablesOK, AccessOK, Owners
  <2>3. /\ sessions \in [Borrowers -> 0..MaxSessions]
        /\ logins \in [Borrowers -> 0..MaxSessions]
    BY <2>1, RelayAssumption DEF AccessOK
  <2>4. request \in [Requests -> [pc : {Idle, Body, Venice, Done}, reserved : Nat,
                                  borrower : Borrowers \cup {NoBorrower}]]
    BY <2>1 DEF RequestsOK, Handlers
  <2>. QED  BY <2>1, <2>2, <2>3, <2>4 DEF TypeOK, TablesOK, AccessOK, Sound
<1>. QED  BY <1>1, Invariance, PTL

\* balance_usd, which the balance check of preflightCheck trusts, is the sum of
\* today's credits once the day's first request has reset the borrower, but for
\* a reset that a crash cut short.
THEOREM Synced == Spec => []BalanceInSync
<1>1. IInv => BalanceInSync
  BY DEF IInv, TablesOK, BalanceInSync, BalanceRight, RightFor
<1>. QED  BY <1>1, Invariance, PTL

\* Only the two statements of a suspension, or the first of them, make an account
\* inactive; only a login and a request that find it active add a session or a
\* request.
LEMMA AccessOfStep ==
  ASSUME IInv, [Next]_vars, NEW b \in Borrowers
  PROVE  /\ active[b] /\ ~active'[b] => sessions'[b] = 0 \/ CrashInSuspend(b)
         /\ ~active[b] => sessions'[b] <= sessions[b] /\ RequestsOf(b)' \subseteq RequestsOf(b)
<1>. DEFINE Kept == UNCHANGED <<active, sessions>>
            Fewer == RequestsOf(b)' \subseteq RequestsOf(b)
            Goal == /\ active[b] /\ ~active'[b] => sessions'[b] = 0 \/ CrashInSuspend(b)
                    /\ ~active[b] => sessions'[b] <= sessions[b] /\ Fewer
<1>1. /\ active \in [Borrowers -> BOOLEAN] /\ sessions \in [Borrowers -> Nat]
      /\ request \in [Requests -> Handlers] /\ NoBorrower \notin Borrowers
      /\ sessions[b] \in Nat
  BY RelayAssumption DEF IInv, AccessOK, RequestsOK
<1>2. request' = request => Fewer
  BY DEF RequestsOf
<1>3. ASSUME NEW r \in Requests, NEW x, request' = [request EXCEPT ![r] = x],
             x.borrower \in {NoBorrower, request[r].borrower}
      PROVE  Fewer
  BY <1>1, <1>3 DEF RequestsOf
<1>4. ASSUME HandlersDie  PROVE Fewer /\ sessions' = sessions
  BY <1>1, <1>4 DEF HandlersDie, Finished, RequestsOf
<1>5. Kept /\ Fewer => Goal
  BY <1>1
<1>. SUFFICES Goal
  OBVIOUS
<1>. HIDE DEF Fewer, Goal
<1>6. CASE Midnight \/ Sweep \/ UNCHANGED vars
  <2>1. Kept /\ request' = request
    BY <1>6 DEF Midnight, Sweep, vars
  <2>. QED  BY <1>2, <1>5, <2>1
<1>7. CASE Crash \/ CrashInSweep
  <2>1. HandlersDie /\ active' = active
    BY <1>7 DEF Crash, CrashInSweep
  <2>. QED  BY <1>4, <1>5, <2>1
<1>8. ASSUME NEW c \in Borrowers, BorrowerStep(c)  PROVE Goal
  <2>1. CASE UpsertBorrower(c) \/ BeginLogin(c)
    <3>1. Kept /\ request' = request
      BY <2>1 DEF UpsertBorrower, BeginLogin
    <3>. QED  BY <1>2, <1>5, <3>1
  <2>2. ASSUME NEW amount, NEW tx, Buy(c, amount, tx) \/ AdminCredit(c, amount, tx)  PROVE Goal
    BY <1>2, <1>5, <2>2 DEF Buy, AdminCredit, AddCredit
  <2>3. CASE FinishLogin(c)
    <3>1. request' = request /\ active' = active
      BY <2>3 DEF FinishLogin
    <3>2. ~active[b] => sessions'[b] = sessions[b]
      BY <1>1, <2>3 DEF FinishLogin, MayOpenSession, CreateSession
    <3>. QED  BY <1>1, <1>2, <3>1, <3>2 DEF Goal
  <2>4. CASE ExpireSession(c)
    <3>1. request' = request /\ active' = active /\ sessions'[b] <= sessions[b]
      BY <1>1, <2>4 DEF ExpireSession
    <3>. QED  BY <1>2, <3>1 DEF Goal
  <2>5. CASE Suspend(c)
    <3>1. /\ request' = request /\ sessions'[b] \in {0, sessions[b]}
          /\ c = b => sessions'[b] = 0
          /\ c # b => active'[b] = active[b]
      BY <1>1, <2>5 DEF Suspend, Deactivate, InvalidateBorrowerSessions
    <3>. QED  BY <1>1, <1>2, <3>1 DEF Goal
  <2>6. CASE Unsuspend(c)
    <3>1. request' = request /\ sessions' = sessions /\ (active[b] => active'[b])
      BY <1>1, <2>6 DEF Unsuspend
    <3>. QED  BY <1>1, <1>2, <3>1 DEF Goal
  <2>7. CASE CrashInSuspend(c)
    <3>1. Fewer /\ sessions' = sessions
      BY <1>4, <2>7 DEF CrashInSuspend
    <3>2. c # b => active'[b] = active[b]
      BY <1>1, <2>7 DEF CrashInSuspend, Deactivate
    <3>. QED  BY <1>1, <2>7, <3>1, <3>2 DEF Goal
  <2>8. ASSUME NEW r \in Requests, BeginRequest(r, c)  PROVE Goal
    <3>1. Kept /\ request' = [request EXCEPT ![r] = [pc |-> Body, borrower |-> c, reserved |-> 0]]
      BY <2>8 DEF BeginRequest
    <3>2. active[c]
      BY <2>8 DEF BeginRequest
    <3>3. b # c => Fewer
      BY <1>1, <3>1 DEF Fewer, RequestsOf
    <3>. QED  BY <1>1, <3>1, <3>2, <3>3 DEF Goal
  <2>. QED  BY <1>8, <2>1, <2>2, <2>3, <2>4, <2>5, <2>6, <2>7, <2>8 DEF BorrowerStep
<1>9. ASSUME NEW r \in Requests, RequestStep(r)  PROVE Goal
  <2>1. Finished.borrower = NoBorrower
    BY DEF Finished
  <2>2. CASE RejectBody(r) \/ \E answer : \/ VeniceFails(r, answer)
                                         \/ \E model : VeniceAnswers(r, model, answer)
    <3>1. Kept /\ request' = [request EXCEPT ![r] = Finished]
      BY <2>2 DEF RejectBody, VeniceFails, VeniceAnswers, Finish
    <3>. QED  BY <1>3, <1>5, <2>1, <3>1
  <2>3. ASSUME NEW estimate, Preflight(r, estimate)  PROVE Goal
    <3>. DEFINE sent == [request[r] EXCEPT !.pc = Venice, !.reserved = estimate]
    <3>1. Kept /\ \/ request' = [request EXCEPT ![r].pc = Venice, ![r].reserved = estimate]
                  \/ request' = [request EXCEPT ![r] = Finished]
      BY <2>3 DEF Preflight, Finish
    <3>2. sent.borrower = request[r].borrower
      BY <1>1 DEF Handlers
    <3>3. [request EXCEPT ![r].pc = Venice, ![r].reserved = estimate] = [request EXCEPT ![r] = sent]
      BY <1>1
    <3>. QED  BY <1>3, <1>5, <2>1, <3>1, <3>2, <3>3
  <2>4. CASE CrashInReset(r)
    BY <1>4, <1>5, <2>4 DEF CrashInReset
  <2>. QED  BY <1>9, <2>2, <2>3, <2>4 DEF RequestStep
<1>. QED  BY <1>6, <1>7, <1>8, <1>9 DEF Next

\* Suspending leaves no session unless the process dies halfway; while suspended
\* an account gets no session and no request, and no request of its reserves
\* credit.
THEOREM LockedOut == Spec => SuspendedLockedOut
<1>. DEFINE Locked ==
       \A b \in Borrowers :
         /\ active[b] /\ ~active'[b] => sessions'[b] = 0 \/ CrashInSuspend(b)
         /\ ~active[b] => /\ sessions'[b] <= sessions[b]
                          /\ RequestsOf(b)' \subseteq RequestsOf(b)
                          /\ HeldFor(b)' <= HeldFor(b)
<1>1. IInv /\ [Next]_vars => Locked
  <2>. SUFFICES ASSUME IInv, [Next]_vars  PROVE Locked
    OBVIOUS
  <2>1. IInv' /\ Outcome
    BY StepTaken, StutterKeeps DEF Outcome
  <2>3. ASSUME NEW b \in Borrowers, ~active[b]  PROVE HeldFor(b)' <= HeldFor(b)
    <3>1. HeldFor(b) \in Nat
      BY AccountsAreNatural DEF IInv
    <3>2. ASSUME NEW c \in Borrowers, NEW u, NEW h \in Int, NEW spent, h <= 0 \/ active[c],
                 Effect(c, u, h, spent)
          PROVE  HeldFor(b)' <= HeldFor(b)
      <4>1. HeldFor(b)' = HeldFor(b) + IF b = c THEN h ELSE 0
        BY <3>2 DEF Effect
      <4>. QED  BY <2>3, <3>1, <3>2, <4>1
    <3>3. CASE Quiet \/ Crashed \/ \A c \in Borrowers : HeldFor(c)' = HeldFor(c)
      BY <3>1, <3>3 DEF Quiet, Crashed
    <3>4. CASE \E c \in Borrowers, amount \in Grants : Effect(c, amount, 0, 0)
      BY <3>2, <3>4
    <3>5. CASE \E c \in Borrowers : \E amount \in 1..Usable(c) :
                 active[c] /\ Effect(c, -amount, amount, 0)
      BY <3>2, <3>5
    <3>6. CASE \E c \in Borrowers : \E amount \in 1..HeldFor(c) : Effect(c, amount, -amount, 0)
      <4>1. PICK c \in Borrowers : \E amount \in 1..HeldFor(c) : Effect(c, amount, -amount, 0)
        BY <3>6
      <4>2. PICK amount \in 1..HeldFor(c) : Effect(c, amount, -amount, 0)
        BY <4>1
      <4>3. -amount \in Int /\ -amount <= 0
        BY AccountsAreNatural DEF IInv
      <4>. QED  BY <3>2, <4>2, <4>3
    <3>7. CASE \E c \in Borrowers : \E amount \in 1..HeldFor(c), charged \in Nat :
                 \/ Effect(c, amount - charged, -amount, charged)
                 \/ charged > amount /\ Effect(c, 0, -amount, charged)
      <4>1. PICK c \in Borrowers : \E amount \in 1..HeldFor(c), charged \in Nat :
              \/ Effect(c, amount - charged, -amount, charged)
              \/ charged > amount /\ Effect(c, 0, -amount, charged)
        BY <3>7
      <4>2. PICK amount \in 1..HeldFor(c), charged \in Nat :
              \/ Effect(c, amount - charged, -amount, charged)
              \/ charged > amount /\ Effect(c, 0, -amount, charged)
        BY <4>1
      <4>3. -amount \in Int /\ -amount <= 0
        BY AccountsAreNatural DEF IInv
      <4>. QED  BY <3>2, <4>2, <4>3
    <3>. QED  BY <2>1, <3>3, <3>4, <3>5, <3>6, <3>7 DEF Outcome
  <2>. QED  BY <2>3, AccessOfStep
<1>. QED  BY <1>1, Invariance, PTL DEF Spec, SuspendedLockedOut

\* The variables of the abstract accounts.
Credit == [b \in Borrowers |-> Usable(b)]
Held == [b \in Borrowers |-> HeldFor(b)]
Spent == db.totalSpent

LEMMA EffectOnAccounts ==
  ASSUME Credit \in [Borrowers -> Nat], Held \in [Borrowers -> Nat],
         NEW b \in Borrowers, NEW u \in Int, NEW h \in Int, NEW s \in Int, Effect(b, u, h, s)
  PROVE  /\ Credit' = [Credit EXCEPT ![b] = @ + u] /\ Held' = [Held EXCEPT ![b] = @ + h]
         /\ Spent' = [Spent EXCEPT ![b] = @ + s]
<1>1. \A c \in Borrowers : /\ Usable(c) \in Nat /\ HeldFor(c) \in Nat
                           /\ Credit[c] = Usable(c) /\ Held[c] = HeldFor(c)
  BY DEF Credit, Held
<1>2. \A c \in Borrowers : /\ Usable(c)' = IF c = b THEN Credit[b] + u ELSE Credit[c]
                           /\ HeldFor(c)' = IF c = b THEN Held[b] + h ELSE Held[c]
  BY <1>1 DEF Effect
<1>3. /\ Credit' = [c \in Borrowers |-> Usable(c)'] /\ Held' = [c \in Borrowers |-> HeldFor(c)']
  BY DEF Credit, Held
<1>4. /\ Credit' = [c \in Borrowers |-> IF c = b THEN Credit[b] + u ELSE Credit[c]]
      /\ Held' = [c \in Borrowers |-> IF c = b THEN Held[b] + h ELSE Held[c]]
  BY <1>2, <1>3
<1>. QED  BY <1>4 DEF Effect, Spent

\* Every handler is a step of the borrower's prepaid account.
THEOREM Prepaid == Spec => ImplementsAccounts
<1>1. Init => Accounts!Init
  <2>. SUFFICES ASSUME Init  PROVE Accounts!Init
    OBVIOUS
  <2>1. IInv /\ TablesOK /\ RequestsOK
    BY InitOK DEF IInv
  <2>2. \A b : HeldFor(b) = 0
    <3>1. request \in [Requests -> Handlers] /\ \A r \in Requests : request[r].reserved = 0
      BY <2>1 DEF Init, NoRequest, RequestsOK
    <3>2. \A b : HeldIn(request, b) = 0
      BY <3>1, NothingHeld
    <3>. QED  BY <2>1, <3>2, AccountsAreNatural
  <2>3. \A b : Usable(b) = 0
    <3>1. \A b : UsableRows(db, b) = {}
      BY DEF Init, UsableRows
    <3>2. \A b : UsableBalance(db, b) = 0
      BY <3>1, RemainingOfNone DEF UsableBalance
    <3>. QED  BY <2>1, <3>2, AccountsAreNatural
  <2>4. db.totalSpent = [b \in Borrowers |-> 0]
    BY DEF Init
  <2>. QED  BY <2>2, <2>3, <2>4 DEF Accounts!Init
<1>2. ASSUME IInv, [Next]_vars  PROVE [Accounts!Next]_(Accounts!accounts)
  <2>1. Outcome
    BY <1>2, StepTaken, StutterKeeps DEF Outcome
  <2>2. \A b \in Borrowers : Usable(b) \in Nat /\ HeldFor(b) \in Nat
    BY <1>2, AccountsAreNatural DEF IInv
  <2>3. /\ Credit \in [Borrowers -> Nat] /\ Held \in [Borrowers -> Nat]
        /\ Spent \in [Borrowers -> Nat]
    BY <1>2, <2>2 DEF IInv, TablesOK, Sound, Books, Credit, Held, Spent
  <2>4. \A b \in Borrowers : Credit[b] = Usable(b) /\ Held[b] = HeldFor(b)
    BY DEF Credit, Held
  <2>5. ASSUME NEW b \in Borrowers, NEW u \in Int, NEW h \in Int, NEW s \in Int,
               Effect(b, u, h, s)
        PROVE  /\ Credit' = [Credit EXCEPT ![b] = @ + u] /\ Held' = [Held EXCEPT ![b] = @ + h]
               /\ Spent' = [Spent EXCEPT ![b] = @ + s]
    BY <2>3, <2>4, <2>5, EffectOnAccounts
  <2>6. CASE Quiet
    <3>1. Credit' = Credit /\ Held' = Held /\ Spent' = Spent
      BY <2>6 DEF Quiet, Credit, Held, Spent
    <3>. QED  BY <3>1 DEF Accounts!accounts, Credit, Held, Spent
  <2>7. CASE /\ db'.totalSpent = db.totalSpent
             /\ \A c \in Borrowers : HeldFor(c)' = HeldFor(c) /\ Usable(c)' \in 0..Usable(c)
    <3>1. Accounts!Lapse
      BY <2>7 DEF Accounts!Lapse
    <3>. QED  BY <3>1 DEF Accounts!Next
  <2>8. CASE Crashed
    <3>1. Accounts!Crash
      BY <2>8 DEF Crashed, Accounts!Crash
    <3>. QED  BY <3>1 DEF Accounts!Next
  <2>9. CASE \E b \in Borrowers, amount \in Grants : Effect(b, amount, 0, 0)
    <3>1. PICK b \in Borrowers, amount \in Grants : Effect(b, amount, 0, 0)
      BY <2>9
    <3>2. amount \in Int
      BY RelayAssumption
    <3>3. /\ Credit' = [Credit EXCEPT ![b] = @ + amount] /\ Held' = [Held EXCEPT ![b] = @ + 0]
          /\ Spent' = [Spent EXCEPT ![b] = @ + 0]
      BY <2>5, <3>1, <3>2
    <3>4. Held' = Held /\ Spent' = Spent
      BY <2>3, <3>3
    <3>5. Accounts!Grant(b, amount)
      BY <3>3, <3>4 DEF Accounts!Grant, Credit, Held, Spent
    <3>. QED  BY <3>5 DEF Accounts!Next
  <2>10. CASE \E b \in Borrowers : \E amount \in 1..Usable(b) :
                active[b] /\ Effect(b, -amount, amount, 0)
    <3>1. PICK b \in Borrowers : \E amount \in 1..Usable(b) : Effect(b, -amount, amount, 0)
      BY <2>10
    <3>2. PICK amount \in 1..Usable(b) : Effect(b, -amount, amount, 0)
      BY <3>1
    <3>3. amount \in Int /\ -amount \in Int /\ amount \in 1..Credit[b]
      BY <2>2, <2>4
    <3>4. /\ Credit' = [Credit EXCEPT ![b] = @ + (-amount)]
          /\ Held' = [Held EXCEPT ![b] = @ + amount] /\ Spent' = [Spent EXCEPT ![b] = @ + 0]
      BY <2>5, <3>2, <3>3
    <3>5. Credit' = [Credit EXCEPT ![b] = @ - amount] /\ Spent' = Spent
      <4>1. Credit[b] + (-amount) = Credit[b] - amount /\ Spent[b] + 0 = Spent[b]
        BY <2>3, <3>3
      <4>. QED  BY <2>3, <3>4, <4>1
    <3>6. Accounts!Hold(b, amount)
      BY <3>4, <3>5 DEF Accounts!Hold, Credit, Held, Spent
    <3>. QED  BY <3>3, <3>6 DEF Accounts!Next, Credit, Held, Spent
  <2>11. CASE \E b \in Borrowers : \E amount \in 1..HeldFor(b) : Effect(b, amount, -amount, 0)
    <3>1. PICK b \in Borrowers : \E amount \in 1..HeldFor(b) : Effect(b, amount, -amount, 0)
      BY <2>11
    <3>2. PICK amount \in 1..HeldFor(b) : Effect(b, amount, -amount, 0)
      BY <3>1
    <3>3. amount \in Int /\ -amount \in Int /\ amount \in 1..Held[b]
      BY <2>2, <2>4
    <3>4. /\ Credit' = [Credit EXCEPT ![b] = @ + amount]
          /\ Held' = [Held EXCEPT ![b] = @ + (-amount)] /\ Spent' = [Spent EXCEPT ![b] = @ + 0]
      BY <2>5, <3>2, <3>3
    <3>5. Held' = [Held EXCEPT ![b] = @ - amount] /\ Spent' = Spent
      <4>1. Held[b] + (-amount) = Held[b] - amount /\ Spent[b] + 0 = Spent[b]
        BY <2>3, <3>3
      <4>. QED  BY <2>3, <3>4, <4>1
    <3>6. Accounts!Release(b, amount)
      BY <3>4, <3>5 DEF Accounts!Release, Credit, Held, Spent
    <3>. QED  BY <3>3, <3>6 DEF Accounts!Next, Credit, Held, Spent
  <2>12. CASE \E b \in Borrowers : \E amount \in 1..HeldFor(b), charged \in Nat :
                \/ Effect(b, amount - charged, -amount, charged)
                \/ charged > amount /\ Effect(b, 0, -amount, charged)
    <3>1. PICK b \in Borrowers : \E amount \in 1..HeldFor(b), charged \in Nat :
                \/ Effect(b, amount - charged, -amount, charged)
                \/ charged > amount /\ Effect(b, 0, -amount, charged)
      BY <2>12
    <3>2. PICK amount \in 1..HeldFor(b), charged \in Nat :
                \/ Effect(b, amount - charged, -amount, charged)
                \/ charged > amount /\ Effect(b, 0, -amount, charged)
      BY <3>1
    <3>3. /\ amount \in Int /\ -amount \in Int /\ amount - charged \in Int
          /\ amount \in 1..Held[b]
      BY <2>2, <2>4
    <3>4. /\ Held' = [Held EXCEPT ![b] = @ + (-amount)]
          /\ Spent' = [Spent EXCEPT ![b] = @ + charged]
          /\ \/ Credit' = [Credit EXCEPT ![b] = @ + (amount - charged)]
             \/ charged > amount /\ Credit' = [Credit EXCEPT ![b] = @ + 0]
      BY <2>5, <3>2, <3>3
    <3>5. /\ Held' = [Held EXCEPT ![b] = @ - amount] /\ Spent'[b] - Spent[b] = charged
          /\ \/ Credit' = [Credit EXCEPT ![b] = @ + amount - charged]
             \/ charged > amount /\ Credit' = Credit
      <4>1. /\ Held[b] + (-amount) = Held[b] - amount /\ Credit[b] + 0 = Credit[b]
            /\ Credit[b] + (amount - charged) = Credit[b] + amount - charged
            /\ (Spent[b] + charged) - Spent[b] = charged
        BY <2>3, <3>3
      <4>2. Spent'[b] = Spent[b] + charged
        BY <2>3, <3>4
      <4>3. [Credit EXCEPT ![b] = @ + 0] = Credit
        BY <2>3, <4>1
      <4>. QED  BY <3>4, <4>1, <4>2, <4>3
    <3>6. Accounts!Settle(b, amount, charged)
      BY <3>4, <3>5 DEF Accounts!Settle, Credit, Held, Spent
    <3>. QED  BY <3>3, <3>5, <3>6 DEF Accounts!Next, Credit, Held, Spent
  <2>. QED  BY <2>1, <2>6, <2>7, <2>8, <2>9, <2>10, <2>11, <2>12 DEF Outcome
<1>. QED  BY <1>1, <1>2, Invariance, PTL DEF Spec, ImplementsAccounts, Accounts!Spec
=============================================================================
