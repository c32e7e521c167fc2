------------------------ MODULE DepositWatcher_proofs ------------------------
(***************************************************************************)
(* CreditedOnce and CreditsBacked of DepositWatcher, for any number of     *)
(* borrowers, deposits, transactions, batches, crashes and failing calls.  *)
(*                                                                         *)
(* CreditedOnce is inductive beside the types: what matters is that a      *)
(* batch holds only events of the log, and that an event that is not in    *)
(* the log yet has no credit.  CreditsBacked says nothing of where a       *)
(* borrower's balance comes from; it is strengthened to the sum of the     *)
(* amounts of the borrower's events (Booked), of which every credit is an  *)
(* entry or nothing.                                                       *)
(***************************************************************************)
EXTENDS DepositWatcher, SequenceTheorems, ArithmeticTheorems

Entry == [borrower : Payers, amount : Nat, block : Nat]

Work(events) == [logs : Seq(events), at : {"new", "ensured", "asked"}]

\* The vault's books; usdc is what the two of them account for.
VaultOK ==
  /\ feeBps \in Nat /\ feeBps <= MAX_FEE_BPS
  /\ totalDeposits \in Nat /\ protocolFees \in Nat
  /\ usdc = totalDeposits + protocolFees
  /\ borrowerBalance \in [Payers -> Nat]
  /\ SumFunction(borrowerBalance) = totalDeposits

LogOK ==
  /\ log \in Seq(Entry) /\ Len(log) <= MaxEvents
  /\ head \in Nat

WatcherOK ==
  /\ lastProcessedBlock \in Nat /\ saved \in Nat /\ polled \in Nat
  /\ batches \in Seq(Work(Events))

CreditOK ==
  /\ credit \in [1..MaxEvents -> Nat]
  /\ \A e \in 1..MaxEvents \ Events : credit[e] = 0

Amounts == [e \in Events |-> log[e].amount]

\* What the vault holds for a borrower is the sum of that borrower's events.
Booked ==
  \A u \in Payers :
    borrowerBalance[u] = SumFunctionOnSet(Amounts, {e \in Events : log[e].borrower = u})

IInv == VaultOK /\ LogOK /\ WatcherOK /\ CreditOK /\ Booked /\ CreditedOnce
-----------------------------------------------------------------------------
(* The log and the batches.                                                *)

\* The events are the numbers up to the length of the log.
LEMMA EventsAre ==
  ASSUME LogOK
  PROVE  /\ Len(log) \in Nat /\ Events = 1..Len(log) /\ IsFiniteSet(Events)
         /\ Events \subseteq 1..MaxEvents
         /\ \A e \in Events : log[e] \in Entry
<1>1. Len(log) \in Nat /\ DOMAIN log = 1..Len(log)
  BY LenProperties DEF LogOK
<1>2. \A e \in 1..Len(log) : log[e] \in Entry
  BY ElementOfSeq DEF LogOK
<1>3. 1..Len(log) \subseteq 1..MaxEvents
  BY <1>1, WatcherAssumption DEF LogOK
<1>. QED  BY <1>1, <1>2, <1>3, FS_Interval DEF Events

\* What a query of the chain returns are events of the log.
LEMMA QueryReturnsEvents ==
  ASSUME LogOK, NEW first \in Int, NEW last \in Int
  PROVE  EventsIn(first, last) \in Seq(Events)
<1>. DEFINE before == {e \in Events : log[e].block < first}
            among == {e \in Events : log[e].block \in first..last}
<1>1. /\ before \subseteq Events /\ among \subseteq Events /\ before \cap among = {}
  BY EventsAre DEF Entry
<1>2. IsFiniteSet(before) /\ IsFiniteSet(among) /\ IsFiniteSet(before \cup among)
  BY <1>1, EventsAre, FS_Subset
<1>3. Cardinality(before) \in Nat /\ Cardinality(among) \in Nat
  BY <1>2, FS_CardinalityType
<1>4. Cardinality(before \cup among) = Cardinality(before) + Cardinality(among)
  <2>1. Cardinality(before \cap among) = 0
    BY <1>1, FS_EmptySet
  <2>. HIDE DEF before, among
  <2>2. Cardinality(before \cup among)
          = Cardinality(before) + Cardinality(among) - Cardinality(before \cap among)
    BY <1>2, FS_Union
  <2>. QED  BY <1>3, <2>1, <2>2
<1>5. Cardinality(before \cup among) <= Cardinality(Events)
  BY <1>1, EventsAre, FS_Subset, before \cup among \in SUBSET Events
<1>6. Cardinality(Events) = Len(log)
  BY EventsAre, FS_Interval
<1>. HIDE DEF before, among
<1>7. \A i \in 1..Cardinality(among) : Cardinality(before) + i \in Events
  BY <1>3, <1>4, <1>5, <1>6, EventsAre
<1>8. [i \in 1..Cardinality(among) |-> Cardinality(before) + i] \in [1..Cardinality(among) -> Events]
  BY <1>7
<1>9. [i \in 1..Cardinality(among) |-> Cardinality(before) + i] \in Seq(Events)
  BY <1>3, <1>8, SeqDef
<1>. QED  BY <1>9, EmptySeq DEF EventsIn, MinedIn, before, among

\* A batch of events is one for a longer log as well.
LEMMA WorkGrows ==
  ASSUME NEW S, NEW T, S \subseteq T, NEW b \in Seq(Work(S))
  PROVE  b \in Seq(Work(T))
<1>1. Seq(S) \subseteq Seq(T)
  BY SeqMonotonic
<1>2. Work(S) \subseteq Work(T)
  BY <1>1 DEF Work
<1>. QED  BY <1>2, SeqMonotonic

\* A new batch is work on its events.
LEMMA NewBatch ==
  ASSUME NEW S, NEW logs \in Seq(S)
  PROVE  Batch(logs) \in Work(S)
BY DEF Batch, Work

\* The next event of a batch is in the log, and what follows it too.
LEMMA NextOfBatch ==
  ASSUME LogOK, WatcherOK, NEW k \in DOMAIN batches, Pending(k)
  PROVE  /\ batches[k] \in Work(Events) /\ EventOf(k) \in Events
         /\ Tail(batches[k].logs) \in Seq(Events)
<1>1. batches[k] \in Work(Events)
  BY LenProperties, ElementOfSeq DEF WatcherOK
<1>2. batches[k].logs \in Seq(Events)
  BY <1>1 DEF Work
<1>. QED  BY <1>1, <1>2, HeadTailProperties DEF Pending, EventOf

\* Taking one batch out, or changing one, leaves work on events.
LEMMA OneBatchChanged ==
  ASSUME NEW S, NEW bs \in Seq(Work(S)), NEW k \in DOMAIN bs
  PROVE  /\ RemoveAt(bs, k) \in Seq(Work(S))
         /\ \A b \in Work(S) : [bs EXCEPT ![k] = b] \in Seq(Work(S))
<1>1. Len(bs) \in Nat /\ k \in 1..Len(bs)
  BY LenProperties
<1>2. \A i \in 1..Len(bs) : bs[i] \in Work(S)
  BY ElementOfSeq
<1>3. SubSeq(bs, 1, k - 1) \in Seq(Work(S)) /\ SubSeq(bs, k + 1, Len(bs)) \in Seq(Work(S))
  BY <1>1, <1>2, SubSeqProperties
<1>4. RemoveAt(bs, k) \in Seq(Work(S))
  BY <1>3, ConcatProperties DEF RemoveAt
<1>. QED  BY <1>1, <1>4, ExceptSeq

\* The handler's going on to the next log leaves work on events.
LEMMA NextLogKeepsWork ==
  ASSUME LogOK, WatcherOK, NEW k \in DOMAIN batches, Pending(k), NextLog(k)
  PROVE  batches' \in Seq(Work(Events))
<1>1. Tail(batches[k].logs) \in Seq(Events)
  BY NextOfBatch
<1>2. Batch(Tail(batches[k].logs)) \in Work(Events)
  BY <1>1, NewBatch
<1>3. batches \in Seq(Work(Events))
  BY DEF WatcherOK
<1>. QED  BY <1>2, <1>3, OneBatchChanged DEF NextLog
-----------------------------------------------------------------------------
(* The vault.                                                              *)

\* The fee is never negative and never more than the payment.
LEMMA FeeWithinPayment ==
  ASSUME VaultOK, NEW amount \in Nat
  PROVE  Fee(amount) \in Nat /\ NetDeposit(amount) \in Nat /\ Fee(amount) + NetDeposit(amount) = amount
<1>1. feeBps \in Nat /\ feeBps <= BPS_DENOMINATOR /\ BPS_DENOMINATOR \in Nat /\ BPS_DENOMINATOR > 0
  BY VaultAssumption DEF VaultOK
<1>2. /\ amount * feeBps \in Nat /\ amount * BPS_DENOMINATOR \in Nat
      /\ amount * feeBps <= amount * BPS_DENOMINATOR
  BY <1>1
<1>3. Fee(amount) \in Nat
  BY <1>1, <1>2 DEF Fee
<1>4. Fee(amount) <= amount
  <2>1. BPS_DENOMINATOR * Fee(amount) <= amount * feeBps
    BY <1>1, <1>2 DEF Fee
  <2>. QED  BY <1>1, <1>2, <1>3, <2>1
<1>. QED  BY <1>3, <1>4 DEF NetDeposit

\* A deposit adds to one balance and to the total alike.
LEMMA DepositKeepsBooks ==
  ASSUME VaultOK, NEW u \in Payers, NEW amount \in Payments, Deposit(u, amount)
  PROVE  /\ VaultOK'
         /\ borrowerBalance' = [borrowerBalance EXCEPT ![u] = @ + NetDeposit(amount)]
<1>1. amount \in Nat
  BY VaultAssumption
<1>2. Fee(amount) \in Nat /\ NetDeposit(amount) \in Nat /\ Fee(amount) + NetDeposit(amount) = amount
  BY <1>1, FeeWithinPayment
<1>3. borrowerBalance \in [Payers -> Nat] /\ borrowerBalance' \in [Payers -> Nat]
  BY <1>2 DEF VaultOK, Deposit
<1>4. SumFunctionOnSet(borrowerBalance', Payers)
        = SumFunctionOnSet(borrowerBalance, Payers) + NetDeposit(amount)
  <2>1. borrowerBalance'[u] - borrowerBalance[u] = NetDeposit(amount)
    BY <1>2, <1>3 DEF Deposit
  <2>2. \A v \in Payers \ {u} : borrowerBalance'[v] = borrowerBalance[v]
    BY <1>3 DEF Deposit
  <2>. QED  BY <1>3, <2>1, <2>2, SumOneChanged, VaultAssumption
<1>5. SumFunction(borrowerBalance') = totalDeposits'
  BY <1>3, <1>4, SumOfFunction DEF VaultOK, Deposit
<1>. QED  BY <1>1, <1>2, <1>3, <1>5 DEF VaultOK, Deposit, terms

\* No call of the admin reaches the borrowers' money.
LEMMA AdminKeepsBooks ==
  ASSUME VaultOK, NEW m \in Admins, AdminStep(m)
  PROVE  VaultOK' /\ UNCHANGED borrowerBalance
<1>1. CASE WithdrawProtocolFees(protocolFees)
  BY <1>1 DEF WithdrawProtocolFees, VaultOK, terms
<1>2. CASE \E new \in FeeRates : SetFeeBps(new)
  BY <1>2, VaultAssumption DEF SetFeeBps, VaultOK, books
<1>3. CASE UNCHANGED <<feeBps, books>>
  BY <1>3 DEF VaultOK, books
<1>4. UNCHANGED <<feeBps, books>> \/ WithdrawProtocolFees(protocolFees) \/ \E new \in FeeRates : SetFeeBps(new)
  BY DEF AdminStep, AcceptAdmin, SetPaused, SetMinDeposit, TransferAdmin
<1>. QED  BY <1>1, <1>2, <1>3, <1>4 DEF WithdrawProtocolFees, SetFeeBps, books
-----------------------------------------------------------------------------
(* The steps.                                                              *)

LEMMA InitEstablishes ==
  ASSUME Init
  PROVE  IInv
<1>1. VaultOK
  <2>1. borrowerBalance \in [Payers -> Nat] /\ DOMAIN borrowerBalance = Payers
    BY DEF Init, VaultInit
  <2>2. SumFunctionOnSet(borrowerBalance, Payers) = 0
    BY SumOfZeros, VaultAssumption DEF Init, VaultInit
  <2>. QED  BY <2>1, <2>2, SumOfFunction, VaultAssumption DEF VaultOK, Init, VaultInit
<1>2. LogOK /\ Events = {}
  BY EmptySeq, WatcherAssumption DEF LogOK, Init, Events
<1>3. WatcherOK
  BY EmptySeq DEF WatcherOK, Init
<1>4. CreditOK /\ CreditedOnce
  BY <1>2 DEF CreditOK, CreditedOnce, Init
<1>5. Booked
  <2>1. \A u \in Payers : {e \in Events : log[e].borrower = u} = {}
    BY <1>2
  <2>. QED  BY <2>1, SumOfNothing DEF Booked, Init, VaultInit
<1>. QED  BY <1>1, <1>2, <1>3, <1>4, <1>5 DEF IInv

\* A step that leaves the chain and the credits alone needs to keep the watcher.
LEMMA WatcherOnly ==
  ASSUME IInv, UNCHANGED <<chainVars, credit>>, WatcherOK'
  PROVE  IInv'
<1>1. Events' = Events /\ Amounts' = Amounts /\ UNCHANGED <<log, head, credit>>
  BY DEF chainVars, Events, Amounts
<1>2. VaultOK'
  BY DEF IInv, VaultOK, chainVars, vaultVars, terms, books
<1>3. Booked'
  BY <1>1 DEF IInv, Booked, chainVars, vaultVars, books
<1>4. LogOK' /\ CreditOK' /\ CreditedOnce'
  BY <1>1 DEF IInv, LogOK, CreditOK, CreditedOnce
<1>. QED  BY <1>2, <1>3, <1>4 DEF IInv

\* A deposit is a new event without a credit, and as much more for its borrower.
LEMMA DepositStep ==
  ASSUME IInv, NEW u \in Payers, NEW amount \in Payments, DepositUsdc(u, amount)
  PROVE  IInv'
<1>. DEFINE new == Len(log) + 1
            entry == [borrower |-> u, amount |-> NetDeposit(amount), block |-> head + 1]
<1>1. VaultOK' /\ borrowerBalance' = [borrowerBalance EXCEPT ![u] = @ + NetDeposit(amount)]
  BY DepositKeepsBooks DEF IInv, DepositUsdc
<1>2. NetDeposit(amount) \in Nat /\ entry \in Entry
  BY FeeWithinPayment, VaultAssumption DEF IInv, LogOK, Entry
<1>3. Len(log) \in Nat /\ Events = 1..Len(log) /\ IsFiniteSet(Events) /\ new \notin Events
  BY EventsAre DEF IInv
<1>4. LogOK' /\ Len(log') = new
  BY <1>2, <1>3, AppendProperties, WatcherAssumption DEF IInv, LogOK, DepositUsdc
<1>5. Events' = Events \cup {new} /\ new \in 1..MaxEvents
  <2>1. Events' = 1..new
    BY <1>4, LenProperties DEF LogOK, Events
  <2>. QED  BY <1>3, <2>1, WatcherAssumption DEF DepositUsdc
<1>6. /\ \A e \in Events : log'[e] = log[e]
      /\ log'[new] = entry
  BY <1>2, <1>3, AppendProperties DEF IInv, LogOK, DepositUsdc
<1>7. WatcherOK'
  <2>1. batches \in Seq(Work(Events'))
    BY <1>5, WorkGrows DEF IInv, WatcherOK
  <2>. QED  BY <2>1 DEF IInv, WatcherOK, DepositUsdc
<1>8. UNCHANGED credit /\ credit[new] = 0 /\ CreditOK'
  BY <1>3, <1>5 DEF IInv, CreditOK, DepositUsdc
<1>9. CreditedOnce'
  BY <1>5, <1>6, <1>8 DEF IInv, CreditedOnce
<1>10. Booked'
  <2>. SUFFICES ASSUME NEW v \in Payers
                PROVE  borrowerBalance'[v]
                         = SumFunctionOnSet(Amounts', {e \in Events' : log'[e].borrower = v})
    BY DEF Booked
  <2>. DEFINE own == {e \in Events : log[e].borrower = v}
              own2 == {e \in Events' : log'[e].borrower = v}
  <2>1. own \subseteq Events /\ IsFiniteSet(own) /\ new \notin own
    BY <1>3, FS_Subset
  <2>2. \A e \in own : Amounts[e] \in Int /\ Amounts'[e] = Amounts[e]
    <3>1. \A e \in Events : log[e].amount \in Nat
      BY EventsAre DEF IInv, Entry
    <3>. QED  BY <1>5, <1>6, <3>1 DEF Amounts
  <2>3. SumFunctionOnSet(Amounts', own) = SumFunctionOnSet(Amounts, own)
    BY <2>1, <2>2, SumAgrees
  <2>4. borrowerBalance \in [Payers -> Nat] /\ borrowerBalance[v] = SumFunctionOnSet(Amounts, own)
    BY DEF IInv, Booked, VaultOK
  <2>5. CASE v = u
    <3>1. own2 = own \cup {new}
      BY <1>5, <1>6, <2>5
    <3>2. Amounts'[new] = NetDeposit(amount)
      BY <1>5, <1>6 DEF Amounts
    <3>3. \A e \in own \cup {new} : Amounts'[e] \in Int
      BY <1>2, <2>2, <3>2
    <3>4. SumFunctionOnSet(Amounts', own \cup {new})
            = SumFunctionOnSet(Amounts', own) + Amounts'[new]
      BY <2>1, <3>3, SumAdded
    <3>. QED  BY <1>1, <2>3, <2>4, <2>5, <3>1, <3>2, <3>4
  <2>6. CASE v # u
    <3>1. own2 = own
      BY <1>5, <1>6, <2>6
    <3>. QED  BY <1>1, <2>3, <2>4, <2>6, <3>1
  <2>. QED  BY <2>5, <2>6
<1>. QED  BY <1>1, <1>4, <1>7, <1>8, <1>9, <1>10 DEF IInv

\* A new block, and what the admin does, change no event.
LEMMA OtherChainStep ==
  ASSUME IInv, NewBlock \/ VaultAdmin
  PROVE  IInv'
<1>1. VaultOK' /\ UNCHANGED borrowerBalance
  <2>1. CASE NewBlock
    BY <2>1 DEF NewBlock, vaultVars, terms, books, VaultOK, IInv
  <2>2. CASE VaultAdmin
    BY <2>2, AdminKeepsBooks DEF VaultAdmin, IInv
  <2>. QED  BY <2>1, <2>2
<1>2. UNCHANGED <<log, credit, lastProcessedBlock, saved, batches, polled>> /\ head' \in Nat
  BY DEF IInv, LogOK, NewBlock, VaultAdmin
<1>3. Events' = Events /\ Amounts' = Amounts
  BY <1>2 DEF Events, Amounts
<1>4. LogOK' /\ WatcherOK' /\ CreditOK' /\ CreditedOnce'
  BY <1>2, <1>3 DEF IInv, LogOK, WatcherOK, CreditOK, CreditedOnce
<1>5. Booked'
  BY <1>1, <1>2, <1>3 DEF IInv, Booked
<1>. QED  BY <1>1, <1>4, <1>5 DEF IInv

\* The watcher's own life: start, catch-up, polls, stops.
LEMMA LifeStep ==
  ASSUME IInv, Start \/ EndCatchUp \/ Watch \/ Poll \/ Crash \/ Shutdown
  PROVE  IInv'
<1>1. UNCHANGED <<chainVars, credit>> /\ Events' = Events
  BY DEF Start, EndCatchUp, Watch, Poll, Crash, Shutdown, Stopped, SaveState, chainVars, Events
<1>. SUFFICES WatcherOK'
  BY <1>1, WatcherOnly
<1>2. LogOK /\ WatcherOK /\ <<>> \in Seq(Work(Events))
  BY EmptySeq DEF IInv
<1>3. \A first \in Int : <<Batch(EventsIn(first, head))>> \in Seq(Work(Events))
  <2>1. \A first \in Int : Batch(EventsIn(first, head)) \in Work(Events)
    BY <1>2, QueryReturnsEvents, NewBatch DEF LogOK
  <2>. QED  BY <1>2, <2>1
<1>4. CASE Start
  <2>1. saved \in Nat /\ lastProcessedBlock' \in Nat /\ saved' \in Nat /\ polled' \in Nat
    BY <1>2, <1>4 DEF Start, WatcherOK
  <2>2. <<Batch(EventsIn(saved + 1, head))>> \in Seq(Work(Events))
    BY <1>3, <2>1
  <2>3. batches' \in Seq(Work(Events))
    BY <1>2, <1>4, <2>2 DEF Start
  <2>. QED  BY <1>1, <2>1, <2>3 DEF WatcherOK
<1>5. CASE EndCatchUp
  BY <1>1, <1>2, <1>5 DEF EndCatchUp, WatcherOK
<1>6. CASE Watch
  BY <1>1, <1>2, <1>6 DEF Watch, WatcherOK, LogOK
<1>7. CASE Poll
  <2>1. Batch(EventsIn(polled + 1, head)) \in Work(Events)
    BY <1>2, QueryReturnsEvents, NewBatch DEF LogOK, WatcherOK
  <2>2. Append(batches, Batch(EventsIn(polled + 1, head))) \in Seq(Work(Events))
    BY <1>2, <2>1, AppendProperties DEF WatcherOK
  <2>. QED  BY <1>1, <1>2, <1>7, <2>2 DEF Poll, WatcherOK, LogOK
<1>8. CASE Crash \/ Shutdown
  BY <1>1, <1>2, <1>8 DEF Crash, Shutdown, Stopped, SaveState, WatcherOK
<1>. QED  BY <1>4, <1>5, <1>6, <1>7, <1>8
-----------------------------------------------------------------------------
\* The relay credits the event at the head of a batch, unless its transaction
\* has a credit: then the event had none, and gets the amount of the log.
LEMMA CreditStep ==
  ASSUME IInv, NEW k \in DOMAIN batches, Credit(k)
  PROVE  IInv'
<1>. DEFINE e == EventOf(k)
<1>1. Events' = Events /\ Amounts' = Amounts /\ UNCHANGED <<log, head>>
  BY DEF Credit, chainVars, Events, Amounts
<1>2. VaultOK' /\ LogOK'
  BY DEF IInv, VaultOK, LogOK, Credit, chainVars, vaultVars, terms, books
<1>3. Booked'
  BY <1>1 DEF IInv, Booked, Credit, chainVars, vaultVars, books
<1>4. WatcherOK'
  <2>1. batches[k] \in Work(Events)
    BY NextOfBatch DEF IInv, Credit
  <2>2. [batches EXCEPT ![k].at = "asked"] = [batches EXCEPT ![k] = [batches[k] EXCEPT !.at = "asked"]]
    OBVIOUS
  <2>3. [batches[k] EXCEPT !.at = "asked"] \in Work(Events)
    BY <2>1 DEF Work
  <2>4. [batches EXCEPT ![k].at = "asked"] \in Seq(Work(Events))
    BY <2>2, <2>3, OneBatchChanged DEF IInv, WatcherOK
  <2>. QED  BY <1>1, <2>4 DEF IInv, WatcherOK, Credit
<1>5. e \in Events /\ e \in 1..MaxEvents /\ log[e].amount \in Nat
  BY NextOfBatch, EventsAre DEF IInv, Credit, Entry
<1>6. CASE AlreadyProcessed(e)
  <2>1. UNCHANGED credit
    BY <1>6 DEF Credit
  <2>. QED  BY <1>1, <1>2, <1>3, <1>4, <2>1 DEF IInv, CreditOK, CreditedOnce
<1>7. CASE ~ AlreadyProcessed(e)
  <2>. HIDE DEF e
  <2>1. \A f \in Events : TxOf[f] = TxOf[e] => credit[f] = 0
    BY <1>7, EventsAre DEF AlreadyProcessed, IInv, CreditOK
  <2>2. credit' = [credit EXCEPT ![e] = log[e].amount]
    <3>1. credit' = [credit EXCEPT ![e] = credit[e] + log[e].amount]
      BY <1>7 DEF Credit, e
    <3>2. credit[e] + log[e].amount = log[e].amount
      BY <1>5, <2>1
    <3>. QED  BY <3>1, <3>2
  <2>3. credit' \in [1..MaxEvents -> Nat] /\ credit'[e] = log[e].amount
    BY <1>5, <2>2 DEF IInv, CreditOK
  <2>4. \A f \in 1..MaxEvents \ {e} : credit'[f] = credit[f]
    BY <2>2 DEF IInv, CreditOK
  <2>5. CreditOK'
    BY <1>1, <1>5, <2>3, <2>4 DEF IInv, CreditOK
  <2>6. CreditedOnce'
    <3>1. Events \subseteq 1..MaxEvents
      BY EventsAre DEF IInv
    <3>2. \A f \in Events : credit'[f] \in {0, log[f].amount}
      BY <2>3, <2>4, <3>1 DEF IInv, CreditedOnce
    <3>3. ASSUME NEW f \in Events, NEW g \in Events,
                 TxOf[f] = TxOf[g], credit'[f] > 0, credit'[g] > 0
          PROVE  f = g
      BY <1>5, <2>1, <2>4, <3>1, <3>3 DEF IInv, CreditedOnce
    <3>. QED  BY <1>1, <3>2, <3>3 DEF CreditedOnce
  <2>. QED  BY <1>2, <1>3, <1>4, <2>5, <2>6 DEF IInv
<1>. QED  BY <1>6, <1>7

\* The other steps of a handler move its batch and what is saved.
LEMMA HandlerStep ==
  ASSUME IInv, NEW k \in DOMAIN batches, EnsureBorrower(k) \/ Answered(k) \/ Fails(k)
  PROVE  IInv'
<1>1. UNCHANGED <<chainVars, credit>> /\ Events' = Events /\ Pending(k)
  BY DEF EnsureBorrower, Answered, Fails, chainVars, Events
<1>. SUFFICES WatcherOK'
  BY <1>1, WatcherOnly
<1>2. batches[k] \in Work(Events) /\ EventOf(k) \in Events
  BY <1>1, NextOfBatch DEF IInv
<1>3. CASE EnsureBorrower(k)
  <2>1. [batches EXCEPT ![k].at = "ensured"] = [batches EXCEPT ![k] = [batches[k] EXCEPT !.at = "ensured"]]
    OBVIOUS
  <2>2. [batches[k] EXCEPT !.at = "ensured"] \in Work(Events)
    BY <1>2 DEF Work
  <2>3. [batches EXCEPT ![k].at = "ensured"] \in Seq(Work(Events))
    BY <2>1, <2>2, OneBatchChanged DEF IInv, WatcherOK
  <2>. QED  BY <1>1, <1>3, <2>3 DEF IInv, WatcherOK, EnsureBorrower
<1>4. CASE Answered(k)
  <2>1. batches' \in Seq(Work(Events))
    BY <1>1, <1>4, NextLogKeepsWork DEF IInv, Answered
  <2>2. BlockToSave(EventOf(k)) \in Nat
    BY <1>2, EventsAre DEF IInv, BlockToSave, Entry
  <2>. QED  BY <1>1, <1>4, <2>1, <2>2 DEF IInv, WatcherOK, Answered, SaveState
<1>5. CASE Fails(k)
  <2>1. batches' \in Seq(Work(Events))
    BY <1>1, <1>5, NextLogKeepsWork DEF IInv, Fails
  <2>. QED  BY <1>1, <1>5, <2>1 DEF IInv, WatcherOK, Fails
<1>. QED  BY <1>3, <1>4, <1>5

LEMMA StutterStep ==
  ASSUME IInv, UNCHANGED vars
  PROVE  IInv'
BY WatcherOnly DEF vars, chainVars, IInv, WatcherOK, Events

\* The invariant holds in every state.
LEMMA Invariance == Spec => []IInv
<1>1. Init => IInv
  BY InitEstablishes
<1>2. IInv /\ [Next]_vars => IInv'
  <2>. SUFFICES ASSUME IInv, [Next]_vars  PROVE IInv'
    OBVIOUS
  <2>1. ASSUME NEW u \in Payers, NEW amount \in Payments, DepositUsdc(u, amount)  PROVE IInv'
    BY <2>1, DepositStep
  <2>2. CASE NewBlock \/ VaultAdmin
    BY <2>2, OtherChainStep
  <2>3. CASE Start \/ EndCatchUp \/ Watch \/ Poll \/ Crash \/ Shutdown
    BY <2>3, LifeStep
  <2>4. ASSUME NEW k \in DOMAIN batches, BatchStep(k)  PROVE IInv'
    BY <2>4, CreditStep, HandlerStep DEF BatchStep
  <2>5. CASE UNCHANGED vars
    BY <2>5, StutterStep
  <2>. QED  BY <2>1, <2>2, <2>3, <2>4, <2>5 DEF Next
<1>. QED  BY <1>1, <1>2, PTL DEF Spec
-----------------------------------------------------------------------------
(* What it gives.                                                          *)

\* CreditedOnce: however often the watcher submits a transaction - after a
\* crash before the save, a lost answer, or in a catch-up - at most one of its
\* events is credited, with its own amount (deposit-watcher.ts, db/index.ts).
THEOREM Credited == Spec => []CreditedOnce
<1>1. IInv => CreditedOnce
  BY DEF IInv
<1>. QED  BY <1>1, Invariance, PTL

\* CreditsBacked: what the relay credited a borrower is at most what the vault
\* books for the borrower; the balances add up to the total, and the vault's
\* USDC covers it after the fees, whatever the admin does (DIEMVault.sol).
THEOREM Backed == Spec => []CreditsBacked
<1>1. ASSUME IInv, NEW u \in Payers  PROVE CreditOf(u) <= borrowerBalance[u]
  <2>. DEFINE own == {e \in Events : log[e].borrower = u}
  <2>1. IsFiniteSet(own) /\ own \subseteq Events /\ Events \subseteq 1..MaxEvents
    BY <1>1, EventsAre, FS_Subset DEF IInv
  <2>2. \A e \in own : credit[e] \in Int /\ Amounts[e] \in Int /\ credit[e] <= Amounts[e]
    <3>1. \A e \in Events : log[e].amount \in Nat
      BY <1>1, EventsAre DEF IInv, Entry
    <3>2. \A e \in Events : credit[e] \in {0, log[e].amount}
      BY <1>1 DEF IInv, CreditedOnce
    <3>. QED  BY <2>1, <3>1, <3>2 DEF Amounts
  <2>3. SumFunctionOnSet(credit, own) <= SumFunctionOnSet(Amounts, own)
    BY <2>1, <2>2, SumMonotone
  <2>. QED  BY <1>1, <2>3 DEF IInv, Booked, CreditOf
<1>2. IInv => CreditsBacked
  BY <1>1 DEF IInv, VaultOK, CreditsBacked
<1>. QED  BY <1>2, Invariance, PTL
=============================================================================
