---------------------------- MODULE DepositWatcher ----------------------------
(***************************************************************************)
(* src/deposit-watcher.ts: the process that turns the vault's Deposited    *)
(* events into relay credits, with the relay reduced to what it does with  *)
(* a payment's hash (Relay models it in full).                             *)
(*                                                                         *)
(* DIEMVault's deposits are the events, numbered in the order of the chain.*)
(* The watcher sees those whose topic is that of the event its ABI         *)
(* declares, which is not the one DIEMVault emits: the form of the events  *)
(* is a constant, so that the handler can be looked at with a vault it     *)
(* understands and with the one of this repository.  A batch is the list   *)
(* of logs one catch-up query or one poll returned; its handler works      *)
(* through the list, awaiting the relay's answer for each event, while     *)
(* later polls may start further batches.  What the watcher saves to its   *)
(* state file is the block of the last event that went well.               *)
(***************************************************************************)
EXTENDS DIEMVault, SequencesExt

CONSTANTS
  MaxEvents,      \* BOUND: deposits made
  MaxHead,        \* BOUND: blocks mined
  MaxStops,       \* BOUND: crashes and shutdowns
  TxOf,           \* event -> its transaction
  VaultEvent,     \* the parameters of Deposited as the contract at VAULT_ADDRESS emits it
  Faults          \* BOUND: {"request"} if a call of the relay may fail

ASSUME WatcherAssumption ==
  /\ MaxEvents \in Nat /\ MaxHead \in Nat /\ MaxStops \in Nat
  /\ DOMAIN TxOf = 1..MaxEvents
  /\ Faults \subseteq {"request"}

VARIABLES
  head,       \* the newest block
  log,        \* the events: [borrower, amount, block], the last ones in the block to come
  credit,     \* event -> what the relay credited for it
  pc,         \* "down", "catchup", "ready" (before watchContractEvent), "watching"
  lastProcessedBlock,   \* state.lastProcessedBlock in memory
  saved,      \* the same in the state file, 0 without one
  batches,    \* sequence of [logs, at]: where the handler is with the first
              \* of the logs, see Batch
  polled,     \* the block up to which watchContractEvent has looked
  stops,
  failed      \* history: events whose processing threw

vars == <<vaultVars, head, log, credit, pc, lastProcessedBlock, saved, batches, polled,
          stops, failed>>

chainVars == <<vaultVars, head, log>>

Events == DOMAIN log

\* The event the watcher asks for.  Its topic, the hash of its name and of the
\* types of its parameters, must be the one in the log.
DEPOSITED_EVENT == <<"address", "uint256", "uint256">>

\* The events of some blocks, in the order of the chain: those after the ones
\* of earlier blocks.
MinedIn(first, last) ==
  LET before == Cardinality({e \in Events : log[e].block < first})
  IN  [i \in 1..Cardinality({e \in Events : log[e].block \in first..last}) |-> before + i]

\* What the node returns for those blocks and that topic.
EventsIn(first, last) ==
  IF VaultEvent = DEPOSITED_EVENT THEN MinedIn(first, last) ELSE <<>>

\* "new": the answer to ensureBorrower is awaited; "ensured": the relay has not
\* got POST /admin/credit yet; "asked": its answer is awaited.
Batch(logs) == [logs |-> logs, at |-> "new"]

Init ==
  /\ VaultInit
  /\ head = 1 /\ log = <<>>
  /\ credit = [e \in 1..MaxEvents |-> 0]
  /\ pc = "down" /\ lastProcessedBlock = 0 /\ saved = 0
  /\ batches = <<>> /\ polled = 0
  /\ stops = 0 /\ failed = {}
-----------------------------------------------------------------------------
\* A transaction may deposit twice; it is all of one borrower and of one block.
MidTx == Len(log) \in 1..MaxEvents - 1 /\ TxOf[Len(log)] = TxOf[Len(log) + 1]

DepositUsdc(u, amount) ==
  /\ Len(log) < MaxEvents /\ head < MaxHead
  /\ MidTx => log[Len(log)].borrower = u
  /\ Deposit(u, amount)
  /\ log' = Append(log, [borrower |-> u, amount |-> NetDeposit(amount), block |-> head + 1])
  /\ UNCHANGED <<head, credit, pc, lastProcessedBlock, saved, batches, polled,
                 stops, failed>>

NewBlock ==
  /\ ~MidTx /\ head < MaxHead
  /\ head' = head + 1
  /\ UNCHANGED <<vaultVars, log, credit, pc, lastProcessedBlock, saved, batches, polled,
                 stops, failed>>

VaultAdmin ==
  /\ ~MidTx /\ \E m \in Admins : AdminStep(m)
  /\ UNCHANGED <<head, log, credit, pc, lastProcessedBlock, saved, batches, polled,
                 stops, failed>>
-----------------------------------------------------------------------------
(* main(): load the state, catch up, then watch.                           *)

Start ==
  /\ pc = "down"
  /\ lastProcessedBlock' = saved
  /\ IF saved > 0 /\ saved + 1 <= head
     THEN /\ pc' = "catchup"
          /\ batches' = <<Batch(EventsIn(saved + 1, head))>>
     ELSE /\ pc' = "ready"
          /\ batches' = <<>>
  /\ UNCHANGED <<chainVars, credit, saved, polled, stops, failed>>

EndCatchUp ==
  /\ pc = "catchup"
  /\ batches[1].logs = <<>>
  /\ pc' = "ready" /\ batches' = <<>>
  /\ UNCHANGED <<chainVars, credit, lastProcessedBlock, saved, polled, stops, failed>>

\* watchContractEvent() is given no fromBlock (watchFromBlock is computed and
\* never used): it looks at what comes after the head it finds.
Watch ==
  /\ pc = "ready"
  /\ pc' = "watching" /\ polled' = head
  /\ UNCHANGED <<chainVars, credit, lastProcessedBlock, saved, batches, stops, failed>>

Poll ==
  /\ pc = "watching" /\ polled < head
  /\ polled' = head
  /\ batches' = IF EventsIn(polled + 1, head) = <<>> THEN batches
                ELSE Append(batches, Batch(EventsIn(polled + 1, head)))
  /\ UNCHANGED <<chainVars, credit, pc, lastProcessedBlock, saved, stops, failed>>
-----------------------------------------------------------------------------
(* processDepositEvent(), for the first event left in batch k.             *)

Pending(k) == batches[k].logs # <<>>
EventOf(k) == Head(batches[k].logs)

\* (mutant) the rest of the batch is given up with its first event.
DropBatch(k) ==
  batches' = IF pc = "watching" THEN RemoveAt(batches, k)
             ELSE [batches EXCEPT ![k] = Batch(<<>>)]

\* The handler goes on to the next log; a batch of the watcher that is
\* finished is gone.
NextLog(k) ==
  LET rest == Batch(Tail(batches[k].logs))
  IN  batches' = IF rest.logs = <<>> /\ pc = "watching" THEN RemoveAt(batches, k)
                 ELSE [batches EXCEPT ![k] = rest]

\* (mutant) no look-up by hash.
NeverProcessed(e) == FALSE

\* addCredit(): a hash that has a row is not credited again.
AlreadyProcessed(e) == \E f \in Events : TxOf[f] = TxOf[e] /\ credit[f] > 0

\* ensureBorrower(): the relay has the borrower, as it had before or newly.
EnsureBorrower(k) ==
  /\ Pending(k) /\ batches[k].at = "new"
  /\ batches' = [batches EXCEPT ![k].at = "ensured"]
  /\ UNCHANGED <<chainVars, credit, pc, lastProcessedBlock, saved, polled, stops, failed>>

\* The relay gets POST /admin/credit.
Credit(k) ==
  /\ Pending(k) /\ batches[k].at = "ensured"
  /\ batches' = [batches EXCEPT ![k].at = "asked"]
  /\ credit' = IF AlreadyProcessed(EventOf(k)) THEN credit
               ELSE [credit EXCEPT ![EventOf(k)] = @ + log[EventOf(k)].amount]
  /\ UNCHANGED <<chainVars, pc, lastProcessedBlock, saved, polled, stops, failed>>

BlockToSave(e) == log[e].block

SaveState(block) == saved' = block

\* Its answer arrives: the state moves to the event's block, never back.
Answered(k) ==
  LET block == BlockToSave(EventOf(k))
      new == IF block > lastProcessedBlock THEN block ELSE lastProcessedBlock
  IN  /\ Pending(k) /\ batches[k].at = "asked"
      /\ lastProcessedBlock' = new
      /\ IF new > lastProcessedBlock THEN SaveState(new) ELSE UNCHANGED saved
      /\ NextLog(k)
      /\ UNCHANGED <<chainVars, credit, pc, polled, stops, failed>>

\* A call fails, before or after the relay acted on it: logged, and on to the
\* next event.
Fails(k) ==
  /\ "request" \in Faults
  /\ Pending(k)
  /\ failed' = failed \cup {EventOf(k)}
  /\ NextLog(k)
  /\ UNCHANGED <<chainVars, credit, pc, lastProcessedBlock, saved, polled,
                 stops>>
-----------------------------------------------------------------------------
Stopped ==
  /\ pc # "down" /\ stops < MaxStops
  /\ pc' = "down" /\ batches' = <<>> /\ stops' = stops + 1
  /\ UNCHANGED <<chainVars, credit, lastProcessedBlock, polled, failed>>

Crash == Stopped /\ UNCHANGED saved

\* SIGINT and SIGTERM, once the watcher runs: saveState() and exit.
Shutdown == pc = "watching" /\ Stopped /\ SaveState(lastProcessedBlock)

BatchStep(k) == EnsureBorrower(k) \/ Credit(k) \/ Answered(k) \/ Fails(k)

Next ==
  \/ \E u \in Payers, amount \in Payments : DepositUsdc(u, amount)
  \/ NewBlock \/ VaultAdmin
  \/ Start \/ EndCatchUp \/ Watch \/ Poll
  \/ \E k \in DOMAIN batches : BatchStep(k)
  \/ Crash \/ Shutdown

Spec == Init /\ [][Next]_vars

\* While the process is up its poller fires, and its handlers get an answer or
\* an error for every call they make.
Fairness ==
  /\ WF_vars(Poll)
  /\ \A k \in 1..MaxHead : WF_vars(k \in DOMAIN batches /\ BatchStep(k))

FairSpec == Spec /\ Fairness
-----------------------------------------------------------------------------
\* A transaction is credited at most once and never for more than was deposited,
\* though a crash between the relay's insert and the save, a lost answer, or a
\* catch-up over blocks whose events went through before make the watcher
\* submit it again.
CreditedOnce ==
  \A e \in Events :
    /\ credit[e] \in {0, log[e].amount}
    /\ \A f \in Events : TxOf[e] = TxOf[f] /\ credit[e] > 0 /\ credit[f] > 0 => e = f

CreditOf(u) == SumFunctionOnSet(credit, {e \in Events : log[e].borrower = u})

\* What the relay has credited a borrower is USDC the vault holds for that
\* borrower and that the admin cannot reach: the fee is split off before, and
\* changes of the rate or withdrawals of fees between deposit and credit take
\* nothing from it (deposit, withdrawProtocolFees; KNOWN_ISSUES.md:260).
CreditsBacked ==
  /\ \A u \in Payers : CreditOf(u) <= borrowerBalance[u]
  /\ SumFunction(borrowerBalance) = totalDeposits
  /\ usdc >= totalDeposits + protocolFees

\* A query or a poll has handed the event over, and its turn is yet to end.
InBatch(e) == \E k \in DOMAIN batches : e \in ToSet(batches[k].logs)

\* The relay knows a payment by its transaction (db/index.ts:70).
FirstOfTx(e) == \A f \in Events : TxOf[f] = TxOf[e] => e <= f

\* A deposit that a catch-up or a poll has handed over is credited, whatever
\* other batches are in progress and however they fail, unless its own
\* processing fails or the process stops (processDepositEvent, onLogs).
DeliveredCredited ==
  \A e \in 1..MaxEvents :
    InBatch(e) /\ FirstOfTx(e)
      ~> (credit[e] > 0 \/ e \in failed \/ pc = "down")

\* DIEMVault.sol: "an off-chain watcher picks up `Deposited` events and credits
\* the corresponding relay account".  Of a deposit mined while the watcher is
\* polling, every call it makes going well.
PolledDepositsCredited ==
  \A e \in 1..MaxEvents :
    (pc = "watching" /\ e \in Events /\ log[e].block \in polled + 1..head)
      ~> (credit[e] > 0 \/ e \in failed \/ pc = "down")

\* deposit-watcher.ts, onLogs: "Don't update state -- will retry on next poll",
\* and main: "Catch up on missed events".  The catch-up starts after the saved
\* block: what lies at or before it, is not credited and is in no batch is lost.
NothingLost == \A e \in Events : log[e].block <= saved => credit[e] > 0 \/ InBatch(e)
=============================================================================
