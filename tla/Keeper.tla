-------------------------------- MODULE Keeper --------------------------------
(***************************************************************************)
(* The daily keeper (src/keeper-distribute.ts) against the contracts it    *)
(* drives, and the health check (scripts/health-check.sh) that reads its   *)
(* log: RevenueSplitter with the process that calls harvest() on the       *)
(* csDIEM vaults and then distribute().                                    *)
(*                                                                         *)
(* A run reads a contract's state, decides, simulates, sends a transaction *)
(* and waits for its receipt; between any two of these the contracts may   *)
(* move.  A wait gives up after 90 seconds while the transaction stays in  *)
(* the mempool, in the order of the nonces.  A run takes minutes and a     *)
(* unit of time hours: time passes between runs only.                      *)
(*                                                                         *)
(* Of a csDIEM vault, harvest() and the pause are here; CSDiemV2 has the   *)
(* rest of the contract.                                                   *)
(***************************************************************************)
EXTENDS RevenueSplitter, Sequences

CONSTANTS
  VaultV1, VaultV2,   \* CSDIEM_ADDRESS and CSDIEM_V2_ADDRESS: a holder of sDIEM, or
  Unset,              \* an empty environment variable
  DryRun,             \* DRY_RUN
  MinHarvest,         \* minHarvest of the vaults
  DiemForSale,        \* BOUND: DIEM the swap pool has for harvests
  DiemPerHarvest,     \* BOUND: what one harvest buys
  VaultPauses,        \* BOUND: the values the vaults' admin gives to paused
  Day,                \* the time between two runs of cron
  MaxAge,             \* MAX_AGE_SECONDS of health-check.sh
  MaxFaults           \* BOUND: RPC errors, timeouts, kills, missed and dear runs,
                      \*        and what admins do

ASSUME KeeperAssumption ==
  /\ VaultV1 \in Users \cup {Unset} /\ VaultV2 \in Users \cup {Unset}
  /\ Unset \notin Users /\ DryRun \in BOOLEAN
  /\ MinHarvest \in Nat \ {0}
  /\ DiemForSale \in Nat /\ DiemPerHarvest \in Nat \ {0}
  /\ VaultPauses \subseteq BOOLEAN
  /\ Day \in Nat \ {0} /\ MaxAge \in Nat /\ MaxFaults \in Nat

Jobs == <<"harvest[v1]", "harvest[v2]", "distribute">>
Off == 0                    \* no run; otherwise the job a run is at

VARIABLES
  keeper,         \* [job, doing]: doing is "gas", "read", "send" or "wait"
  statuses,       \* the statuses of the jobs done in this run
  mempool,        \* the keeper's transactions: sequence of [job, expired]
  log,            \* keeper.log's latest run: [begun, error, done, age]
  ping,           \* the suffix of a run's last ping
  untilRun,       \* time until cron starts the next run
  marketDiem, vaultPaused,
  faults,
  due             \* history: the jobs possible ever since the run began

keeperVars == <<keeper, statuses, mempool, log, ping, untilRun, faults>>
marketVars == <<marketDiem, vaultPaused>>
systemVars == <<allVars, keeperVars, marketVars, due>>

KeeperInit ==
  /\ SplitterInit
  /\ keeper = [job |-> Off, doing |-> "gas"]
  /\ statuses = {} /\ mempool = <<>>
  /\ log = [begun |-> FALSE, error |-> FALSE, done |-> FALSE, age |-> 0]
  /\ ping = "" /\ untilRun = Day /\ faults = 0
  /\ marketDiem = DiemForSale /\ vaultPaused = FALSE
  /\ due = {}
-----------------------------------------------------------------------------
(* What the transactions do when they are mined.                           *)

VaultOf(job) == IF job = 1 THEN VaultV1 ELSE VaultV2

\* distribute() would not revert.
Distributable ==
  LET rate == RateOf(splitterUsdc - PlatformCut(splitterUsdc) + Leftover)
  IN  /\ ~setup.paused
      /\ since >= setup.cooldown
      /\ splitterUsdc >= setup.minAmount
      /\ roles.operator = Splitter
      /\ rate > 0

\* harvest() would not revert: it claims the vault's rewards from sDIEM,
\* swaps them and stakes the DIEM, for which sDIEM must not be paused either.
Harvestable(vault) ==
  /\ vault # Unset
  /\ ~vaultPaused /\ ~paused
  /\ Earned(vault) >= MinHarvest
  /\ marketDiem >= DiemPerHarvest

Harvest(vault) ==
  /\ Harvestable(vault)
  /\ CheckpointGlobal
  /\ PayReward(vault, TRUE)
  /\ balanceOf' = [balanceOf EXCEPT ![vault] = @ + DiemPerHarvest]
  /\ totalSupply' = totalSupply + DiemPerHarvest
  /\ pool' = Stake(Receive(pool, DiemPerHarvest), DiemPerHarvest)
  /\ marketDiem' = marketDiem - DiemPerHarvest
  /\ UNCHANGED <<roleVars, wallet, donated, queueVars, periodVars, splitterVars,
                 vaultPaused>>

Possible(job) == IF job = 3 THEN Distributable ELSE Harvestable(VaultOf(job))

Perform(job) ==
  IF job = 3 THEN Distribute /\ UNCHANGED marketVars ELSE Harvest(VaultOf(job))

\* What the keeper looks at before it sends anything: less than what decides.
WorthHarvesting(vault) == ~vaultPaused /\ Earned(vault) >= MinHarvest

WorthDistributing ==
  ~setup.paused /\ splitterUsdc >= setup.minAmount /\ since >= setup.cooldown

WorthSending(job) ==
  IF job = 3 THEN WorthDistributing ELSE WorthHarvesting(VaultOf(job))
-----------------------------------------------------------------------------
(* The run: main(), runHarvest(), runDistribute().                         *)

Suffix(outcomes) ==
  IF "fail" \in outcomes THEN "/fail" ELSE IF "ok" \in outcomes THEN "" ELSE "/0"

\* The job ends with a status and the next begins; after the last one the run
\* writes its summary and pings.
JobEnds(status, logged) ==
  LET outcomes == statuses \cup {status}
      last == keeper.job = Len(Jobs)
  IN  /\ keeper' = IF last THEN [job |-> Off, doing |-> "gas"]
                   ELSE [job |-> keeper.job + 1, doing |-> "read"]
      /\ statuses' = IF last THEN {} ELSE outcomes
      /\ log' = [log EXCEPT !.error = @ \/ logged, !.done = last]
      /\ ping' = IF last THEN Suffix(outcomes) ELSE ping

\* (mutant) a job that fails takes the run with it.
FailEndsRun ==
  /\ keeper' = [job |-> Off, doing |-> "gas"] /\ statuses' = {}
  /\ log' = [log EXCEPT !.error = TRUE, !.done = TRUE] /\ ping' = "/fail"
\* (mutant) a receipt that did not come is nobody's error.
FailsQuietly == JobEnds("fail", FALSE)
JobFails == JobEnds("fail", TRUE)
JobSkips == JobEnds("skip", FALSE)

Fault == faults < MaxFaults /\ faults' = faults + 1

KeeperOnly == UNCHANGED <<allVars, marketVars>>

\* cron starts a run; its first line is the one health-check.sh looks for.
StartRun ==
  /\ keeper.job = Off /\ untilRun = 0
  /\ keeper' = [job |-> 1, doing |-> "gas"]
  /\ log' = [begun |-> TRUE, error |-> FALSE, done |-> FALSE, age |-> 0]
  /\ untilRun' = Day
  /\ UNCHANGED <<statuses, mempool, ping, faults>>
  /\ KeeperOnly

MissRun ==
  /\ keeper.job = Off /\ untilRun = 0
  /\ untilRun' = Day /\ Fault
  /\ UNCHANGED <<keeper, statuses, mempool, log, ping>>
  /\ KeeperOnly

\* The preflight: the base fee is low enough, or the run ends without a
\* summary line; a failing RPC ends it too, with an error.
AtPreflight == keeper.doing = "gas" /\ keeper.job # Off

GasAffordable ==
  /\ AtPreflight
  /\ keeper' = [keeper EXCEPT !.doing = "read"]
  /\ UNCHANGED <<statuses, mempool, log, ping, untilRun, faults>>
  /\ KeeperOnly

PreflightEnds(suffix) ==
  /\ AtPreflight
  /\ keeper' = [job |-> Off, doing |-> "gas"] /\ ping' = suffix
  /\ Fault
  /\ UNCHANGED <<statuses, mempool, untilRun>>
  /\ KeeperOnly

SkipAll == PreflightEnds("/0") /\ UNCHANGED log
MainThrows == PreflightEnds("/fail") /\ log' = [log EXCEPT !.error = TRUE]

ReadState ==
  /\ keeper.doing = "read"
  /\ IF keeper.job # 3 /\ VaultOf(keeper.job) = Unset THEN JobSkips
     ELSE IF ~WorthSending(keeper.job) THEN JobSkips
     ELSE IF DryRun THEN JobEnds("ok", FALSE)
     ELSE keeper' = [keeper EXCEPT !.doing = "send"] /\ UNCHANGED <<statuses, log, ping>>
  /\ UNCHANGED <<mempool, untilRun, faults>>
  /\ KeeperOnly

\* simulateContract() refuses what would revert now; else writeContract().
Send ==
  /\ keeper.doing = "send"
  /\ IF Possible(keeper.job)
     THEN /\ mempool' = Append(mempool, [job |-> keeper.job, expired |-> FALSE])
          /\ keeper' = [keeper EXCEPT !.doing = "wait"]
          /\ UNCHANGED <<statuses, log, ping>>
     ELSE JobFails /\ UNCHANGED mempool
  /\ UNCHANGED <<untilRun, faults>>
  /\ KeeperOnly

\* An RPC error in a read, a simulation or a send; no receipt in time.
JobErrs ==
  /\ keeper.doing \in {"read", "send", "wait"}
  /\ JobFails /\ Fault
  /\ UNCHANGED <<mempool, untilRun>>
  /\ KeeperOnly

Kill ==
  /\ keeper.job # Off
  /\ keeper' = [job |-> Off, doing |-> "gas"] /\ statuses' = {} /\ Fault
  /\ UNCHANGED <<mempool, log, ping, untilRun>>
  /\ KeeperOnly

\* The keeper is waiting for its newest transaction.
Awaited == keeper.doing = "wait" /\ Len(mempool) = 1

\* A block takes the oldest transaction: it does its work or reverts.
Mined ==
  /\ mempool # <<>>
  /\ mempool' = Tail(mempool)
  /\ LET tx == Head(mempool)
         succeeds == Possible(tx.job) /\ ~tx.expired
     IN  /\ IF succeeds THEN Perform(tx.job) ELSE KeeperOnly
         /\ IF Awaited THEN JobEnds(IF succeeds THEN "ok" ELSE "fail", ~succeeds)
            ELSE UNCHANGED <<keeper, statuses, log, ping>>
  /\ UNCHANGED <<untilRun, faults>>
-----------------------------------------------------------------------------
(* Everybody else.                                                         *)

\* harvest(deadline) gives a transaction five minutes.
ElapseKeeper ==
  /\ keeper.job = Off /\ untilRun > 0
  /\ untilRun' = untilRun - 1
  /\ log' = [log EXCEPT !.age = Min2(@ + 1, MaxAge + 1)]
  /\ mempool' = [i \in DOMAIN mempool |->
                   [mempool[i] EXCEPT !.expired = mempool[i].job # 3]]
  /\ IF SDiemIdle /\ since = MaxCooldown THEN UNCHANGED allVars ELSE PassTime
  /\ UNCHANGED <<keeper, statuses, ping, faults, marketVars>>

\* Depositors bring DIEM to a vault, which stakes it.  SDiemV2 and CSDiemV2 have everything else that happens there.
Deposit ==
  /\ \E u \in Users, amount \in Amounts : StakeDiem(u, amount)
  /\ UNCHANGED splitterVars

PauseVault(value) ==
  /\ vaultPaused # value /\ vaultPaused' = value
  /\ UNCHANGED <<allVars, marketDiem>>

AdminStep ==
  /\ \/ \E value \in VaultPauses : PauseVault(value)
     \/ /\ \/ \E m \in Managers \ {Splitter} : SplitterAdminStep(m)
           \/ \E m \in Managers \ {Splitter} : ManagerStep(m) /\ UNCHANGED splitterVars
        /\ UNCHANGED marketVars
  /\ Fault
  /\ UNCHANGED <<keeper, statuses, mempool, log, ping, untilRun>>

WorldStep ==
  \/ ElapseKeeper
  \/ AdminStep
  \/ /\ Distribute \/ Deposit \/ \E amount \in Payments : PayRevenue(amount)
     /\ UNCHANGED <<keeperVars, marketVars>>

RunStep == StartRun \/ GasAffordable \/ ReadState \/ Send

\* due is kept along: what was possible when the run began and ever since.
Track ==
  due' = IF keeper'.job = Off /\ keeper.job = Off THEN {}
         ELSE {job \in IF keeper.job = Off THEN DOMAIN Jobs ELSE due : Possible(job)'}

KeeperNext ==
  /\ \/ RunStep \/ Mined
     \/ MissRun \/ SkipAll \/ MainThrows \/ JobErrs \/ Kill
     \/ WorldStep
  /\ Track

KeeperSpec == KeeperInit /\ [][KeeperNext]_systemVars

\* Time passes, cron starts a run when one is due, a run goes on, and what the
\* keeper sends is mined.  Whoever else might call distribute() need not.
FairKeeperSpec ==
  /\ KeeperSpec
  /\ WF_systemVars(ElapseKeeper /\ Track)
  /\ WF_systemVars(RunStep /\ Track)
  /\ WF_systemVars(Mined /\ Track)
-----------------------------------------------------------------------------
(* health-check.sh, whenever it runs.                                      *)
Alert ==
  \/ ~log.begun
  \/ log.age > MaxAge
  \/ log.error
  \/ ~log.done

\* The health check misses nothing: after a run that left undone what the contracts
\* allowed all the way through it, the health check alerts, be it a revert, a
\* lost receipt, an RPC error or a kill.
SilentRunsServe ==
  [][keeper.job # Off /\ keeper'.job = Off /\ due' # {} => Alert']_systemVars

\* Revenue does not get stuck as long as cron runs the keeper: neither what
\* others do between its read and its transaction, nor a transaction left in
\* the mempool, nor a bounded number of failed runs keeps it at the splitter.
RevenueServed ==
  []<>(splitterUsdc < setup.minAmount \/ setup.paused \/ roles.operator # Splitter)
=============================================================================
