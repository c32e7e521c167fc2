---------------------------- MODULE VeniceStaking ----------------------------
(***************************************************************************)
(* The staking half of the DIEM token, as one staking contract sees it.    *)
(* The token is not part of this repository: the operators below say what  *)
(* IDIEMStaking (contracts/src/interfaces/IDIEMStaking.sol) documents and  *)
(* what the contracts' tests run against.                                  *)
(*                                                                         *)
(* A pool is a record holding every DIEM the contract controls:            *)
(*   liquid    diem.balanceOf(contract)                                    *)
(*   staked    stakedInfos(contract).stakedAmount                          *)
(*   pending   stakedInfos(contract).pendingUnstakeAmount                  *)
(*   cooldown  time left until cooldownEndTimestamp, 0 once it is reached  *)
(*             (and when nothing is pending)                               *)
(* Timers count down, so that no clock has to be bounded.                  *)
(***************************************************************************)
EXTENDS Integers

CONSTANT VeniceCooldown     \* cooldownDuration(): 24 hours on Venice today

ASSUME VeniceCooldownAssumption == VeniceCooldown \in Nat \ {0}

Pools == [liquid : Nat, staked : Nat, pending : Nat, cooldown : 0..VeniceCooldown]

EmptyPool == [liquid |-> 0, staked |-> 0, pending |-> 0, cooldown |-> 0]

\* Everything a contract holds in one form or another.
Holdings(pool) == pool.liquid + pool.staked + pool.pending

\* unstake() would succeed: something is pending and its cooldown is over.
Matured(pool) == pool.pending > 0 /\ pool.cooldown = 0

\* DIEM arriving from outside, or leaving to a user.
Receive(pool, amount) == [pool EXCEPT !.liquid = @ + amount]
PayOut(pool, amount) == [pool EXCEPT !.liquid = @ - amount]

\* stake(amount): liquid DIEM becomes staked.
Stake(pool, amount) ==
  [liquid |-> pool.liquid - amount, staked |-> pool.staked + amount,
   pending |-> pool.pending, cooldown |-> pool.cooldown]

\* initiateUnstake(amount): the amount joins whatever is already pending, and
\* the cooldown of all of it starts again.
InitiateUnstake(pool, amount) ==
  [liquid |-> pool.liquid, staked |-> pool.staked - amount,
   pending |-> pool.pending + amount, cooldown |-> VeniceCooldown]

\* unstake(): everything pending becomes liquid; enabled when Matured.
Unstake(pool) ==
  [liquid |-> pool.liquid + pool.pending, staked |-> pool.staked,
   pending |-> 0, cooldown |-> 0]

\* One unit of time.
Elapse(pool) == [pool EXCEPT !.cooldown = IF @ > 0 THEN @ - 1 ELSE 0]
=============================================================================
