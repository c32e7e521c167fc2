----------------------------- MODULE StakeLedger -----------------------------
(***************************************************************************)
(* What a staking contract promises its users about their DIEM, with Venice *)
(* and the rewards left out: a position is the sum of what a user holds    *)
(* outside, has staked and has queued for withdrawal.  Queued DIEM is paid *)
(* only after WithdrawalDelay without a further request, possibly in       *)
(* parts; a queue entry is never handed over with a transfer; and no step  *)
(* touches the position of a user it was not taken by or for.              *)
(***************************************************************************)
EXTENDS Integers

CONSTANTS Users, InitialDiem, WithdrawalDelay, MinWithdraw

VARIABLES wallet, staked, queued    \* queued: user -> [amount, wait]
ledgerVars == <<wallet, staked, queued>>

Init ==
  /\ wallet = [u \in Users |-> InitialDiem]
  /\ staked = [u \in Users |-> 0]
  /\ queued = [u \in Users |-> [amount |-> 0, wait |-> 0]]

Deposit(u, amount) ==
  /\ wallet' = [wallet EXCEPT ![u] = @ - amount]
  /\ staked' = [staked EXCEPT ![u] = @ + amount]
  /\ UNCHANGED queued

GiveAway(u, amount) ==
  /\ wallet' = [wallet EXCEPT ![u] = @ - amount]
  /\ UNCHANGED <<staked, queued>>

\* Less than MinWithdraw leaves only as the whole of a balance.
Queue(u, amount) ==
  /\ amount >= MinWithdraw \/ amount = staked[u]
  /\ staked' = [staked EXCEPT ![u] = @ - amount]
  /\ queued' = [queued EXCEPT ![u] = [amount |-> @.amount + amount,
                                      wait |-> WithdrawalDelay]]
  /\ UNCHANGED wallet

\* To oneself, too.
Transfer(from, to, amount) ==
  /\ staked' = [[staked EXCEPT ![from] = @ - amount] EXCEPT ![to] = @ + amount]
  /\ UNCHANGED <<wallet, queued>>

Pay(u, amount) ==
  /\ queued[u].wait = 0
  /\ queued' = [queued EXCEPT ![u].amount = @ - amount]
  /\ wallet' = [wallet EXCEPT ![u] = @ + amount]
  /\ UNCHANGED staked

Cancel(u) ==
  /\ staked' = [staked EXCEPT ![u] = @ + queued[u].amount]
  /\ queued' = [queued EXCEPT ![u] = [amount |-> 0, wait |-> 0]]
  /\ UNCHANGED wallet

TimePasses ==
  /\ queued' = [u \in Users |->
                  [queued[u] EXCEPT !.wait = IF @ > 0 THEN @ - 1 ELSE 0]]
  /\ UNCHANGED <<wallet, staked>>

Next ==
  \/ TimePasses
  \/ \E u \in Users :
       \/ \E amount \in 1..wallet[u] : Deposit(u, amount) \/ GiveAway(u, amount)
       \/ \E amount \in 1..staked[u] :
            Queue(u, amount) \/ \E to \in Users : Transfer(u, to, amount)
       \/ \E amount \in 1..queued[u].amount : Pay(u, amount)
       \/ Cancel(u)

Spec == Init /\ [][Next]_ledgerVars
=============================================================================
