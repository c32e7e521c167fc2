----------------------------- MODULE SDiem_proofs -----------------------------
(***************************************************************************)
(* Proofs about SDiemV2 and SDiemV1, for every set of users and every      *)
(* value of the other constants: the withdrawal queue of SDiemV2, its      *)
(* rewards and roles, and then SDiemV1, which extends SDiemV2 by its       *)
(* counter and shares the step lemmas of both.                             *)
(***************************************************************************)
EXTENDS SDiemV1, ArithmeticTheorems

(***************************************************************************)
(* A tally of f adds up f over every set of users; its value at Users is   *)
(* the total of f.  That a maintained total has a tally is inductive       *)
(* without any induction over the set of users: a step that changes one    *)
(* entry changes the tally of every set that entry belongs to.             *)
(***************************************************************************)
Tallies(f) ==
  {m \in [SUBSET Users -> Nat] :
     /\ m[{}] = 0
     /\ \A S \in SUBSET Users : \A u \in Users \ S : m[S \cup {u}] = m[S] + f[u]}

IsTotal(f, t) == \E m \in Tallies(f) : m[Users] = t

Queued == [u \in Users |-> request[u].amount]

\* The empty ledger totals 0.
LEMMA ZeroTotal == IsTotal([u \in Users |-> 0], 0)
<1> DEFINE z == [S \in SUBSET Users |-> 0]
<1>1. z \in Tallies([u \in Users |-> 0])
  BY DEF Tallies
<1>2. z[Users] = 0
  OBVIOUS
<1> QED  BY <1>1, <1>2 DEF IsTotal

\* No entry exceeds the total, and the total is a natural number.
LEMMA EntryBelowTotal ==
  ASSUME NEW f \in [Users -> Nat], NEW t, IsTotal(f, t), NEW u \in Users
  PROVE  t \in Nat /\ f[u] <= t
<1>1. PICK m \in Tallies(f) : m[Users] = t
  BY DEF IsTotal
<1>2. m \in [SUBSET Users -> Nat]
  BY <1>1 DEF Tallies
<1> DEFINE R == Users \ {u}
<1>3. R \in SUBSET Users /\ u \in Users \ R /\ R \cup {u} = Users
  OBVIOUS
<1>4. m[R \cup {u}] = m[R] + f[u]
  BY <1>1, <1>3 DEF Tallies
<1>5. m[R] \in Nat /\ m[Users] \in Nat /\ f[u] \in Nat
  BY <1>2, <1>3
<1> HIDE DEF R
<1> QED  BY <1>1, <1>3, <1>4, <1>5

\* Changing one entry by d changes the total by d.
LEMMA TotalAfterChange ==
  ASSUME NEW f \in [Users -> Nat], NEW t, IsTotal(f, t), NEW u \in Users,
         NEW d \in Int, f[u] + d \in Nat
  PROVE  IsTotal([f EXCEPT ![u] = @ + d], t + d)
<1>1. PICK m \in Tallies(f) : m[Users] = t
  BY DEF IsTotal
<1>2. /\ m \in [SUBSET Users -> Nat] /\ m[{}] = 0
      /\ \A S \in SUBSET Users : \A v \in Users \ S : m[S \cup {v}] = m[S] + f[v]
  BY <1>1 DEF Tallies
<1> DEFINE g == [f EXCEPT ![u] = @ + d]
           n == [S \in SUBSET Users |-> IF u \in S THEN m[S] + d ELSE m[S]]
<1>3. \A S \in SUBSET Users : u \in S => m[S] + d \in Nat
  <2>1. SUFFICES ASSUME NEW S \in SUBSET Users, u \in S PROVE m[S] + d \in Nat
    OBVIOUS
  <2>2. PICK R \in SUBSET Users : R = S \ {u}
    OBVIOUS
  <2>3. R \cup {u} = S /\ u \in Users \ R
    BY <2>1, <2>2
  <2>4. m[S] = m[R] + f[u]
    BY <1>2, <2>3
  <2>5. m[R] \in Nat /\ f[u] \in Nat
    BY <1>2
  <2> QED  BY <2>4, <2>5
<1>4. n \in [SUBSET Users -> Nat]
  BY <1>2, <1>3
<1>5. n[{}] = 0
  BY <1>2
<1>6. ASSUME NEW S \in SUBSET Users, NEW v \in Users \ S
      PROVE  n[S \cup {v}] = n[S] + g[v]
  <2>1. S \cup {v} \in SUBSET Users /\ m[S \cup {v}] = m[S] + f[v]
    BY <1>2
  <2>2. m[S] \in Nat /\ f[v] \in Nat
    BY <1>2
  <2>3. CASE v = u
    <3>1. u \notin S /\ u \in S \cup {v}
      BY <2>3
    <3>2. g[v] = f[v] + d
      BY <2>3
    <3> QED  BY <2>1, <2>2, <3>1, <3>2
  <2>4. CASE v # u
    <3>1. g[v] = f[v]
      BY <2>4
    <3>2. u \in S \cup {v} <=> u \in S
      BY <2>4
    <3> QED  BY <2>1, <2>2, <3>1, <3>2
  <2> QED  BY <2>3, <2>4
<1>7. n \in Tallies(g)
  BY <1>4, <1>5, <1>6 DEF Tallies
<1>8. n[Users] = t + d
  BY <1>1
<1> QED  BY <1>7, <1>8 DEF IsTotal
-----------------------------------------------------------------------------
(* The pool.                                                               *)

\* Claiming a matured cooldown moves DIEM inside the pool.
LEMMA UnstakePool ==
  ASSUME NEW p \in Pools
  PROVE  /\ Unstake(p) \in Pools
         /\ Holdings(Unstake(p)) = Holdings(p)
         /\ Unstake(p).liquid = p.liquid + p.pending
         /\ Unstake(p).pending = 0
<1>1. p.liquid \in Nat /\ p.pending \in Nat /\ p.staked \in Nat /\ 0 \in 0..VeniceCooldown
  BY VeniceCooldownAssumption DEF Pools
<1>2. Unstake(p) \in Pools
  BY <1>1 DEF Pools, Unstake
<1>3. /\ Unstake(p).liquid = p.liquid + p.pending
      /\ Unstake(p).pending = 0
      /\ Unstake(p).staked = p.staked
  BY DEF Pools, Unstake
<1> QED  BY <1>1, <1>2, <1>3 DEF Holdings

\* What is asked of Venice never exceeds what is staked there, and covers the
\* queue as far as the contract's holdings allow.
LEMMA UncoveredBounds ==
  ASSUME NEW p \in Pools, NEW owed \in Nat, owed <= Holdings(p)
  PROVE  /\ Uncovered(p, owed) \in 0..p.staked
         /\ Uncovered(p, owed) = 0 <=> p.liquid + p.pending >= owed
BY DEF Pools, Uncovered, Min2, Holdings

\* _tryInitiateVeniceUnstake keeps every DIEM, leaves something liquid or
\* pending whenever the queue is owed anything, and never touches a running
\* cooldown.
LEMMA TryInitiatePool ==
  ASSUME NEW p \in Pools, NEW owed \in Nat, owed <= Holdings(p)
  PROVE  /\ TryInitiate(p, owed) \in Pools
         /\ Holdings(TryInitiate(p, owed)) = Holdings(p)
         /\ owed > 0 => TryInitiate(p, owed).liquid + TryInitiate(p, owed).pending > 0
         /\ p.pending > 0 /\ p.cooldown > 0 => TryInitiate(p, owed) = p
<1> DEFINE c == IF Matured(p) THEN Unstake(p) ELSE p
           needed == Uncovered(c, owed)
<1>1. c \in Pools /\ Holdings(c) = Holdings(p) /\ c.liquid + c.pending = p.liquid + p.pending
  BY UnstakePool DEF Pools
<1>2. needed \in 0..c.staked /\ (needed = 0 <=> c.liquid + c.pending >= owed)
  BY <1>1, UncoveredBounds
<1>3. TryInitiate(p, owed) = IF Uncovered(p, owed) = 0 THEN p
                             ELSE IF c.pending > 0 \/ needed = 0 THEN c
                             ELSE InitiateUnstake(c, needed)
  BY DEF TryInitiate
<1>4. Uncovered(p, owed) = 0 <=> p.liquid + p.pending >= owed
  BY UncoveredBounds
<1>5. p.pending > 0 /\ p.cooldown > 0 => c = p
  BY DEF Matured
<1> HIDE DEF c, needed
<1>6. CASE Uncovered(p, owed) = 0
  BY <1>3, <1>4, <1>6 DEF Pools
<1>7. CASE Uncovered(p, owed) # 0 /\ (c.pending > 0 \/ needed = 0)
  BY <1>1, <1>2, <1>3, <1>5, <1>7 DEF Pools
<1>8. CASE Uncovered(p, owed) # 0 /\ ~(c.pending > 0 \/ needed = 0)
  <2>1. TryInitiate(p, owed) = InitiateUnstake(c, needed)
    BY <1>3, <1>8
  <2>2. needed \in 1..c.staked
    BY <1>1, <1>2, <1>8 DEF Pools
  <2>3. InitiateUnstake(c, needed) \in Pools
    <3>1. /\ c.liquid \in Nat /\ c.pending + needed \in Nat /\ c.staked - needed \in Nat
          /\ VeniceCooldown \in 0..VeniceCooldown
      BY <1>1, <2>2, VeniceCooldownAssumption DEF Pools
    <3> QED  BY <3>1 DEF Pools, InitiateUnstake
  <2>4. /\ InitiateUnstake(c, needed).liquid = c.liquid
        /\ InitiateUnstake(c, needed).pending = c.pending + needed
        /\ InitiateUnstake(c, needed).staked = c.staked - needed
    BY <1>1 DEF InitiateUnstake, Pools
  <2>5. c.liquid \in Nat /\ c.pending \in Nat /\ c.staked \in Nat
    BY <1>1 DEF Pools
  <2>6. ~(p.pending > 0 /\ p.cooldown > 0)
    BY <1>5, <1>8
  <2> QED  BY <1>1, <2>1, <2>2, <2>3, <2>4, <2>5, <2>6 DEF Holdings
<1> QED  BY <1>6, <1>7, <1>8

\* The other movements of DIEM.
LEMMA MovePool ==
  ASSUME NEW p \in Pools, NEW a \in Nat
  PROVE  /\ Receive(p, a) \in Pools /\ Holdings(Receive(p, a)) = Holdings(p) + a
         /\ Receive(p, a).liquid = p.liquid + a /\ Receive(p, a).pending = p.pending
         /\ a <= p.liquid =>
              /\ PayOut(p, a) \in Pools /\ Holdings(PayOut(p, a)) = Holdings(p) - a
              /\ PayOut(p, a).liquid = p.liquid - a
              /\ Stake(p, a) \in Pools /\ Holdings(Stake(p, a)) = Holdings(p)
              /\ Stake(p, a).liquid = p.liquid - a /\ Stake(p, a).pending = p.pending
         /\ Elapse(p) \in Pools /\ Holdings(Elapse(p)) = Holdings(p)
         /\ Elapse(p).liquid = p.liquid /\ Elapse(p).pending = p.pending
<1>1. /\ p.liquid \in Nat /\ p.pending \in Nat /\ p.staked \in Nat
      /\ p.cooldown \in 0..VeniceCooldown
      /\ (IF p.cooldown > 0 THEN p.cooldown - 1 ELSE 0) \in 0..VeniceCooldown
  BY VeniceCooldownAssumption DEF Pools
<1>2. Receive(p, a) \in Pools /\ Holdings(Receive(p, a)) = Holdings(p) + a
      /\ Receive(p, a).liquid = p.liquid + a /\ Receive(p, a).pending = p.pending
  BY <1>1 DEF Receive, Pools, Holdings
<1>3. ASSUME a <= p.liquid
      PROVE  /\ PayOut(p, a) \in Pools /\ Holdings(PayOut(p, a)) = Holdings(p) - a
             /\ PayOut(p, a).liquid = p.liquid - a
  BY <1>1, <1>3 DEF PayOut, Pools, Holdings
<1>4. ASSUME a <= p.liquid
      PROVE  /\ Stake(p, a) \in Pools /\ Holdings(Stake(p, a)) = Holdings(p)
             /\ Stake(p, a).liquid = p.liquid - a /\ Stake(p, a).pending = p.pending
  BY <1>1, <1>4 DEF Stake, Pools, Holdings
<1>5. /\ Elapse(p) \in Pools /\ Holdings(Elapse(p)) = Holdings(p)
      /\ Elapse(p).liquid = p.liquid /\ Elapse(p).pending = p.pending
  BY <1>1 DEF Elapse, Pools, Holdings
<1> QED  BY <1>2, <1>3, <1>4, <1>5
-----------------------------------------------------------------------------
(***************************************************************************)
(* The inductive invariant of the DIEM side.  Backing alone is not          *)
(* inductive: totalSupply - amount stays a natural number, and is still the *)
(* holders' total, only because totalSupply is the sum of the balances;     *)
(* likewise for the queue.  NeverStalled needs Backing: Venice can be asked *)
(* for what is missing only because it is staked there.                     *)
(***************************************************************************)
DiemInv ==
  /\ DiemTypeOK
  /\ Backing
  /\ NeverStalled
  /\ IsTotal(balanceOf, totalSupply)
  /\ IsTotal(Queued, totalPendingWithdrawals)

LEMMA DiemInit == Init => DiemInv
<1> SUFFICES ASSUME Init PROVE DiemInv
  OBVIOUS
<1>1. DiemTypeOK
  <2>1. EmptyPool \in Pools /\ NoRequest \in Requests
    BY VeniceCooldownAssumption, ParametersAssumption
    DEF EmptyPool, Pools, NoRequest, Requests
  <2> QED  BY <2>1, AmountsAssumption DEF Init, DiemTypeOK
<1>2. Backing /\ NeverStalled
  BY DEF Init, Backing, NeverStalled, Holdings, EmptyPool
<1>3. IsTotal(balanceOf, totalSupply)
  BY ZeroTotal DEF Init
<1>4. IsTotal(Queued, totalPendingWithdrawals)
  <2>1. Queued = [u \in Users |-> 0]
    BY DEF Init, Queued, NoRequest
  <2> QED  BY <2>1, ZeroTotal DEF Init
<1> QED  BY <1>1, <1>2, <1>3, <1>4 DEF DiemInv

\* Steps that leave the DIEM side alone.
LEMMA DiemUnchanged ==
  ASSUME DiemInv, UNCHANGED <<diemVars, shareVars, queueVars>>
  PROVE  DiemInv'
BY DEF DiemInv, DiemTypeOK, Backing, NeverStalled, Queued, diemVars, shareVars, queueVars,
       IsTotal, Tallies

\* The queue can never be owed more than the contract holds.
LEMMA OwedIsHeld ==
  ASSUME DiemInv
  PROVE  /\ totalSupply \in Nat /\ totalPendingWithdrawals \in Nat /\ donated \in Nat
         /\ Holdings(pool) \in Nat
         /\ totalPendingWithdrawals + totalSupply <= Holdings(pool)
         /\ totalPendingWithdrawals <= Holdings(pool)
BY DEF DiemInv, DiemTypeOK, Backing

\* Venice management moves DIEM inside the pool.
LEMMA PoolStep ==
  ASSUME DiemInv, pool' \in Pools, Holdings(pool') = Holdings(pool),
         totalPendingWithdrawals > 0 => pool'.liquid + pool'.pending > 0,
         UNCHANGED <<wallet, donated, shareVars, queueVars>>
  PROVE  DiemInv'
BY DEF DiemInv, DiemTypeOK, Backing, NeverStalled, Queued, shareVars, queueVars,
       IsTotal, Tallies, Holdings

\* Minting and burning keep the balances and their total together.
LEMMA ShareChange ==
  ASSUME DiemInv, NEW u \in Users, NEW d \in Int, balanceOf[u] + d \in Nat,
         balanceOf' = [balanceOf EXCEPT ![u] = @ + d], totalSupply' = totalSupply + d
  PROVE  /\ balanceOf' \in [Users -> Nat] /\ totalSupply' \in Nat
         /\ IsTotal(balanceOf', totalSupply')
<1>1. balanceOf \in [Users -> Nat] /\ IsTotal(balanceOf, totalSupply)
  BY DEF DiemInv, DiemTypeOK
<1>2. balanceOf' \in [Users -> Nat]
  BY <1>1
<1>3. IsTotal(balanceOf', totalSupply')
  BY <1>1, TotalAfterChange
<1>4. totalSupply' \in Nat
  BY <1>2, <1>3, EntryBelowTotal
<1> QED  BY <1>2, <1>3, <1>4

\* Queueing and dequeueing keep the entries and their total together.
LEMMA QueueChange ==
  ASSUME DiemInv, NEW u \in Users, NEW d \in Int, request[u].amount + d \in Nat,
         NEW w \in 0..WithdrawalDelay,
         request' = [request EXCEPT ![u] = [amount |-> @.amount + d, wait |-> w]],
         totalPendingWithdrawals' = totalPendingWithdrawals + d
  PROVE  /\ request' \in [Users -> Requests] /\ totalPendingWithdrawals' \in Nat
         /\ IsTotal(Queued', totalPendingWithdrawals')
<1>1. /\ request \in [Users -> Requests] /\ Queued \in [Users -> Nat]
      /\ IsTotal(Queued, totalPendingWithdrawals) /\ Queued[u] = request[u].amount
  BY DEF DiemInv, DiemTypeOK, Queued, Requests
<1>2. [amount |-> request[u].amount + d, wait |-> w] \in Requests
  BY DEF Requests
<1>3. request' \in [Users -> Requests]
  BY <1>1, <1>2
<1>4. Queued' = [Queued EXCEPT ![u] = @ + d]
  <2>1. \A v \in Users : request'[v].amount = IF v = u THEN Queued[u] + d ELSE Queued[v]
    BY <1>1 DEF Queued
  <2> QED  BY <2>1, <1>1 DEF Queued
<1>5. IsTotal(Queued', totalPendingWithdrawals')
  BY <1>1, <1>4, TotalAfterChange
<1>6. Queued' \in [Users -> Nat]
  BY <1>1, <1>4
<1>7. totalPendingWithdrawals' \in Nat
  BY <1>5, <1>6, EntryBelowTotal
<1> QED  BY <1>3, <1>5, <1>7
-----------------------------------------------------------------------------
(* One lemma per function that moves DIEM.                                 *)

\* DIEM that is staked for a user, wherever it comes from.
LEMMA DiemStaked ==
  ASSUME DiemInv, NEW u \in Users, NEW amount \in Nat, wallet' \in [Users -> Nat],
         balanceOf' = [balanceOf EXCEPT ![u] = @ + amount],
         totalSupply' = totalSupply + amount,
         pool' = Stake(Receive(pool, amount), amount), UNCHANGED <<donated, queueVars>>
  PROVE  DiemInv'
<1>1. /\ pool \in Pools /\ balanceOf \in [Users -> Nat]
      /\ totalSupply \in Nat /\ donated \in Nat /\ totalPendingWithdrawals \in Nat
  BY DEF DiemInv, DiemTypeOK
<1>2. /\ balanceOf' \in [Users -> Nat] /\ totalSupply' \in Nat
      /\ IsTotal(balanceOf', totalSupply')
  <2>1. balanceOf[u] + amount \in Nat /\ amount \in Int
    BY <1>1
  <2> QED  BY <2>1, ShareChange
<1>3. /\ pool' \in Pools /\ Holdings(pool') = Holdings(pool) + amount
      /\ pool'.liquid = pool.liquid /\ pool'.pending = pool.pending
  <2> DEFINE r == Receive(pool, amount)
  <2>1. /\ r \in Pools /\ Holdings(r) = Holdings(pool) + amount
        /\ r.liquid = pool.liquid + amount /\ r.pending = pool.pending
    BY <1>1, MovePool
  <2>2. pool.liquid \in Nat /\ amount <= r.liquid
    BY <1>1, <2>1 DEF Pools
  <2>3. pool' = Stake(r, amount)
    OBVIOUS
  <2> HIDE DEF r
  <2>4. /\ Stake(r, amount) \in Pools /\ Holdings(Stake(r, amount)) = Holdings(r)
        /\ Stake(r, amount).liquid = r.liquid - amount /\ Stake(r, amount).pending = r.pending
    BY <2>1, <2>2, MovePool
  <2> QED  BY <2>1, <2>2, <2>3, <2>4
<1>4. DiemTypeOK'
  BY <1>2, <1>3 DEF DiemInv, DiemTypeOK, queueVars
<1>5. Backing' /\ NeverStalled'
  <2>1. Backing /\ NeverStalled /\ Holdings(pool) \in Nat
    BY <1>1 DEF DiemInv, Pools, Holdings
  <2> QED  BY <2>1, <1>1, <1>3 DEF Backing, NeverStalled, queueVars
<1>6. Queued' = Queued
  BY DEF Queued, queueVars
<1> QED  BY <1>2, <1>4, <1>5, <1>6 DEF DiemInv, queueVars

LEMMA StakeDiemStep ==
  ASSUME DiemInv, NEW u \in Users, NEW amount \in Nat, StakeDiem(u, amount)
  PROVE  DiemInv'
<1>1. wallet' \in [Users -> Nat]
  BY DEF StakeDiem, DiemInv, DiemTypeOK
<1> QED  BY <1>1, DiemStaked DEF StakeDiem, Mint

\* requestWithdraw and exit share the queueing of a burned amount.
LEMMA EnqueueStep ==
  ASSUME DiemInv, NEW u \in Users, NEW amount \in Nat,
         BurnShares(u, amount), Enqueue(u, amount), UNCHANGED <<wallet, donated>>
  PROVE  DiemInv'
<1> DEFINE owed == totalPendingWithdrawals + amount
<1>1. /\ balanceOf \in [Users -> Nat] /\ pool \in Pools /\ request \in [Users -> Requests]
      /\ totalSupply \in Nat /\ donated \in Nat /\ totalPendingWithdrawals \in Nat
      /\ amount <= balanceOf[u] /\ balanceOf[u] <= totalSupply
  BY EntryBelowTotal DEF DiemInv, DiemTypeOK, BurnShares
<1>2. /\ balanceOf' \in [Users -> Nat] /\ totalSupply' = totalSupply - amount
      /\ totalSupply' \in Nat /\ IsTotal(balanceOf', totalSupply')
  <2>1. balanceOf[u] + (-amount) \in Nat /\ balanceOf[u] + (-amount) = balanceOf[u] - amount
        /\ totalSupply + (-amount) = totalSupply - amount /\ -amount \in Int
    BY <1>1
  <2>2. /\ balanceOf' = [balanceOf EXCEPT ![u] = @ + (-amount)]
        /\ totalSupply' = totalSupply + (-amount)
    BY <1>1, <2>1 DEF BurnShares
  <2> QED  BY <2>1, <2>2, ShareChange
<1>3. /\ request' \in [Users -> Requests] /\ totalPendingWithdrawals' = owed
      /\ totalPendingWithdrawals' \in Nat /\ IsTotal(Queued', totalPendingWithdrawals')
  <2>1. request[u].amount + amount \in Nat /\ amount \in Int /\ WithdrawalDelay \in 0..WithdrawalDelay
    BY <1>1, ParametersAssumption DEF Requests
  <2> QED  BY <2>1, QueueChange DEF Enqueue
<1>4. owed \in Nat /\ owed <= Holdings(pool)
  BY <1>1, OwedIsHeld
<1>5. /\ pool' \in Pools /\ Holdings(pool') = Holdings(pool)
      /\ owed > 0 => pool'.liquid + pool'.pending > 0
  <2>1. pool' = TryInitiate(pool, owed)
    BY DEF Enqueue
  <2> HIDE DEF owed
  <2> QED  BY <1>1, <1>4, <2>1, TryInitiatePool
<1>6. DiemTypeOK'
  BY <1>1, <1>2, <1>3, <1>5 DEF DiemInv, DiemTypeOK
<1>7. Backing' /\ NeverStalled'
  <2>1. Backing /\ Holdings(pool) \in Nat
    BY <1>1 DEF DiemInv, Pools, Holdings
  <2> QED  BY <2>1, <1>1, <1>2, <1>3, <1>5 DEF Backing, NeverStalled
<1> QED  BY <1>2, <1>3, <1>6, <1>7 DEF DiemInv

LEMMA CompleteWithdrawStep ==
  ASSUME DiemInv, NEW u \in Users, CompleteWithdraw(u)
  PROVE  DiemInv'
<1> DEFINE amount == request[u].amount
           owed == totalPendingWithdrawals
           initiated == TryInitiate(pool, owed)
           funded == IF initiated.liquid < amount /\ Matured(initiated)
                     THEN Unstake(initiated) ELSE initiated
           payout == Min2(amount, funded.liquid)
<1>1. /\ balanceOf \in [Users -> Nat] /\ pool \in Pools /\ request \in [Users -> Requests]
      /\ wallet \in [Users -> Nat] /\ amount \in Nat
      /\ totalSupply \in Nat /\ donated \in Nat /\ owed \in Nat /\ owed <= Holdings(pool)
  BY OwedIsHeld DEF DiemInv, DiemTypeOK, Requests
<1>2. initiated \in Pools /\ Holdings(initiated) = Holdings(pool)
  <2> HIDE DEF owed
  <2> QED  BY <1>1, TryInitiatePool
<1>3. funded \in Pools /\ Holdings(funded) = Holdings(pool)
  <2> HIDE DEF initiated
  <2> QED  BY <1>2, UnstakePool
<1>4. /\ payout > 0 /\ Dequeue(u, payout) /\ wallet' = [wallet EXCEPT ![u] = @ + payout]
      /\ pool' = PayAndInitiate(funded, payout, owed)
      /\ UNCHANGED <<donated, balanceOf, totalSupply>>
  BY DEF CompleteWithdraw, shareVars
<1>5. payout \in Nat /\ payout <= amount /\ payout <= funded.liquid
  <2> HIDE DEF funded, amount
  <2> QED  BY <1>1, <1>3 DEF Min2, Pools
<1>6. amount <= owed
  <2>1. Queued \in [Users -> Nat] /\ Queued[u] = amount /\ IsTotal(Queued, owed)
    BY <1>1 DEF DiemInv, Queued, Requests
  <2> QED  BY <2>1, EntryBelowTotal
<1> HIDE DEF funded, payout
<1>7. /\ request' \in [Users -> Requests] /\ totalPendingWithdrawals' = owed - payout
      /\ totalPendingWithdrawals' \in Nat /\ IsTotal(Queued', totalPendingWithdrawals')
  <2>1. /\ -payout \in Int /\ request[u].amount + (-payout) \in Nat
        /\ request[u].amount + (-payout) = request[u].amount - payout
        /\ 0 \in 0..WithdrawalDelay /\ totalPendingWithdrawals + (-payout) = owed - payout
    BY <1>1, <1>5, ParametersAssumption
  <2>2. /\ request' = [request EXCEPT ![u] = [amount |-> @.amount + (-payout), wait |-> 0]]
        /\ totalPendingWithdrawals' = totalPendingWithdrawals + (-payout)
    BY <1>4, <2>1 DEF Dequeue
  <2> QED  BY <2>1, <2>2, QueueChange
<1>8. wallet' \in [Users -> Nat]
  BY <1>1, <1>4, <1>5
<1>9. /\ pool' \in Pools /\ Holdings(pool') = Holdings(pool) - payout
      /\ owed - payout > 0 => pool'.liquid + pool'.pending > 0
  <2> DEFINE paid == PayOut(funded, payout)
             left == owed - payout
  <2>1. paid \in Pools /\ Holdings(paid) = Holdings(pool) - payout
    <3>1. funded \in Pools /\ payout \in Nat /\ payout <= funded.liquid
      BY <1>3, <1>5
    <3>2. /\ PayOut(funded, payout) \in Pools
          /\ Holdings(PayOut(funded, payout)) = Holdings(funded) - payout
      BY <3>1, MovePool
    <3> QED  BY <1>3, <3>2
  <2>2. left \in Nat /\ left <= Holdings(paid)
    <3>1. Holdings(pool) \in Nat
      BY <1>1 DEF Pools, Holdings
    <3> QED  BY <3>1, <1>1, <1>5, <1>6, <2>1
  <2>3. pool' = TryInitiate(paid, left)
    BY <1>4 DEF PayAndInitiate
  <2> HIDE DEF paid, left
  <2>4. /\ pool' \in Pools /\ Holdings(pool') = Holdings(paid)
        /\ left > 0 => pool'.liquid + pool'.pending > 0
    BY <2>1, <2>2, <2>3, TryInitiatePool
  <2> QED  BY <2>1, <2>4 DEF left
<1>10. DiemTypeOK'
  BY <1>1, <1>4, <1>7, <1>8, <1>9 DEF DiemInv, DiemTypeOK
<1>11. Backing' /\ NeverStalled'
  <2>1. Backing /\ Holdings(pool) \in Nat
    BY <1>1 DEF DiemInv, Pools, Holdings
  <2> QED  BY <2>1, <1>1, <1>4, <1>5, <1>7, <1>9 DEF Backing, NeverStalled
<1>12. IsTotal(balanceOf', totalSupply')
  BY <1>4 DEF DiemInv
<1> QED  BY <1>7, <1>10, <1>11, <1>12 DEF DiemInv

LEMMA CancelWithdrawStep ==
  ASSUME DiemInv, NEW u \in Users, CancelWithdraw(u)
  PROVE  DiemInv'
<1> DEFINE amount == request[u].amount
<1>1. /\ balanceOf \in [Users -> Nat] /\ pool \in Pools /\ request \in [Users -> Requests]
      /\ wallet \in [Users -> Nat] /\ amount \in Nat
      /\ totalSupply \in Nat /\ donated \in Nat /\ totalPendingWithdrawals \in Nat
  BY DEF DiemInv, DiemTypeOK, Requests
<1>2. /\ balanceOf' \in [Users -> Nat] /\ totalSupply' = totalSupply + amount
      /\ totalSupply' \in Nat /\ IsTotal(balanceOf', totalSupply')
  <2>1. balanceOf[u] + amount \in Nat /\ amount \in Int
    BY <1>1
  <2> QED  BY <2>1, ShareChange DEF CancelWithdraw, Mint
<1>3. /\ request' \in [Users -> Requests]
      /\ totalPendingWithdrawals' = totalPendingWithdrawals - amount
      /\ totalPendingWithdrawals' \in Nat /\ IsTotal(Queued', totalPendingWithdrawals')
  <2>1. /\ -amount \in Int /\ request[u].amount + (-amount) \in Nat
        /\ request[u].amount + (-amount) = request[u].amount - amount
        /\ 0 \in 0..WithdrawalDelay
        /\ totalPendingWithdrawals + (-amount) = totalPendingWithdrawals - amount
    BY <1>1, ParametersAssumption
  <2>2. /\ request' = [request EXCEPT ![u] = [amount |-> @.amount + (-amount), wait |-> 0]]
        /\ totalPendingWithdrawals' = totalPendingWithdrawals + (-amount)
    BY <2>1 DEF CancelWithdraw, Dequeue
  <2> QED  BY <2>1, <2>2, QueueChange
<1>4. UNCHANGED <<wallet, pool, donated>>
  BY DEF CancelWithdraw, diemVars
<1>5. DiemTypeOK'
  BY <1>1, <1>2, <1>3, <1>4 DEF DiemInv, DiemTypeOK
<1>6. Backing' /\ NeverStalled'
  <2>1. Backing /\ NeverStalled /\ Holdings(pool) \in Nat
    BY <1>1 DEF DiemInv, Pools, Holdings
  <2> QED  BY <2>1, <1>1, <1>2, <1>3, <1>4 DEF Backing, NeverStalled
<1> QED  BY <1>2, <1>3, <1>5, <1>6 DEF DiemInv

LEMMA TransferStep ==
  ASSUME DiemInv, NEW from \in Users, NEW to \in Users, NEW amount \in Nat,
         Transfer(from, to, amount)
  PROVE  DiemInv'
<1> DEFINE lowered == [balanceOf EXCEPT ![from] = @ + (-amount)]
<1>1. /\ balanceOf \in [Users -> Nat] /\ IsTotal(balanceOf, totalSupply)
      /\ amount <= balanceOf[from] /\ totalSupply \in Nat
  BY DEF DiemInv, DiemTypeOK, Transfer
<1>2. -amount \in Int /\ balanceOf[from] + (-amount) \in Nat
  BY <1>1
<1>3. lowered \in [Users -> Nat] /\ IsTotal(lowered, totalSupply + (-amount))
  BY <1>1, <1>2, TotalAfterChange
<1>4. balanceOf' = [lowered EXCEPT ![to] = @ + amount]
  <2>1. balanceOf' = [[balanceOf EXCEPT ![from] = @ - amount] EXCEPT ![to] = @ + amount]
    BY DEF Transfer, MoveShares
  <2>2. balanceOf[from] - amount = balanceOf[from] + (-amount)
    BY <1>1
  <2> QED  BY <2>1, <2>2
<1> HIDE DEF lowered
<1>5. amount \in Int /\ lowered[to] + amount \in Nat
      /\ (totalSupply + (-amount)) + amount = totalSupply
  BY <1>1, <1>3
<1>6. balanceOf' \in [Users -> Nat] /\ IsTotal(balanceOf', totalSupply)
  <2>1. IsTotal([lowered EXCEPT ![to] = @ + amount], (totalSupply + (-amount)) + amount)
    BY <1>3, <1>5, TotalAfterChange
  <2> QED  BY <1>3, <1>4, <1>5, <2>1
<1>7. UNCHANGED <<wallet, pool, donated, totalSupply, request, totalPendingWithdrawals>>
  BY DEF Transfer, diemVars, queueVars
<1>8. Queued' = Queued
  BY <1>7 DEF Queued
<1> QED  BY <1>6, <1>7, <1>8 DEF DiemInv, DiemTypeOK, Backing, NeverStalled

LEMMA DonateDiemStep ==
  ASSUME DiemInv, NEW u \in Users, NEW amount \in Nat, DonateDiem(u, amount)
  PROVE  DiemInv'
<1>1. /\ pool \in Pools /\ wallet \in [Users -> Nat] /\ donated \in Nat
      /\ totalSupply \in Nat /\ totalPendingWithdrawals \in Nat /\ amount <= wallet[u]
  BY DEF DiemInv, DiemTypeOK, DonateDiem
<1>2. /\ pool' \in Pools /\ Holdings(pool') = Holdings(pool) + amount
      /\ pool'.liquid = pool.liquid + amount /\ pool'.pending = pool.pending
      /\ pool.liquid \in Nat /\ pool.pending \in Nat
  BY <1>1, MovePool DEF DonateDiem, Pools
<1>3. wallet' \in [Users -> Nat] /\ donated' = donated + amount
  BY <1>1 DEF DonateDiem
<1>4. UNCHANGED <<balanceOf, totalSupply, request, totalPendingWithdrawals>>
  BY DEF DonateDiem, shareVars, queueVars
<1>5. Backing' /\ NeverStalled'
  <2>1. Backing /\ NeverStalled /\ Holdings(pool) \in Nat
    BY <1>1 DEF DiemInv, Pools, Holdings
  <2> QED  BY <2>1, <1>1, <1>2, <1>3, <1>4 DEF Backing, NeverStalled
<1>6. Queued' = Queued
  BY <1>4 DEF Queued
<1> QED  BY <1>1, <1>2, <1>3, <1>4, <1>5, <1>6 DEF DiemInv, DiemTypeOK

LEMMA VeniceStep ==
  ASSUME DiemInv, ClaimFromVenice \/ InitiateVeniceUnstake \/ RedeployExcess
  PROVE  DiemInv'
<1> DEFINE owed == totalPendingWithdrawals
<1>1. pool \in Pools /\ owed \in Nat /\ owed <= Holdings(pool)
      /\ (owed > 0 => pool.liquid + pool.pending > 0)
      /\ pool.liquid \in Nat /\ pool.pending \in Nat
  BY OwedIsHeld DEF DiemInv, DiemTypeOK, NeverStalled, Pools
<1>2. UNCHANGED <<wallet, donated, shareVars, queueVars>>
  BY DEF ClaimFromVenice, InitiateVeniceUnstake, RedeployExcess
<1>3. /\ pool' \in Pools /\ Holdings(pool') = Holdings(pool)
      /\ owed > 0 => pool'.liquid + pool'.pending > 0
  <2>1. CASE ClaimFromVenice
    BY <1>1, <2>1, UnstakePool DEF ClaimFromVenice
  <2>2. CASE InitiateVeniceUnstake
    <3>1. pool' = TryInitiate(pool, owed)
      BY <2>2 DEF InitiateVeniceUnstake
    <3> HIDE DEF owed
    <3> QED  BY <1>1, <3>1, TryInitiatePool
  <2>3. CASE RedeployExcess
    <3>1. pool.liquid > owed /\ pool' = Stake(pool, pool.liquid - owed)
      BY <2>3 DEF RedeployExcess
    <3> HIDE DEF owed
    <3>2. pool.liquid - owed \in Nat /\ pool.liquid - owed <= pool.liquid
      BY <1>1, <3>1
    <3>3. /\ pool' \in Pools /\ Holdings(pool') = Holdings(pool)
          /\ pool'.liquid = pool.liquid - (pool.liquid - owed)
          /\ pool'.pending = pool.pending
      BY <1>1, <3>1, <3>2, MovePool
    <3> QED  BY <1>1, <3>3
  <2> QED  BY <2>1, <2>2, <2>3
<1> QED  BY <1>2, <1>3, PoolStep

\* Time moves no DIEM.
LEMMA TickStep ==
  ASSUME DiemInv, Tick
  PROVE  DiemInv'
<1>1. /\ request \in [Users -> Requests] /\ pool \in Pools
  BY DEF DiemInv, DiemTypeOK
<1>2. /\ pool' \in Pools /\ Holdings(pool') = Holdings(pool)
      /\ pool'.liquid = pool.liquid /\ pool'.pending = pool.pending
  BY <1>1, MovePool DEF Tick
<1>3. request' \in [Users -> Requests] /\ Queued' = Queued
  <2>1. \A u \in Users : /\ request[u].amount \in Nat
                         /\ CountDown(request[u].wait) \in 0..WithdrawalDelay
    BY <1>1, ParametersAssumption DEF Requests, CountDown
  <2>2. request' = [u \in Users |-> [amount |-> request[u].amount,
                                     wait |-> CountDown(request[u].wait)]]
    BY DEF Tick
  <2>3. request' \in [Users -> Requests]
    BY <2>1, <2>2 DEF Requests
  <2> QED  BY <2>2, <2>3 DEF Queued
<1>4. UNCHANGED <<wallet, donated, balanceOf, totalSupply, totalPendingWithdrawals>>
  BY DEF Tick, shareVars
<1> QED  BY <1>2, <1>3, <1>4 DEF DiemInv, DiemTypeOK, Backing, NeverStalled

LEMMA DiemNext == DiemInv /\ [Next]_vars => DiemInv'
<1> SUFFICES ASSUME DiemInv, [Next]_vars PROVE DiemInv'
  OBVIOUS
<1>1. CASE UNCHANGED vars
  BY <1>1, DiemUnchanged DEF vars
<1>2. CASE Tick
  BY <1>2, TickStep
<1>3. ASSUME NEW u \in Users, UserStep(u) PROVE DiemInv'
  <2>1. Amounts \subseteq Nat /\ Donations \subseteq Nat
    BY AmountsAssumption
  <2>2. ASSUME NEW amount \in Amounts, StakeDiem(u, amount) PROVE DiemInv'
    BY <2>1, <2>2, StakeDiemStep
  <2>3. ASSUME NEW amount \in Amounts, RequestWithdraw(u, amount) PROVE DiemInv'
    BY <2>1, <2>3, EnqueueStep DEF RequestWithdraw
  <2>4. ASSUME NEW amount \in Amounts, NEW to \in Users, Transfer(u, to, amount)
        PROVE DiemInv'
    BY <2>1, <2>4, TransferStep
  <2>5. ASSUME NEW amount \in Donations, DonateDiem(u, amount) PROVE DiemInv'
    BY <2>1, <2>5, DonateDiemStep
  <2>6. CASE CompleteWithdraw(u)
    BY <2>6, CompleteWithdrawStep
  <2>7. CASE CancelWithdraw(u)
    BY <2>7, CancelWithdrawStep
  <2>8. CASE ClaimReward(u) \/ ClaimRewardTo(u)
    BY <2>8, DiemUnchanged DEF ClaimReward, ClaimRewardTo
  <2>9. CASE Exit(u)
    <3>1. balanceOf \in [Users -> Nat]
      BY DEF DiemInv, DiemTypeOK
    <3>2. CASE balanceOf[u] > 0
      <4>1. /\ BurnShares(u, balanceOf[u]) /\ Enqueue(u, balanceOf[u])
            /\ UNCHANGED <<wallet, donated>>
        BY <2>9, <3>2 DEF Exit
      <4> QED  BY <3>1, <4>1, EnqueueStep
    <3>3. CASE ~(balanceOf[u] > 0)
      <4>1. balanceOf[u] = 0 /\ totalSupply \in Nat
        BY <3>1, <3>3 DEF DiemInv, DiemTypeOK
      <4>2. UNCHANGED <<wallet, donated, pool, queueVars>>
        BY <2>9, <3>3 DEF Exit
      <4>3. balanceOf' = balanceOf /\ totalSupply' = totalSupply
        BY <2>9, <3>1, <4>1 DEF Exit, BurnShares
      <4> QED  BY <4>2, <4>3, DiemUnchanged DEF diemVars, shareVars
    <3> QED  BY <3>2, <3>3
  <2> QED  BY <1>3, <2>2, <2>3, <2>4, <2>5, <2>6, <2>7, <2>8, <2>9 DEF UserStep
<1>4. CASE ClaimFromVenice \/ InitiateVeniceUnstake \/ RedeployExcess
  BY <1>4, VeniceStep
<1>5. ASSUME NEW m \in Managers, ManagerStep(m) PROVE DiemInv'
  <2>1. UNCHANGED <<diemVars, shareVars, queueVars>>
    BY <1>5 DEF ManagerStep, NotifyRewardAmount, StartPeriod, SetPaused, SetOperator,
                TransferAdmin, AcceptAdmin
  <2> QED  BY <2>1, DiemUnchanged
<1> QED  BY <1>1, <1>2, <1>3, <1>4, <1>5 DEF Next
-----------------------------------------------------------------------------
LEMMA DiemInvariant == Spec => []DiemInv
<1> QED  BY DiemInit, DiemNext, PTL DEF Spec

\* In every reachable state the contract controls exactly the DIEM it owes,
\* plus what was sent to it unasked.
THEOREM BackingHolds == Spec => []Backing
<1>1. DiemInv => Backing
  BY DEF DiemInv
<1> QED  BY <1>1, DiemInvariant, PTL

\* The queue never depends on a Venice initiation that has yet to be made.
THEOREM NeverStalledHolds == Spec => []NeverStalled
<1>1. DiemInv => NeverStalled
  BY DEF DiemInv
<1> QED  BY <1>1, DiemInvariant, PTL

\* No function restarts, or adds to, a cooldown that is running.
THEOREM CooldownHolds == Spec => CooldownNotRestarted
<1> DEFINE Running(p) == p.pending > 0 /\ p.cooldown > 0
           Kept == Running(pool) => /\ pool'.pending = pool.pending
                                    /\ pool'.cooldown <= pool.cooldown
<1>1. DiemInv /\ [Next]_vars => [Kept]_vars
  <2> SUFFICES ASSUME DiemInv, Next, Running(pool)
               PROVE  pool'.pending = pool.pending /\ pool'.cooldown <= pool.cooldown
    OBVIOUS
  <2>1. /\ pool \in Pools /\ ~Matured(pool)
        /\ pool.pending \in Nat /\ pool.cooldown \in Nat /\ pool.liquid \in Nat
        /\ totalPendingWithdrawals \in Nat /\ totalPendingWithdrawals <= Holdings(pool)
    BY OwedIsHeld, VeniceCooldownAssumption DEF DiemInv, DiemTypeOK, Pools, Matured
  <2>2. ASSUME NEW u \in Users, NEW amount \in Nat, BurnShares(u, amount), Enqueue(u, amount)
        PROVE  pool' = pool
    <3> DEFINE owed == totalPendingWithdrawals + amount
    <3>1. balanceOf[u] \in Nat /\ balanceOf[u] <= totalSupply /\ totalSupply \in Nat
          /\ Holdings(pool) \in Nat /\ totalPendingWithdrawals + totalSupply <= Holdings(pool)
      BY EntryBelowTotal, OwedIsHeld DEF DiemInv, DiemTypeOK
    <3>2. owed \in Nat /\ owed <= Holdings(pool)
      BY <2>1, <2>2, <3>1 DEF BurnShares
    <3>3. pool' = TryInitiate(pool, owed)
      BY <2>2 DEF Enqueue
    <3> HIDE DEF owed
    <3> QED  BY <2>1, <3>2, <3>3, TryInitiatePool
  <2>3. CASE Tick
    BY <2>1, <2>3 DEF Tick, Elapse, Pools
  <2>4. ASSUME NEW u \in Users, UserStep(u)
        PROVE  pool'.pending = pool.pending /\ pool'.cooldown <= pool.cooldown
    <3>1. Amounts \subseteq Nat /\ Donations \subseteq Nat
      BY AmountsAssumption
    <3>2. ASSUME NEW amount \in Amounts, StakeDiem(u, amount)
          PROVE  pool'.pending = pool.pending /\ pool'.cooldown <= pool.cooldown
      BY <2>1, <3>1, <3>2 DEF StakeDiem, Stake, Receive, Pools
    <3>3. ASSUME NEW amount \in Amounts, RequestWithdraw(u, amount)
          PROVE  pool' = pool
      BY <2>2, <3>1, <3>3 DEF RequestWithdraw
    <3>4. ASSUME NEW amount \in Donations, DonateDiem(u, amount)
          PROVE  pool'.pending = pool.pending /\ pool'.cooldown <= pool.cooldown
      BY <2>1, <3>1, <3>4 DEF DonateDiem, Receive, Pools
    <3>5. ASSUME CompleteWithdraw(u)
          PROVE  pool'.pending = pool.pending /\ pool'.cooldown <= pool.cooldown
      <4> DEFINE amount == request[u].amount
                 payout == Min2(amount, pool.liquid)
                 paid == PayOut(pool, payout)
                 left == totalPendingWithdrawals - payout
      <4>1. TryInitiate(pool, totalPendingWithdrawals) = pool
        BY <2>1, TryInitiatePool
      <4>2. pool' = TryInitiate(paid, left)
        BY <2>1, <3>5, <4>1 DEF CompleteWithdraw, PayAndInitiate
      <4>3. amount \in Nat /\ amount <= totalPendingWithdrawals
        <5>1. /\ Queued \in [Users -> Nat] /\ Queued[u] = amount
              /\ IsTotal(Queued, totalPendingWithdrawals)
          BY DEF DiemInv, DiemTypeOK, Queued, Requests
        <5> QED  BY <5>1, EntryBelowTotal
      <4> HIDE DEF amount
      <4>4. payout \in Nat /\ payout <= pool.liquid /\ payout <= amount
        BY <2>1, <4>3 DEF Min2
      <4> HIDE DEF payout
      <4>5. /\ paid \in Pools /\ paid.pending = pool.pending /\ paid.cooldown = pool.cooldown
            /\ Holdings(paid) = Holdings(pool) - payout
        BY <2>1, <4>4, MovePool DEF PayOut, Pools
      <4>6. left \in Nat /\ left <= Holdings(paid)
        <5>1. Holdings(pool) \in Nat
          BY OwedIsHeld
        <5> QED  BY <5>1, <2>1, <4>3, <4>4, <4>5
      <4> HIDE DEF paid, left
      <4> QED  BY <2>1, <4>2, <4>5, <4>6, TryInitiatePool
    <3>6. CASE Exit(u)
      <4>1. balanceOf[u] \in Nat
        BY DEF DiemInv, DiemTypeOK
      <4>2. pool' = pool
        BY <2>2, <3>6, <4>1 DEF Exit
      <4> QED  BY <2>1, <4>2
    <3>7. ASSUME \/ CancelWithdraw(u) \/ ClaimReward(u) \/ ClaimRewardTo(u)
                 \/ \E amount \in Amounts, to \in Users : Transfer(u, to, amount)
          PROVE  pool' = pool
      BY <3>7 DEF CancelWithdraw, ClaimReward, ClaimRewardTo, Transfer, diemVars
    <3> QED  BY <2>1, <2>4, <3>2, <3>3, <3>4, <3>5, <3>6, <3>7 DEF UserStep
  <2>5. ASSUME ClaimFromVenice \/ InitiateVeniceUnstake \/ RedeployExcess
        PROVE  pool'.pending = pool.pending /\ pool'.cooldown <= pool.cooldown
    <3>1. TryInitiate(pool, totalPendingWithdrawals) = pool
      BY <2>1, TryInitiatePool
    <3>2. CASE InitiateVeniceUnstake
      BY <2>1, <3>1, <3>2 DEF InitiateVeniceUnstake
    <3>3. CASE RedeployExcess
      BY <2>1, <3>3 DEF RedeployExcess, Stake, Pools
    <3> QED  BY <2>1, <2>5, <3>2, <3>3 DEF ClaimFromVenice
  <2>6. ASSUME NEW m \in Managers, ManagerStep(m) PROVE pool' = pool
    BY <2>6 DEF ManagerStep, NotifyRewardAmount, StartPeriod, SetPaused, SetOperator,
                TransferAdmin, AcceptAdmin, diemVars
  <2> QED  BY <2>1, <2>3, <2>4, <2>5, <2>6 DEF Next
<1> QED  BY <1>1, DiemInvariant, PTL DEF Spec, CooldownNotRestarted
-----------------------------------------------------------------------------
(***************************************************************************)
(* Every step of the contract is a step of StakeLedger or leaves what the  *)
(* ledger sees alone.  Both contracts share most of these steps, so the    *)
(* lemmas name the part of an action the ledger sees.                      *)
(***************************************************************************)
LedgerStep == Ledger!Next \/ UNCHANGED <<wallet, balanceOf, request>>

LEMMA LedgerInit == Init => Ledger!Init
BY DEF Init, Ledger!Init, NoRequest

LEMMA DepositLedger ==
  ASSUME DiemTypeOK, NEW u \in Users, NEW amount \in Nat \ {0}, StakeDiem(u, amount)
  PROVE  LedgerStep
<1>1. amount \in 1..wallet[u]
  BY DEF StakeDiem, DiemTypeOK
<1>2. Ledger!Deposit(u, amount)
  BY DEF StakeDiem, Mint, queueVars, Ledger!Deposit
<1> QED  BY <1>1, <1>2 DEF LedgerStep, Ledger!Next

\* A request for at least MinWithdraw, or an exit with the whole balance.
LEMMA QueueLedger ==
  ASSUME DiemTypeOK, NEW u \in Users, NEW amount \in Nat \ {0},
         amount >= MinWithdraw \/ amount = balanceOf[u],
         BurnShares(u, amount), UNCHANGED wallet,
         request' = [request EXCEPT ![u] = [amount |-> @.amount + amount,
                                            wait |-> WithdrawalDelay]]
  PROVE  LedgerStep
<1>1. amount \in 1..balanceOf[u]
  BY DEF BurnShares, DiemTypeOK
<1>2. Ledger!Queue(u, amount)
  BY DEF BurnShares, Ledger!Queue
<1> QED  BY <1>1, <1>2 DEF LedgerStep, Ledger!Next

\* An exit without a balance burns nothing.
LEMMA NothingBurned ==
  ASSUME DiemTypeOK, NEW u \in Users, balanceOf[u] = 0, BurnShares(u, balanceOf[u]),
         UNCHANGED <<wallet, request>>
  PROVE  LedgerStep
<1>1. balanceOf \in [Users -> Nat] /\ balanceOf[u] - balanceOf[u] = balanceOf[u]
  BY DEF DiemTypeOK
<1>2. balanceOf' = balanceOf
  BY <1>1 DEF BurnShares
<1> QED  BY <1>2 DEF LedgerStep

\* A payout of part of the entry, or all of it, once its delay is over.
LEMMA PayLedger ==
  ASSUME DiemTypeOK, NEW u \in Users, NEW payout \in Nat \ {0},
         payout <= request[u].amount, request[u].wait = 0,
         Dequeue(u, payout), UNCHANGED balanceOf,
         wallet' = [wallet EXCEPT ![u] = @ + payout]
  PROVE  LedgerStep
<1>1. request \in [Users -> Requests] /\ request[u] \in Requests
  BY DEF DiemTypeOK
<1>2. payout \in 1..request[u].amount
  BY <1>1 DEF Requests
<1>3. [amount |-> request[u].amount - payout, wait |-> 0]
        = [request[u] EXCEPT !.amount = @ - payout]
  BY <1>1 DEF Requests
<1>4. request' = [request EXCEPT ![u].amount = @ - payout]
  BY <1>1, <1>3 DEF Dequeue
<1>5. Ledger!Pay(u, payout)
  BY <1>4 DEF Ledger!Pay
<1> QED  BY <1>2, <1>5 DEF LedgerStep, Ledger!Next

LEMMA CancelLedger ==
  ASSUME DiemTypeOK, NEW u \in Users, Dequeue(u, request[u].amount),
         balanceOf' = [balanceOf EXCEPT ![u] = @ + request[u].amount], UNCHANGED wallet
  PROVE  LedgerStep
<1>1. request \in [Users -> Requests] /\ request[u].amount - request[u].amount = 0
  BY DEF DiemTypeOK, Requests
<1>2. request' = [request EXCEPT ![u] = [amount |-> 0, wait |-> 0]]
  BY <1>1 DEF Dequeue
<1>3. Ledger!Cancel(u)
  BY <1>2 DEF Ledger!Cancel
<1> QED  BY <1>3 DEF LedgerStep, Ledger!Next

LEMMA TransferLedger ==
  ASSUME DiemTypeOK, NEW u \in Users, NEW to \in Users, NEW amount \in Nat \ {0},
         Transfer(u, to, amount)
  PROVE  LedgerStep
<1>1. amount \in 1..balanceOf[u]
  BY DEF Transfer, DiemTypeOK
<1>2. Ledger!Transfer(u, to, amount)
  BY DEF Transfer, MoveShares, diemVars, queueVars, Ledger!Transfer
<1> QED  BY <1>1, <1>2 DEF LedgerStep, Ledger!Next

LEMMA DonateLedger ==
  ASSUME DiemTypeOK, NEW u \in Users, NEW amount \in Nat \ {0}, DonateDiem(u, amount)
  PROVE  LedgerStep
<1>1. amount \in 1..wallet[u]
  BY DEF DonateDiem, DiemTypeOK
<1>2. Ledger!GiveAway(u, amount)
  BY DEF DonateDiem, shareVars, queueVars, Ledger!GiveAway
<1> QED  BY <1>1, <1>2 DEF LedgerStep, Ledger!Next

LEMMA TickLedger ==
  ASSUME DiemTypeOK, Tick
  PROVE  LedgerStep
<1>1. \A u \in Users :
        [amount |-> request[u].amount, wait |-> CountDown(request[u].wait)]
          = [request[u] EXCEPT !.wait = IF @ > 0 THEN @ - 1 ELSE 0]
  BY DEF DiemTypeOK, Requests, CountDown
<1>2. request' = [u \in Users |-> [request[u] EXCEPT !.wait = IF @ > 0 THEN @ - 1 ELSE 0]]
  BY <1>1 DEF Tick
<1>3. Ledger!TimePasses
  BY <1>2 DEF Tick, shareVars, Ledger!TimePasses
<1> QED  BY <1>3 DEF LedgerStep, Ledger!Next

LEMMA CompleteWithdrawLedger ==
  ASSUME DiemInv, NEW u \in Users, CompleteWithdraw(u)
  PROVE  LedgerStep
<1> DEFINE amount == request[u].amount
           initiated == TryInitiate(pool, totalPendingWithdrawals)
           funded == IF initiated.liquid < amount /\ Matured(initiated)
                     THEN Unstake(initiated) ELSE initiated
           payout == Min2(amount, funded.liquid)
<1>1. /\ amount > 0 /\ request[u].wait = 0 /\ payout > 0 /\ Dequeue(u, payout)
      /\ wallet' = [wallet EXCEPT ![u] = @ + payout] /\ UNCHANGED balanceOf
  BY DEF CompleteWithdraw, shareVars
<1>2. /\ DiemTypeOK /\ amount \in Nat /\ pool \in Pools
      /\ totalPendingWithdrawals \in Nat /\ totalPendingWithdrawals <= Holdings(pool)
  BY OwedIsHeld DEF DiemInv, DiemTypeOK, Requests
<1>3. initiated \in Pools
  BY <1>2, TryInitiatePool
<1>4. funded.liquid \in Nat
  <2> HIDE DEF initiated
  <2>1. funded \in Pools
    BY <1>3, UnstakePool
  <2> QED  BY <2>1 DEF Pools
<1> HIDE DEF funded
<1>5. payout \in Nat \ {0} /\ payout <= amount
  <2> HIDE DEF amount
  <2> QED  BY <1>1, <1>2, <1>4 DEF Min2
<1> HIDE DEF payout
<1> QED  BY <1>1, <1>2, <1>5, PayLedger

LEMMA LedgerUnchanged ==
  ASSUME UNCHANGED <<wallet, shareVars, queueVars>>
  PROVE  LedgerStep
BY DEF LedgerStep, shareVars, queueVars

LEMMA LedgerNext ==
  ASSUME DiemInv, [Next]_vars
  PROVE  LedgerStep
<1>1. DiemTypeOK /\ balanceOf \in [Users -> Nat]
  BY DEF DiemInv, DiemTypeOK
<1>2. CASE UNCHANGED vars
  BY <1>2, LedgerUnchanged DEF vars, diemVars
<1>3. CASE Tick
  BY <1>1, <1>3, TickLedger
<1>4. ASSUME NEW u \in Users, UserStep(u) PROVE LedgerStep
  <2>1. Amounts \subseteq Nat \ {0} /\ Donations \subseteq Nat \ {0}
    BY AmountsAssumption
  <2>2. ASSUME NEW amount \in Amounts, StakeDiem(u, amount) PROVE LedgerStep
    BY <1>1, <2>1, <2>2, DepositLedger
  <2>3. ASSUME NEW amount \in Amounts, RequestWithdraw(u, amount) PROVE LedgerStep
    BY <1>1, <2>1, <2>3, QueueLedger DEF RequestWithdraw, Enqueue
  <2>4. ASSUME NEW amount \in Amounts, NEW to \in Users, Transfer(u, to, amount)
        PROVE  LedgerStep
    BY <1>1, <2>1, <2>4, TransferLedger
  <2>5. ASSUME NEW amount \in Donations, DonateDiem(u, amount) PROVE LedgerStep
    BY <1>1, <2>1, <2>5, DonateLedger
  <2>6. CASE CompleteWithdraw(u)
    BY <2>6, CompleteWithdrawLedger
  <2>7. CASE CancelWithdraw(u)
    BY <1>1, <2>7, CancelLedger DEF CancelWithdraw, Mint, diemVars
  <2>8. CASE ClaimReward(u) \/ ClaimRewardTo(u)
    BY <2>8, LedgerUnchanged DEF ClaimReward, ClaimRewardTo, diemVars
  <2>9. CASE Exit(u)
    <3>1. /\ BurnShares(u, balanceOf[u]) /\ UNCHANGED wallet
          /\ IF balanceOf[u] > 0 THEN Enqueue(u, balanceOf[u])
                                 ELSE UNCHANGED <<queueVars, pool>>
      BY <2>9 DEF Exit
    <3>2. balanceOf[u] \in Nat
      BY <1>1
    <3>3. CASE balanceOf[u] > 0
      <4>1. balanceOf[u] \in Nat \ {0}
        BY <3>2, <3>3
      <4> QED  BY <1>1, <3>1, <3>3, <4>1, QueueLedger DEF Enqueue
    <3>4. CASE ~ balanceOf[u] > 0
      <4>1. balanceOf[u] = 0
        BY <3>2, <3>4
      <4> QED  BY <1>1, <3>1, <3>4, <4>1, NothingBurned DEF queueVars
    <3> QED  BY <3>3, <3>4
  <2> QED  BY <1>4, <2>2, <2>3, <2>4, <2>5, <2>6, <2>7, <2>8, <2>9 DEF UserStep
<1>5. CASE ClaimFromVenice \/ InitiateVeniceUnstake \/ RedeployExcess
  BY <1>5, LedgerUnchanged DEF ClaimFromVenice, InitiateVeniceUnstake, RedeployExcess
<1>6. ASSUME NEW m \in Managers, ManagerStep(m) PROVE LedgerStep
  <2>1. UNCHANGED <<diemVars, shareVars, queueVars>>
    BY <1>6 DEF ManagerStep, NotifyRewardAmount, StartPeriod, SetPaused, SetOperator,
                TransferAdmin, AcceptAdmin
  <2> QED  BY <2>1, LedgerUnchanged DEF diemVars
<1> QED  BY <1>2, <1>3, <1>4, <1>5, <1>6 DEF Next

\* Whatever Venice, the rewards, a pause or a change of roles do, users'
\* positions follow the ledger: DIEM leaves the queue only after its delay, to
\* the user who queued it, and no other user's position moves.
THEOREM LedgerImplemented == Spec => ImplementsLedger
<1>1. DiemInv /\ [Next]_vars => [Ledger!Next]_(Ledger!ledgerVars)
  BY LedgerNext DEF LedgerStep, Ledger!ledgerVars
<1> QED  BY <1>1, LedgerInit, DiemInvariant, PTL DEF Spec, ImplementsLedger, Ledger!Spec
-----------------------------------------------------------------------------
(***************************************************************************)
(* The rewards of SDiemV2 and its type invariant.  What needs an argument  *)
(* is that no subtraction of the reward side goes below zero: a user's     *)
(* checkpoint never runs ahead of the accumulator, time since the last     *)
(* update and time left never exceed a period, and a refund never exceeds  *)
(* the notification.                                                       *)
(***************************************************************************)

\* The accumulator only grows.
LEMMA RewardPerTokenGrows ==
  ASSUME DiemTypeOK, RewardTypeOK
  PROVE  RewardPerToken \in Nat /\ RewardPerToken >= rewardPerTokenStored
<1>1. /\ totalSupply \in Nat /\ rewardPerTokenStored \in Nat /\ rewardRate \in Nat
      /\ sinceUpdate \in Nat /\ Precision \in Nat
  BY ParametersAssumption DEF DiemTypeOK, RewardTypeOK
<1>2. CASE totalSupply = 0
  BY <1>1, <1>2 DEF RewardPerToken
<1>3. CASE totalSupply # 0
  <2> DEFINE accrued == sinceUpdate * rewardRate * Precision
  <2>1. accrued \in Nat
    BY <1>1, ProductNat
  <2> HIDE DEF accrued
  <2>2. accrued \div totalSupply \in Nat
    BY <1>1, <1>3, <2>1, DivisionRoundsDown
  <2>3. RewardPerToken = rewardPerTokenStored + accrued \div totalSupply
    BY <1>3 DEF RewardPerToken, accrued
  <2> QED  BY <1>1, <2>2, <2>3
<1> QED  BY <1>2, <1>3

\* What a user has earned is a natural number.
LEMMA EarnedNat ==
  ASSUME DiemTypeOK, RewardTypeOK, NEW u \in Users
  PROVE  Earned(u) \in Nat
<1>1. /\ balanceOf[u] \in Nat /\ rewards[u] \in Nat
      /\ userRewardPerTokenPaid[u] \in Nat
      /\ userRewardPerTokenPaid[u] <= rewardPerTokenStored
      /\ rewardPerTokenStored \in Nat
  BY DEF DiemTypeOK, RewardTypeOK
<1> DEFINE growth == RewardPerToken - userRewardPerTokenPaid[u]
<1>2. growth \in Nat
  BY <1>1, RewardPerTokenGrows
<1> HIDE DEF growth
<1>3. balanceOf[u] * growth \in Nat
  BY <1>1, <1>2, ProductNat
<1>4. (balanceOf[u] * growth) \div Precision \in Nat
  BY <1>3, DivisionRoundsDown, ParametersAssumption
<1> QED  BY <1>1, <1>4 DEF Earned, growth
-----------------------------------------------------------------------------
LEMMA RewardUnchanged ==
  ASSUME RewardTypeOK, UNCHANGED <<rewardVars, usdcVars>>
  PROVE  RewardTypeOK'
BY DEF RewardTypeOK, rewardVars, globalVars, userVars, periodVars, usdcVars

\* The accumulator is brought up to date, and with it the checkpoints of S.
LEMMA CheckpointTypes ==
  ASSUME DiemTypeOK, RewardTypeOK, CheckpointGlobal,
         NEW S, CheckpointUsers(S), UNCHANGED <<periodVars, usdcVars>>
  PROVE  RewardTypeOK'
<1>1. RewardPerToken \in Nat /\ RewardPerToken >= rewardPerTokenStored
  BY RewardPerTokenGrows
<1>2. \A u \in Users : Earned(u) \in Nat
  BY EarnedNat
<1>3. /\ rewardPerTokenStored' = RewardPerToken /\ sinceUpdate' = 0
      /\ periodLeft' = periodLeft /\ rewardRate' = rewardRate
      /\ usdc' = usdc /\ operatorUsdc' = operatorUsdc /\ claimed' = claimed
  BY DEF CheckpointGlobal, periodVars, usdcVars
<1>4. userRewardPerTokenPaid' \in [Users -> 0..RewardPerToken]
  <2>1. \A u \in Users : userRewardPerTokenPaid[u] \in 0..RewardPerToken
    BY <1>1 DEF RewardTypeOK
  <2> QED  BY <1>1, <2>1 DEF CheckpointUsers
<1>5. rewards' \in [Users -> Nat]
  BY <1>2 DEF CheckpointUsers, RewardTypeOK
<1>6. sinceUpdate' \in 0..RewardsDuration - periodLeft'
  BY <1>3, ParametersAssumption DEF RewardTypeOK
<1> QED  BY <1>1, <1>3, <1>4, <1>5, <1>6 DEF RewardTypeOK

\* A claim, whether or not the transfer goes through.
LEMMA ClaimTypes ==
  ASSUME DiemTypeOK, RewardTypeOK, CheckpointGlobal,
         NEW u \in Users, NEW paid \in BOOLEAN, PayReward(u, paid),
         UNCHANGED periodVars
  PROVE  RewardTypeOK'
<1>1. RewardPerToken \in Nat /\ RewardPerToken >= rewardPerTokenStored
  BY RewardPerTokenGrows
<1> DEFINE reward == Earned(u)
           out == IF paid THEN reward ELSE 0
<1>2. reward \in Nat /\ out \in Nat /\ reward - out \in Nat
  BY EarnedNat
<1>3. /\ out <= usdc
      /\ userRewardPerTokenPaid' = [userRewardPerTokenPaid EXCEPT ![u] = RewardPerToken]
      /\ rewards' = [rewards EXCEPT ![u] = reward - out]
      /\ claimed' = [claimed EXCEPT ![u] = @ + out]
      /\ usdc' = usdc - out /\ operatorUsdc' = operatorUsdc
  BY DEF PayReward
<1> HIDE DEF reward, out
<1>4. /\ rewardPerTokenStored' = RewardPerToken /\ sinceUpdate' = 0
      /\ periodLeft' = periodLeft /\ rewardRate' = rewardRate
  BY DEF CheckpointGlobal, periodVars
<1>5. userRewardPerTokenPaid' \in [Users -> 0..RewardPerToken]
  <2>1. \A v \in Users : userRewardPerTokenPaid[v] \in 0..RewardPerToken
    BY <1>1 DEF RewardTypeOK
  <2>2. userRewardPerTokenPaid \in [Users -> 0..RewardPerToken]
    BY <2>1 DEF RewardTypeOK
  <2> QED  BY <1>1, <1>3, <2>2
<1>6. rewards' \in [Users -> Nat]
  BY <1>2, <1>3 DEF RewardTypeOK
<1>7. claimed' \in [Users -> Nat]
  BY <1>2, <1>3 DEF RewardTypeOK
<1>8. usdc' \in Nat /\ operatorUsdc' \in Nat
  BY <1>2, <1>3 DEF RewardTypeOK
<1>9. sinceUpdate' \in 0..RewardsDuration - periodLeft'
  BY <1>4, ParametersAssumption DEF RewardTypeOK
<1> QED  BY <1>1, <1>4, <1>5, <1>6, <1>7, <1>8, <1>9 DEF RewardTypeOK

\* The refund is what rounding leaves over, and no more than was brought.
LEMMA RefundBounds ==
  ASSUME RewardTypeOK, NEW reward \in Nat
  PROVE  /\ RateOf(reward + Leftover) \in Nat
         /\ RefundOf(reward) \in Nat /\ RefundOf(reward) <= reward
<1>1. Leftover \in Nat
  BY ProductNat, ParametersAssumption DEF RewardTypeOK, Leftover
<1> DEFINE total == reward + Leftover
           rate == RateOf(total)
<1>2. total \in Nat
  BY <1>1
<1> HIDE DEF total
<1>3. rate \in Nat /\ rate * RewardsDuration \in Nat /\ rate * RewardsDuration <= total
  BY <1>2, DivisionRoundsDown, ParametersAssumption DEF RateOf
<1>4. RefundOf(reward) = Min2(total - rate * RewardsDuration, reward)
  BY DEF RefundOf, Refund, total
<1> HIDE DEF rate
<1>5. total - rate * RewardsDuration \in Nat
  BY <1>2, <1>3
<1> QED  BY <1>3, <1>4, <1>5 DEF Min2, total, rate

\* A new period, and whatever it does to the operators' USDC.
LEMMA PeriodTypes ==
  ASSUME DiemTypeOK, RewardTypeOK, NEW reward \in Nat, StartPeriod(reward),
         operatorUsdc' \in Nat
  PROVE  RewardTypeOK'
<1>1. RewardPerToken \in Nat /\ RewardPerToken >= rewardPerTokenStored
  BY RewardPerTokenGrows
<1>2. /\ RateOf(reward + Leftover) \in Nat
      /\ RefundOf(reward) \in Nat /\ RefundOf(reward) <= reward
  BY RefundBounds
<1>3. /\ rewardRate' = RateOf(reward + Leftover) /\ periodLeft' = RewardsDuration
      /\ rewardPerTokenStored' = RewardPerToken /\ sinceUpdate' = 0
      /\ usdc' = usdc + reward - RefundOf(reward)
      /\ userRewardPerTokenPaid' = userRewardPerTokenPaid /\ rewards' = rewards
      /\ claimed' = claimed
  BY DEF StartPeriod, CheckpointGlobal, userVars
<1>4. usdc' \in Nat
  BY <1>2, <1>3 DEF RewardTypeOK
<1>5. /\ periodLeft' \in 0..RewardsDuration
      /\ sinceUpdate' \in 0..RewardsDuration - periodLeft'
  BY <1>3, ParametersAssumption
<1>6. userRewardPerTokenPaid' \in [Users -> 0..rewardPerTokenStored']
  <2>1. \A v \in Users : userRewardPerTokenPaid[v] \in 0..RewardPerToken
    BY <1>1 DEF RewardTypeOK
  <2> QED  BY <1>3, <2>1 DEF RewardTypeOK
<1> QED  BY <1>1, <1>2, <1>3, <1>4, <1>5, <1>6 DEF RewardTypeOK

LEMMA NotifyTypes ==
  ASSUME DiemTypeOK, RewardTypeOK, NEW m, NEW reward \in Nat,
         NotifyRewardAmount(m, reward)
  PROVE  RewardTypeOK'
<1>1. RefundOf(reward) \in Nat
  BY RefundBounds
<1>2. StartPeriod(reward) /\ operatorUsdc' \in Nat
  BY <1>1 DEF NotifyRewardAmount, RewardTypeOK
<1> QED  BY <1>2, PeriodTypes

LEMMA TickTypes ==
  ASSUME RewardTypeOK, Tick
  PROVE  RewardTypeOK'
<1>1. /\ periodLeft' = CountDown(periodLeft)
      /\ sinceUpdate' = sinceUpdate + (periodLeft - CountDown(periodLeft))
      /\ UNCHANGED <<rewardRate, rewardPerTokenStored, userVars, usdcVars>>
  BY DEF Tick
<1>2. /\ periodLeft' \in 0..RewardsDuration
      /\ sinceUpdate' \in 0..RewardsDuration - periodLeft'
  BY <1>1, ParametersAssumption DEF RewardTypeOK, CountDown
<1> QED  BY <1>1, <1>2 DEF RewardTypeOK, userVars, usdcVars
-----------------------------------------------------------------------------
RoleTypeOK ==
  /\ roles \in [admin : Managers, pendingAdmin : Managers \cup {NoOne},
                operator : Managers]
  /\ paused \in BOOLEAN

\* A role passes to a manager only.
LEMMA RoleTypes ==
  ASSUME RoleTypeOK, [Next]_vars
  PROVE  RoleTypeOK'
<1>1. CASE UNCHANGED roleVars
  BY <1>1 DEF RoleTypeOK, roleVars
<1>2. ASSUME NEW m \in Managers, ManagerStep(m) PROVE RoleTypeOK'
  <2>1. CASE \E reward \in RewardAmounts : NotifyRewardAmount(m, reward)
    BY <1>1, <2>1 DEF NotifyRewardAmount, StartPeriod
  <2>2. ASSUME NEW value \in Pauses, SetPaused(m, value) PROVE RoleTypeOK'
    BY <2>2, RolesAssumption DEF RoleTypeOK, SetPaused
  <2>3. ASSUME NEW to \in Candidates, SetOperator(m, to) \/ TransferAdmin(m, to)
        PROVE  RoleTypeOK'
    BY <2>3, RolesAssumption DEF RoleTypeOK, SetOperator, TransferAdmin
  <2>4. CASE AcceptAdmin(m)
    BY <2>4, RolesAssumption DEF RoleTypeOK, AcceptAdmin
  <2> QED  BY <1>2, <2>1, <2>2, <2>3, <2>4 DEF ManagerStep
<1>3. ASSUME NEW u \in Users, UserStep(u) PROVE UNCHANGED roleVars
  BY <1>3 DEF UserStep, StakeDiem, RequestWithdraw, Transfer, DonateDiem, CompleteWithdraw,
              CancelWithdraw, ClaimReward, ClaimRewardTo, Exit
<1>4. ASSUME Tick \/ ClaimFromVenice \/ InitiateVeniceUnstake \/ RedeployExcess
      PROVE  UNCHANGED roleVars
  BY <1>4 DEF Tick, ClaimFromVenice, InitiateVeniceUnstake, RedeployExcess
<1>5. CASE UNCHANGED vars
  BY <1>1, <1>5 DEF vars
<1> QED  BY <1>1, <1>2, <1>3, <1>4, <1>5 DEF Next

LEMMA RewardTypes ==
  ASSUME DiemTypeOK, RewardTypeOK, [Next]_vars
  PROVE  RewardTypeOK'
<1>1. CASE UNCHANGED vars
  BY <1>1, RewardUnchanged DEF vars
<1>2. CASE Tick
  BY <1>2, TickTypes
<1>3. ASSUME NEW u \in Users, UserStep(u) PROVE RewardTypeOK'
  <2>1. ASSUME NEW amount \in Amounts, StakeDiem(u, amount) PROVE RewardTypeOK'
    BY <2>1, CheckpointTypes DEF StakeDiem, Mint
  <2>2. ASSUME NEW amount \in Amounts, RequestWithdraw(u, amount) PROVE RewardTypeOK'
    BY <2>2, CheckpointTypes DEF RequestWithdraw, usdcVars
  <2>3. ASSUME NEW amount \in Amounts, NEW to \in Users, Transfer(u, to, amount)
        PROVE  RewardTypeOK'
    BY <2>3, CheckpointTypes DEF Transfer
  <2>4. ASSUME NEW amount \in Donations, DonateDiem(u, amount) PROVE RewardTypeOK'
    BY <2>4, RewardUnchanged DEF DonateDiem
  <2>5. CASE CompleteWithdraw(u)
    BY <2>5, RewardUnchanged DEF CompleteWithdraw
  <2>6. CASE CancelWithdraw(u)
    BY <2>6, CheckpointTypes DEF CancelWithdraw, Mint
  <2>7. CASE ClaimReward(u) \/ ClaimRewardTo(u) \/ Exit(u)
    BY <2>7, ClaimTypes DEF ClaimReward, ClaimRewardTo, Exit
  <2> QED  BY <1>3, <2>1, <2>2, <2>3, <2>4, <2>5, <2>6, <2>7 DEF UserStep
<1>4. CASE ClaimFromVenice \/ InitiateVeniceUnstake \/ RedeployExcess
  BY <1>4, RewardUnchanged DEF ClaimFromVenice, InitiateVeniceUnstake, RedeployExcess
<1>5. ASSUME NEW m \in Managers, ManagerStep(m) PROVE RewardTypeOK'
  <2>1. ASSUME NEW reward \in RewardAmounts, NotifyRewardAmount(m, reward)
        PROVE  RewardTypeOK'
    BY <2>1, NotifyTypes, AmountsAssumption
  <2>2. ASSUME \/ \E value \in Pauses : SetPaused(m, value)
               \/ \E to \in Candidates : SetOperator(m, to) \/ TransferAdmin(m, to)
               \/ AcceptAdmin(m)
        PROVE  RewardTypeOK'
    BY <2>2, RewardUnchanged DEF SetPaused, SetOperator, TransferAdmin, AcceptAdmin
  <2> QED  BY <1>5, <2>1, <2>2 DEF ManagerStep
<1> QED  BY <1>1, <1>2, <1>3, <1>4, <1>5 DEF Next
-----------------------------------------------------------------------------
\* Every variable of the contract keeps its type: in particular no balance,
\* queue entry, checkpoint difference or USDC amount is driven below zero.
THEOREM TypesHold == Spec => []TypeOK
<1> DEFINE Inv == DiemInv /\ RoleTypeOK /\ RewardTypeOK
<1>1. Init => Inv
  <2> SUFFICES ASSUME Init PROVE RoleTypeOK /\ RewardTypeOK
    BY DiemInit
  <2>1. RoleTypeOK
    BY RolesAssumption DEF Init, RoleTypeOK
  <2>2. RewardTypeOK
    BY ParametersAssumption, AmountsAssumption DEF Init, RewardTypeOK
  <2> QED  BY <2>1, <2>2
<1>2. Inv /\ [Next]_vars => Inv'
  BY DiemNext, RoleTypes, RewardTypes DEF DiemInv
<1>3. Inv => TypeOK
  BY DEF DiemInv, RoleTypeOK, TypeOK
<1> QED  BY <1>1, <1>2, <1>3, PTL DEF Spec

\* The refund of a notification never returns more than it brought.
THEOREM OperatorHolds == Spec => OperatorNeverGains
<1>1. TypeOK /\ [Next]_vars => [operatorUsdc' <= operatorUsdc]_vars
  <2> SUFFICES ASSUME TypeOK, Next PROVE operatorUsdc' <= operatorUsdc
    OBVIOUS
  <2>1. operatorUsdc \in Nat
    BY DEF TypeOK, RewardTypeOK
  <2>2. ASSUME NEW m \in Managers, NEW reward \in RewardAmounts,
               NotifyRewardAmount(m, reward)
        PROVE  operatorUsdc' <= operatorUsdc
    <3>1. reward \in Nat /\ RefundOf(reward) \in Nat /\ RefundOf(reward) <= reward
      BY RefundBounds, AmountsAssumption DEF TypeOK
    <3> QED  BY <2>1, <2>2, <3>1 DEF NotifyRewardAmount
  <2>3. ASSUME NEW u \in Users, UserStep(u) PROVE operatorUsdc' = operatorUsdc
    BY <2>3 DEF UserStep, StakeDiem, RequestWithdraw, Transfer, DonateDiem,
                CompleteWithdraw, CancelWithdraw, ClaimReward, ClaimRewardTo, Exit,
                PayReward, usdcVars
  <2>4. ASSUME Tick \/ ClaimFromVenice \/ InitiateVeniceUnstake \/ RedeployExcess
        PROVE  operatorUsdc' = operatorUsdc
    BY <2>4 DEF Tick, ClaimFromVenice, InitiateVeniceUnstake, RedeployExcess, usdcVars
  <2>5. ASSUME NEW m \in Managers,
               \/ \E value \in Pauses : SetPaused(m, value)
               \/ \E to \in Candidates : SetOperator(m, to) \/ TransferAdmin(m, to)
               \/ AcceptAdmin(m)
        PROVE  operatorUsdc' = operatorUsdc
    BY <2>5 DEF SetPaused, SetOperator, TransferAdmin, AcceptAdmin, usdcVars
  <2> QED  BY <2>1, <2>2, <2>3, <2>4, <2>5 DEF Next, ManagerStep
<1> QED  BY <1>1, TypesHold, PTL DEF Spec, OperatorNeverGains
-----------------------------------------------------------------------------
(***************************************************************************)
(* Solvency.  It is not inductive: a step that rounds what a user has      *)
(* earned says nothing of the fraction it cut off, and time raises the     *)
(* accumulator by more in two halves than in one.  What is inductive is    *)
(* stated without rounding, in units of 1/Precision of a USDC: the USDC    *)
(* covers what the last update left each user (Settled), and the rate for  *)
(* every unit of time from that update to the end of the period.  Due is   *)
(* Settled brought up to date, before anything is rounded.                 *)
(***************************************************************************)
TotalOf(f) == SumFunctionOnSet(f, Users)

SettledOf(u) ==
  balanceOf[u] * (rewardPerTokenStored - userRewardPerTokenPaid[u]) + Precision * rewards[u]

DueOf(u) ==
  balanceOf[u] * (RewardPerToken - userRewardPerTokenPaid[u]) + Precision * rewards[u]

Settled == [u \in Users |-> SettledOf(u)]
Due == [u \in Users |-> DueOf(u)]

Growth == RewardPerToken - rewardPerTokenStored

Funded ==
  TotalOf(Settled) + Precision * ((sinceUpdate + periodLeft) * rewardRate) <= Precision * usdc

\* A tallied total is the sum.
LEMMA TalliedSum ==
  ASSUME NEW f \in [Users -> Nat], NEW t, IsTotal(f, t)
  PROVE  TotalOf(f) = t
<1>1. PICK m \in Tallies(f) : m[Users] = t
  BY DEF IsTotal
<1>2. /\ m \in [SUBSET Users -> Nat] /\ m[{}] = 0
      /\ \A S \in SUBSET Users : \A v \in Users \ S : m[S \cup {v}] = m[S] + f[v]
  BY <1>1 DEF Tallies
<1>3. \A S \in SUBSET Users : IsFiniteSet(S)
  BY FS_Subset, UsersAssumption
<1> DEFINE Wrong == {S \in SUBSET Users : SumFunctionOnSet(f, S) # m[S]}
<1>4. Wrong = {}
  <2> SUFFICES ASSUME Wrong # {} PROVE FALSE
    OBVIOUS
  <2>1. PICK S \in Wrong : \A T \in Wrong : Cardinality(S) <= Cardinality(T)
    BY <1>3, LeastFiniteSet
  <2>2. S \in SUBSET Users /\ IsFiniteSet(S) /\ \A x \in S : f[x] \in Int
    BY <1>3
  <2>3. PICK x \in S : TRUE
    BY <1>2, SumOfNothing
  <2>4. /\ Cardinality(S) \in Nat /\ Cardinality(S \ {x}) = Cardinality(S) - 1
        /\ S \ {x} \in SUBSET Users
    BY <2>2, Smaller
  <2>5. S \ {x} \notin Wrong
    <3> HIDE DEF Wrong
    <3>1. ~ Cardinality(S) <= Cardinality(S \ {x})
      BY <2>4
    <3> QED  BY <2>1, <3>1
  <2>6. m[S] = m[S \ {x}] + f[x]
    <3>1. x \in Users \ (S \ {x}) /\ (S \ {x}) \cup {x} = S
      BY <2>2
    <3> QED  BY <1>2, <2>4, <3>1
  <2>7. SumFunctionOnSet(f, S) = f[x] + SumFunctionOnSet(f, S \ {x})
    BY <2>2, SumTakeOut
  <2>8. SumFunctionOnSet(f, S \ {x}) = m[S \ {x}]
    BY <2>4, <2>5
  <2>9. m[S \ {x}] \in Nat /\ f[x] \in Nat
    BY <1>2, <2>2, <2>4
  <2> QED  BY <2>6, <2>7, <2>8, <2>9
<1> QED  BY <1>1, <1>4 DEF TotalOf

\* What the accumulator grew by, over all shares, is at most what the rate
\* gave since the last update.
LEMMA GrowthBound ==
  ASSUME DiemTypeOK, RewardTypeOK
  PROVE  /\ Growth \in Nat
         /\ Precision * (sinceUpdate * rewardRate) \in Nat
         /\ Growth * totalSupply <= Precision * (sinceUpdate * rewardRate)
<1>1. /\ totalSupply \in Nat /\ rewardPerTokenStored \in Nat /\ rewardRate \in Nat
      /\ sinceUpdate \in Nat /\ Precision \in Nat
  BY ParametersAssumption DEF DiemTypeOK, RewardTypeOK
<1>2. Growth \in Nat
  BY <1>1, RewardPerTokenGrows DEF Growth
<1> DEFINE accrued == sinceUpdate * rewardRate * Precision
<1>3. accrued \in Nat /\ accrued = Precision * (sinceUpdate * rewardRate)
  <2>1. sinceUpdate * rewardRate \in Nat
    BY <1>1, ProductNat
  <2> QED  BY <1>1, <2>1, ProductNat
<1> HIDE DEF accrued
<1>4. CASE totalSupply = 0
  BY <1>1, <1>2, <1>3, <1>4
<1>5. CASE totalSupply # 0
  <2>1. /\ accrued \div totalSupply \in Nat
        /\ (accrued \div totalSupply) * totalSupply <= accrued
    BY <1>1, <1>3, <1>5, DivisionRoundsDown
  <2>2. RewardPerToken = rewardPerTokenStored + accrued \div totalSupply
    BY <1>5 DEF RewardPerToken, accrued
  <2>3. Growth = accrued \div totalSupply
    BY <1>1, <2>1, <2>2 DEF Growth
  <2> QED  BY <1>2, <1>3, <2>1, <2>3
<1> QED  BY <1>4, <1>5

\* Due is Settled and the growth on the balance; rounded down it is Earned.
LEMMA DueBounds ==
  ASSUME DiemTypeOK, RewardTypeOK, NEW u \in Users
  PROVE  /\ SettledOf(u) \in Nat /\ DueOf(u) \in Nat /\ balanceOf[u] \in Nat
         /\ DueOf(u) = SettledOf(u) + Growth * balanceOf[u]
         /\ Earned(u) \in Nat /\ Precision * Earned(u) \in Nat
         /\ Precision * Earned(u) <= DueOf(u)
<1>1. /\ balanceOf[u] \in Nat /\ rewards[u] \in Nat
      /\ userRewardPerTokenPaid[u] \in Nat
      /\ userRewardPerTokenPaid[u] <= rewardPerTokenStored
      /\ rewardPerTokenStored \in Nat /\ Precision \in Nat \ {0}
      /\ RewardPerToken \in Nat /\ Growth \in Nat
  BY GrowthBound, RewardPerTokenGrows, ParametersAssumption DEF DiemTypeOK, RewardTypeOK
<1> DEFINE since == rewardPerTokenStored - userRewardPerTokenPaid[u]
           growth == RewardPerToken - userRewardPerTokenPaid[u]
<1>2. since \in Nat /\ growth \in Nat /\ growth = since + Growth
  BY <1>1 DEF Growth
<1> HIDE DEF since, growth
<1>3. /\ balanceOf[u] * since \in Nat /\ balanceOf[u] * growth \in Nat
      /\ Precision * rewards[u] \in Nat /\ Growth * balanceOf[u] \in Nat
  BY <1>1, <1>2, ProductNat
<1>4. balanceOf[u] * growth = balanceOf[u] * since + Growth * balanceOf[u]
  BY <1>1, <1>2
<1>5. /\ SettledOf(u) = balanceOf[u] * since + Precision * rewards[u]
      /\ DueOf(u) = balanceOf[u] * growth + Precision * rewards[u]
  BY DEF SettledOf, DueOf, since, growth
<1> DEFINE accrued == balanceOf[u] * growth
<1>6. accrued \in Nat
  BY <1>3
<1>7. Earned(u) = accrued \div Precision + rewards[u]
  BY DEF Earned, growth
<1>8. DueOf(u) = accrued + Precision * rewards[u]
  BY <1>5
<1> DEFINE whole == accrued \div Precision
<1> HIDE DEF accrued
<1>9. whole \in Nat /\ whole * Precision <= accrued
  BY <1>1, <1>6, DivisionRoundsDown
<1> HIDE DEF whole
<1>10. Earned(u) \in Nat /\ Precision * Earned(u) = whole * Precision + Precision * rewards[u]
  BY <1>1, <1>7, <1>9 DEF whole
<1>11. whole * Precision \in Nat
  BY <1>1, <1>9, ProductNat
<1> QED  BY <1>1, <1>3, <1>4, <1>5, <1>6, <1>8, <1>9, <1>10, <1>11

\* The USDC covers what is due, unrounded, and the rest of the period.
LEMMA DueCovered ==
  ASSUME DiemInv, RewardTypeOK, Funded
  PROVE  /\ TotalOf(Due) \in Nat /\ TotalOf(Settled) \in Nat
         /\ Precision * (periodLeft * rewardRate) \in Nat
         /\ TotalOf(Due) + Precision * (periodLeft * rewardRate) <= Precision * usdc
<1>1. DiemTypeOK /\ IsFiniteSet(Users) /\ TotalOf(balanceOf) = totalSupply
  BY TalliedSum, UsersAssumption DEF DiemInv, DiemTypeOK
<1>2. \A u \in Users : /\ Settled[u] \in Nat /\ Due[u] \in Nat /\ balanceOf[u] \in Nat
                       /\ Due[u] = Settled[u] + Growth * balanceOf[u]
  BY <1>1, DueBounds DEF Settled, Due
<1>3. /\ Growth \in Nat /\ Precision * (sinceUpdate * rewardRate) \in Nat
      /\ Growth * totalSupply <= Precision * (sinceUpdate * rewardRate)
  BY <1>1, GrowthBound
<1> DEFINE D == Due
           T == Settled
           B == balanceOf
<1>4. TotalOf(Due) = TotalOf(Settled) + Growth * totalSupply
  <2>1. \A u \in Users : /\ T[u] \in Int /\ B[u] \in Int
                         /\ D[u] = T[u] + Growth * B[u]
    BY <1>2
  <2> HIDE DEF D, T, B
  <2>2. Growth \in Int
    BY <1>3
  <2>3. TotalOf(D) = TotalOf(T) + Growth * TotalOf(B)
    BY <1>1, <2>1, <2>2, SumOfMultiple DEF TotalOf
  <2> QED  BY <1>1, <2>3 DEF D, T, B
<1>5. TotalOf(Due) \in Nat /\ TotalOf(Settled) \in Nat
  <2> HIDE DEF D, T, B
  <2>1. \A u \in Users : D[u] \in Nat /\ T[u] \in Nat
    BY <1>2 DEF D, T
  <2>2. TotalOf(D) \in Nat /\ TotalOf(T) \in Nat
    BY <1>1, <2>1, SumIsNatural DEF TotalOf
  <2> QED  BY <2>2 DEF D, T
<1>6. /\ sinceUpdate \in Nat /\ periodLeft \in Nat /\ rewardRate \in Nat /\ usdc \in Nat
      /\ Precision \in Nat /\ totalSupply \in Nat
  BY <1>1, ParametersAssumption DEF RewardTypeOK, DiemTypeOK
<1>7. /\ Precision * (periodLeft * rewardRate) \in Nat
      /\ Precision * ((sinceUpdate + periodLeft) * rewardRate)
           = Precision * (sinceUpdate * rewardRate) + Precision * (periodLeft * rewardRate)
  BY <1>6, ProductNat
<1>8. Precision * usdc \in Nat /\ Growth * totalSupply \in Nat
  BY <1>3, <1>6, ProductNat
<1> QED  BY <1>3, <1>4, <1>5, <1>7, <1>8 DEF Funded

\* Rounded down, that is Solvency.
LEMMA FundedIsSolvent ==
  ASSUME DiemInv, RewardTypeOK, Funded
  PROVE  Solvency
<1>1. DiemTypeOK /\ IsFiniteSet(Users)
  BY UsersAssumption DEF DiemInv
<1> DEFINE E == [u \in Users |-> Earned(u)]
           Z == [u \in Users |-> 0]
           M == [u \in Users |-> 0 + Precision * Earned(u)]
           D == Due
<1>2. /\ Precision \in Nat \ {0} /\ Precision \in Int
      /\ usdc \in Nat /\ periodLeft \in Nat /\ rewardRate \in Nat
  BY ParametersAssumption DEF RewardTypeOK
<1>3. \A u \in Users : /\ E[u] \in Nat /\ Z[u] = 0 /\ D[u] \in Nat /\ M[u] \in Nat
                       /\ M[u] = Z[u] + Precision * E[u] /\ M[u] <= D[u]
  BY <1>1, DueBounds DEF Due
<1>4. TotalEarned = TotalOf(E)
  BY SumOfFunction DEF TotalEarned, TotalOf
<1> HIDE DEF E, Z, M, D
<1>5. TotalOf(M) = TotalOf(Z) + Precision * TotalOf(E) /\ TotalOf(Z) = 0
  <2>1. \A u \in Users : E[u] \in Int /\ Z[u] \in Int /\ M[u] = Z[u] + Precision * E[u]
    BY <1>3
  <2>2. TotalOf(M) = TotalOf(Z) + Precision * TotalOf(E)
    BY <1>1, <1>2, <2>1, SumOfMultiple DEF TotalOf
  <2>3. TotalOf(Z) = 0
    BY <1>1, <1>3, SumOfZeros DEF TotalOf
  <2> QED  BY <2>2, <2>3
<1>6. TotalOf(M) <= TotalOf(D)
  BY <1>1, <1>3, SumMonotone DEF TotalOf
<1>7. TotalOf(E) \in Nat /\ TotalOf(D) \in Nat
  BY <1>1, <1>3, SumIsNatural DEF TotalOf
<1>8. TotalOf(D) + Precision * (periodLeft * rewardRate) <= Precision * usdc
  BY DueCovered DEF D
<1> DEFINE left == periodLeft * rewardRate
           needed == TotalOf(E) + left
<1>9. left \in Nat /\ needed \in Nat
  BY <1>2, <1>7, ProductNat
<1>10. Precision * needed <= Precision * usdc
  <2>1. Precision * needed = Precision * TotalOf(E) + Precision * left
    <3> HIDE DEF left
    <3> QED  BY <1>2, <1>7, <1>9
  <2>2. Precision * TotalOf(E) \in Nat /\ Precision * left \in Nat /\ Precision * usdc \in Nat
    BY <1>2, <1>7, <1>9, ProductNat
  <2> HIDE DEF needed, left
  <2>3. TotalOf(D) + Precision * left <= Precision * usdc
    BY <1>8 DEF left
  <2> QED  BY <1>5, <1>6, <1>7, <2>1, <2>2, <2>3
<1> HIDE DEF needed
<1>11. needed <= usdc
  <2> SUFFICES ASSUME needed > usdc PROVE FALSE
    BY <1>2, <1>9
  <2>1. needed - usdc \in Nat \ {0}
    BY <1>2, <1>9
  <2>2. \A a \in Nat \ {0}, p \in Nat \ {0} : p * a > 0
    OBVIOUS
  <2>3. Precision * (needed - usdc) > 0
    BY <1>2, <2>1, <2>2
  <2>4. Precision * (needed - usdc) = Precision * needed - Precision * usdc
    BY <1>2, <1>9
  <2>5. Precision * needed \in Nat /\ Precision * usdc \in Nat
    BY <1>2, <1>9, ProductNat
  <2> QED  BY <1>10, <2>3, <2>4, <2>5
<1> QED  BY <1>4, <1>11, <1>2, <1>9 DEF Solvency, needed

\* A user's own checkpoint can only round down, and a payment lowers what is
\* left by itself.
LEMMA CheckpointedUser ==
  ASSUME DiemTypeOK, RewardTypeOK, CheckpointGlobal, NEW u \in Users, NEW out \in Nat,
         balanceOf'[u] \in Nat, userRewardPerTokenPaid'[u] = RewardPerToken,
         out <= Earned(u), rewards'[u] = Earned(u) - out
  PROVE  SettledOf(u)' <= DueOf(u) - Precision * out
<1>1. /\ Earned(u) \in Nat /\ DueOf(u) \in Nat /\ RewardPerToken \in Nat /\ Precision \in Nat
      /\ Precision * Earned(u) \in Nat /\ Precision * Earned(u) <= DueOf(u)
  BY DueBounds, RewardPerTokenGrows, ParametersAssumption
<1>2. rewardPerTokenStored' = RewardPerToken
  BY DEF CheckpointGlobal
<1>3. rewardPerTokenStored' - userRewardPerTokenPaid'[u] = 0
  BY <1>1, <1>2
<1>4. SettledOf(u)' = balanceOf'[u] * 0 + Precision * (Earned(u) - out)
  BY <1>3 DEF SettledOf
<1> DEFINE e == Earned(u)
<1> HIDE DEF e
<1>5. e \in Nat /\ Precision * (e - out) = Precision * e - Precision * out
  BY <1>1 DEF e
<1>6. balanceOf'[u] * 0 = 0 /\ Precision * out \in Nat
  BY <1>1, ProductNat
<1> QED  BY <1>1, <1>4, <1>5, <1>6 DEF e

\* For a user without a checkpoint only the accumulator moves.
LEMMA UncheckpointedUser ==
  ASSUME CheckpointGlobal, NEW u \in Users, balanceOf'[u] = balanceOf[u],
         userRewardPerTokenPaid'[u] = userRewardPerTokenPaid[u], rewards'[u] = rewards[u]
  PROVE  SettledOf(u)' = DueOf(u)
BY DEF SettledOf, DueOf, CheckpointGlobal

\* A step that settles what is due, less what it pays out to v, stays funded.
LEMMA SettlingFunds ==
  ASSUME DiemInv, RewardTypeOK, Funded, DiemTypeOK', RewardTypeOK',
         NEW v \in Users, NEW out \in Nat,
         \A u \in Users : SettledOf(u)' <= IF u = v THEN DueOf(u) - Precision * out
                                           ELSE DueOf(u),
         usdc' = usdc - out, sinceUpdate' = 0, UNCHANGED periodVars
  PROVE  Funded'
<1> DEFINE N == [u \in Users |-> SettledOf(u)']
           G == [u \in Users |-> IF u = v THEN DueOf(u) - Precision * out ELSE DueOf(u)]
           D == [u \in Users |-> DueOf(u)]
<1>1. /\ Precision \in Nat /\ usdc \in Nat /\ periodLeft \in Nat /\ rewardRate \in Nat
      /\ IsFiniteSet(Users) /\ DiemTypeOK /\ Precision * out \in Nat
  BY ParametersAssumption, UsersAssumption, ProductNat DEF DiemInv, RewardTypeOK
<1>2. \A u \in Users : DueOf(u) \in Nat
  BY <1>1, DueBounds
<1>3. \A u \in Users : SettledOf(u)' \in Int
  <2> SUFFICES ASSUME NEW u \in Users PROVE SettledOf(u)' \in Int
    OBVIOUS
  <2>1. /\ balanceOf'[u] \in Nat /\ rewards'[u] \in Nat
        /\ rewardPerTokenStored' \in Nat /\ userRewardPerTokenPaid'[u] \in Nat
    BY DEF DiemTypeOK, RewardTypeOK
  <2>2. rewardPerTokenStored' - userRewardPerTokenPaid'[u] \in Int
    BY <2>1
  <2>3. \A a, b \in Int : a * b \in Int
    OBVIOUS
  <2>4. /\ balanceOf'[u] * (rewardPerTokenStored' - userRewardPerTokenPaid'[u]) \in Int
        /\ Precision * rewards'[u] \in Int
    BY <1>1, <2>1, <2>2, <2>3
  <2> QED  BY <2>4 DEF SettledOf
<1>4. \A u \in Users : /\ N[u] \in Int /\ G[u] \in Int /\ D[u] \in Int /\ N[u] <= G[u]
                       /\ (u # v => G[u] = D[u])
  BY <1>1, <1>2, <1>3
<1>5. G[v] = D[v] - Precision * out /\ Due = D
  BY DEF Due
<1>6. TotalOf(Settled)' = TotalOf(N)
  BY DEF Settled, TotalOf
<1> HIDE DEF N, G, D
<1>7. TotalOf(N) <= TotalOf(G)
  BY <1>1, <1>4, SumMonotone DEF TotalOf
<1>8. TotalOf(G) = TotalOf(D) + (G[v] - D[v])
  BY <1>1, <1>4, SumOneChanged DEF TotalOf
<1>9. /\ TotalOf(N) \in Int /\ TotalOf(G) \in Int /\ TotalOf(D) \in Int
  BY <1>1, <1>4, SumEquation DEF TotalOf
<1>10. /\ Precision * (periodLeft * rewardRate) \in Nat
       /\ TotalOf(D) + Precision * (periodLeft * rewardRate) <= Precision * usdc
  BY <1>5, DueCovered
<1>11. TotalOf(N) <= TotalOf(D) - Precision * out
  <2>1. G[v] \in Int /\ D[v] \in Int
    BY <1>4
  <2> QED  BY <1>1, <1>5, <1>7, <1>8, <1>9, <2>1
<1>12. Precision * usdc' = Precision * usdc - Precision * out /\ Precision * usdc \in Nat
  BY <1>1, ProductNat
<1>13. (sinceUpdate' + periodLeft') * rewardRate' = periodLeft * rewardRate
  BY <1>1 DEF periodVars
<1> QED  BY <1>1, <1>6, <1>9, <1>10, <1>11, <1>12, <1>13 DEF Funded

\* Mint, burn and transfer: the users whose balance changes are checkpointed.
LEMMA CheckpointFunds ==
  ASSUME DiemInv, RewardTypeOK, Funded, DiemTypeOK', RewardTypeOK',
         CheckpointGlobal, NEW S \in SUBSET Users, CheckpointUsers(S),
         NEW v \in S, \A u \in Users \ S : balanceOf'[u] = balanceOf[u],
         UNCHANGED <<periodVars, usdcVars>>
  PROVE  Funded'
<1>1. DiemTypeOK /\ usdc \in Nat /\ usdc' = usdc /\ sinceUpdate' = 0 /\ Precision * 0 = 0
  BY ParametersAssumption DEF DiemInv, RewardTypeOK, usdcVars, CheckpointGlobal
<1>2. \A u \in Users : DueOf(u) \in Nat /\ Earned(u) \in Nat /\ balanceOf'[u] \in Nat
  BY <1>1, DueBounds DEF DiemTypeOK
<1>3. ASSUME NEW u \in Users PROVE SettledOf(u)' <= DueOf(u) - Precision * 0
  <2>1. CASE u \in S
    <3>1. userRewardPerTokenPaid'[u] = RewardPerToken /\ rewards'[u] = Earned(u) - 0
      BY <1>2, <2>1 DEF CheckpointUsers
    <3> QED  BY <1>1, <1>2, <3>1, CheckpointedUser
  <2>2. CASE u \notin S
    <3>1. userRewardPerTokenPaid'[u] = userRewardPerTokenPaid[u] /\ rewards'[u] = rewards[u]
      BY <2>2 DEF CheckpointUsers
    <3>2. SettledOf(u)' = DueOf(u)
      BY <2>2, <3>1, UncheckpointedUser
    <3> QED  BY <1>1, <1>2, <3>2
  <2> QED  BY <2>1, <2>2
<1>4. \A u \in Users : SettledOf(u)' <= IF u = v THEN DueOf(u) - Precision * 0 ELSE DueOf(u)
  BY <1>1, <1>2, <1>3
<1>5. usdc' = usdc - 0 /\ 0 \in Nat /\ v \in Users
  BY <1>1
<1> QED  BY <1>1, <1>4, <1>5, SettlingFunds

\* A claim, whether or not the transfer goes through, and with it a burn of
\* the claimer's shares.
LEMMA ClaimFunds ==
  ASSUME DiemInv, RewardTypeOK, Funded, DiemTypeOK', RewardTypeOK',
         CheckpointGlobal, NEW v \in Users, NEW paid \in BOOLEAN, PayReward(v, paid),
         \A u \in Users \ {v} : balanceOf'[u] = balanceOf[u],
         UNCHANGED periodVars
  PROVE  Funded'
<1> DEFINE out == IF paid THEN Earned(v) ELSE 0
<1>1. DiemTypeOK /\ sinceUpdate' = 0
  BY DEF DiemInv, CheckpointGlobal
<1>2. \A u \in Users : DueOf(u) \in Nat /\ Earned(u) \in Nat /\ balanceOf'[u] \in Nat
  BY <1>1, DueBounds DEF DiemTypeOK
<1>3. out \in Nat /\ out <= Earned(v)
  BY <1>2
<1>4. /\ userRewardPerTokenPaid' = [userRewardPerTokenPaid EXCEPT ![v] = RewardPerToken]
      /\ rewards' = [rewards EXCEPT ![v] = Earned(v) - out]
      /\ usdc' = usdc - out
  BY DEF PayReward
<1> HIDE DEF out
<1>5. /\ userRewardPerTokenPaid \in [Users -> 0..rewardPerTokenStored]
      /\ rewards \in [Users -> Nat]
  BY DEF RewardTypeOK
<1>6. ASSUME NEW u \in Users
      PROVE  SettledOf(u)' <= IF u = v THEN DueOf(u) - Precision * out ELSE DueOf(u)
  <2>1. CASE u = v
    <3>1. userRewardPerTokenPaid'[u] = RewardPerToken /\ rewards'[u] = Earned(u) - out
      BY <1>4, <1>5, <2>1
    <3>2. SettledOf(u)' <= DueOf(u) - Precision * out
      BY <1>1, <1>2, <1>3, <2>1, <3>1, CheckpointedUser
    <3> QED  BY <2>1, <3>2
  <2>2. CASE u # v
    <3>1. userRewardPerTokenPaid'[u] = userRewardPerTokenPaid[u] /\ rewards'[u] = rewards[u]
      BY <1>4, <1>5, <2>2
    <3>2. SettledOf(u)' = DueOf(u)
      BY <2>2, <3>1, UncheckpointedUser
    <3> QED  BY <1>2, <2>2, <3>2
  <2> QED  BY <2>1, <2>2
<1> QED  BY <1>1, <1>3, <1>4, <1>6, SettlingFunds

\* A notification: the new rate spends no more than what was left and what
\* stays of the amount brought.
LEMMA NotifyFunds ==
  ASSUME DiemInv, RewardTypeOK, Funded, NEW m, NEW reward \in Nat,
         NotifyRewardAmount(m, reward)
  PROVE  Funded'
<1> DEFINE rate == RateOf(reward + Leftover)
           refund == RefundOf(reward)
<1>1. /\ rewardRate' = rate /\ periodLeft' = RewardsDuration /\ sinceUpdate' = 0
      /\ usdc' = usdc + reward - refund
      /\ CheckpointGlobal /\ UNCHANGED <<balanceOf, userRewardPerTokenPaid, rewards>>
  BY DEF NotifyRewardAmount, StartPeriod, CheckpointGlobal, userVars, shareVars
<1>2. /\ Leftover \in Nat /\ Precision \in Nat /\ usdc \in Nat /\ RewardsDuration \in Nat
      /\ rate \in Nat /\ refund \in Nat /\ refund <= reward
  BY RefundBounds, ProductNat, ParametersAssumption DEF RewardTypeOK, Leftover
<1>3. rate * RewardsDuration <= (reward - refund) + Leftover
  <2> DEFINE total == reward + Leftover
             spent == RateOf(total) * RewardsDuration
  <2>1. total \in Nat
    BY <1>2
  <2>2. spent \in Nat /\ spent <= total
    <3> HIDE DEF total
    <3> QED  BY <2>1, DivisionRoundsDown, ParametersAssumption DEF RateOf
  <2>3. refund = Min2(total - spent, reward)
    BY DEF RefundOf, Refund
  <2>4. rate * RewardsDuration = spent
    OBVIOUS
  <2> HIDE DEF spent, rate, refund
  <2>5. refund <= total - spent
    BY <2>1, <2>2, <2>3 DEF Min2
  <2> QED  BY <1>2, <2>1, <2>2, <2>4, <2>5
<1>4. Settled' = Due
  <2>1. \A u \in Users : SettledOf(u)' = DueOf(u)
    BY <1>1, UncheckpointedUser
  <2> QED  BY <2>1 DEF Settled, Due
<1>5. /\ TotalOf(Due) \in Nat
      /\ TotalOf(Due) + Precision * Leftover <= Precision * usdc
  BY DueCovered DEF Leftover
<1>6. TotalOf(Settled)' = TotalOf(Due)
  BY <1>4 DEF TotalOf
<1> HIDE DEF rate, refund
<1> DEFINE spent == rate * RewardsDuration
           kept == reward - refund
<1>7. kept \in Nat /\ spent \in Nat /\ spent <= kept + Leftover
  BY <1>2, <1>3, ProductNat
<1>8. (sinceUpdate' + periodLeft') * rewardRate' = spent /\ usdc' = usdc + kept
  BY <1>1, <1>2
<1> HIDE DEF spent, kept
<1>9. Precision * spent <= Precision * kept + Precision * Leftover
  <2>1. \A p, a, b \in Nat : a <= b => p * a <= p * b
    OBVIOUS
  <2>2. kept + Leftover \in Nat /\ Precision * (kept + Leftover) = Precision * kept + Precision * Leftover
    BY <1>2, <1>7
  <2> QED  BY <1>2, <1>7, <2>1, <2>2
<1>10. Precision * (usdc + kept) = Precision * usdc + Precision * kept
  BY <1>2, <1>7
<1>11. /\ Precision * spent \in Nat /\ Precision * kept \in Nat
       /\ Precision * Leftover \in Nat /\ Precision * usdc \in Nat
  BY <1>2, <1>7, ProductNat
<1>12. TotalOf(Due) + Precision * spent <= Precision * usdc + Precision * kept
  BY <1>5, <1>9, <1>11
<1> QED  BY <1>6, <1>8, <1>10, <1>12 DEF Funded

\* A unit of the period that is over is a unit since the last update.
LEMMA TickFunds ==
  ASSUME RewardTypeOK, Funded, Tick
  PROVE  Funded'
<1>1. /\ periodLeft \in Nat /\ sinceUpdate \in Nat /\ CountDown(periodLeft) \in Nat
  BY ParametersAssumption DEF RewardTypeOK, CountDown
<1>2. sinceUpdate' + periodLeft' = sinceUpdate + periodLeft
  BY <1>1 DEF Tick
<1>3. UNCHANGED <<balanceOf, rewardRate, rewardPerTokenStored, userRewardPerTokenPaid,
                  rewards, usdc>>
  BY DEF Tick, shareVars, userVars, usdcVars
<1> QED  BY <1>2, <1>3 DEF Funded, Settled, SettledOf, TotalOf

LEMMA FundedUnchanged ==
  ASSUME Funded, UNCHANGED <<shareVars, rewardVars, usdcVars>>
  PROVE  Funded'
BY DEF Funded, Settled, SettledOf, TotalOf, shareVars, rewardVars, globalVars, userVars,
       periodVars, usdcVars

LEMMA FundedInit == Init => Funded
<1> SUFFICES ASSUME Init PROVE Funded
  OBVIOUS
<1> DEFINE Z == Settled
<1>1. \A u \in Users : Z[u] = 0
  BY ParametersAssumption DEF Init, Settled, SettledOf
<1> HIDE DEF Z
<1>2. TotalOf(Z) = 0
  BY <1>1, SumOfZeros, UsersAssumption DEF TotalOf
<1> QED  BY <1>2, ParametersAssumption DEF Init, Funded, Z

RewardInv == DiemInv /\ RewardTypeOK /\ Funded

LEMMA RewardNext == RewardInv /\ [Next]_vars => RewardInv'
<1> SUFFICES ASSUME RewardInv, [Next]_vars PROVE RewardInv'
  OBVIOUS
<1> USE DEF RewardInv
<1>1. DiemInv' /\ DiemTypeOK' /\ DiemTypeOK /\ RewardTypeOK'
  BY DiemNext, RewardTypes DEF DiemInv
<1>2. balanceOf \in [Users -> Nat]
  BY <1>1 DEF DiemTypeOK
<1>3. CASE UNCHANGED vars
  BY <1>1, <1>3, FundedUnchanged DEF vars
<1>4. CASE Tick
  BY <1>1, <1>4, TickFunds
<1>5. ASSUME NEW u \in Users, UserStep(u) PROVE Funded'
  <2>1. ASSUME NEW v \in Users, NEW a, balanceOf' = [balanceOf EXCEPT ![v] = a]
        PROVE  \A w \in Users \ {v} : balanceOf'[w] = balanceOf[w]
    BY <1>2, <2>1
  <2>2. {u} \in SUBSET Users /\ u \in {u}
    OBVIOUS
  <2>3. ASSUME NEW amount \in Amounts, StakeDiem(u, amount) PROVE Funded'
    <3>1. /\ CheckpointGlobal /\ CheckpointUsers({u}) /\ UNCHANGED <<periodVars, usdcVars>>
          /\ balanceOf' = [balanceOf EXCEPT ![u] = balanceOf[u] + amount]
      BY <2>3 DEF StakeDiem, Mint
    <3> QED  BY <1>1, <2>1, <2>2, <3>1, CheckpointFunds
  <2>4. ASSUME NEW amount \in Amounts, RequestWithdraw(u, amount) PROVE Funded'
    <3>1. /\ CheckpointGlobal /\ CheckpointUsers({u}) /\ UNCHANGED <<periodVars, usdcVars>>
          /\ balanceOf' = [balanceOf EXCEPT ![u] = balanceOf[u] - amount]
      BY <2>4 DEF RequestWithdraw, BurnShares
    <3> QED  BY <1>1, <2>1, <2>2, <3>1, CheckpointFunds
  <2>5. ASSUME NEW amount \in Amounts, NEW to \in Users, Transfer(u, to, amount)
        PROVE  Funded'
    <3>1. /\ CheckpointGlobal /\ CheckpointUsers({u, to}) /\ UNCHANGED <<periodVars, usdcVars>>
          /\ balanceOf' = [[balanceOf EXCEPT ![u] = @ - amount] EXCEPT ![to] = @ + amount]
      BY <2>5 DEF Transfer, MoveShares
    <3>2. \A w \in Users \ {u, to} : balanceOf'[w] = balanceOf[w]
      BY <1>2, <3>1
    <3>3. {u, to} \in SUBSET Users /\ u \in {u, to}
      OBVIOUS
    <3> QED  BY <1>1, <3>1, <3>2, <3>3, CheckpointFunds
  <2>6. CASE \E amount \in Donations : DonateDiem(u, amount)
    BY <2>6, FundedUnchanged DEF DonateDiem
  <2>7. CASE CompleteWithdraw(u)
    BY <2>7, FundedUnchanged DEF CompleteWithdraw
  <2>8. CASE CancelWithdraw(u)
    <3>1. /\ CheckpointGlobal /\ CheckpointUsers({u}) /\ UNCHANGED <<periodVars, usdcVars>>
          /\ balanceOf' = [balanceOf EXCEPT ![u] = balanceOf[u] + request[u].amount]
      BY <2>8 DEF CancelWithdraw, Mint
    <3> QED  BY <1>1, <2>1, <2>2, <3>1, CheckpointFunds
  <2>9. CASE ClaimReward(u) \/ ClaimRewardTo(u)
    <3>1. PICK paid \in BOOLEAN : PayReward(u, paid)
      BY <2>9 DEF ClaimReward, ClaimRewardTo
    <3>2. CheckpointGlobal /\ UNCHANGED periodVars /\ balanceOf' = balanceOf
      BY <2>9 DEF ClaimReward, ClaimRewardTo, shareVars
    <3> QED  BY <1>1, <3>1, <3>2, ClaimFunds
  <2>10. CASE Exit(u)
    <3>1. PICK paid \in BOOLEAN : PayReward(u, paid)
      BY <2>10 DEF Exit
    <3>2. /\ CheckpointGlobal /\ UNCHANGED periodVars
          /\ balanceOf' = [balanceOf EXCEPT ![u] = balanceOf[u] - balanceOf[u]]
      BY <2>10 DEF Exit, BurnShares
    <3> QED  BY <1>1, <2>1, <3>1, <3>2, ClaimFunds
  <2> QED  BY <1>5, <2>3, <2>4, <2>5, <2>6, <2>7, <2>8, <2>9, <2>10 DEF UserStep
<1>6. CASE ClaimFromVenice \/ InitiateVeniceUnstake \/ RedeployExcess
  BY <1>1, <1>6, FundedUnchanged DEF ClaimFromVenice, InitiateVeniceUnstake, RedeployExcess
<1>7. ASSUME NEW m \in Managers, ManagerStep(m) PROVE Funded'
  <2>1. ASSUME NEW reward \in RewardAmounts, NotifyRewardAmount(m, reward) PROVE Funded'
    BY <2>1, NotifyFunds, AmountsAssumption
  <2>2. ASSUME \/ \E value \in Pauses : SetPaused(m, value)
               \/ \E to \in Candidates : SetOperator(m, to) \/ TransferAdmin(m, to)
               \/ AcceptAdmin(m)
        PROVE  Funded'
    BY <2>2, FundedUnchanged DEF SetPaused, SetOperator, TransferAdmin, AcceptAdmin
  <2> QED  BY <1>7, <2>1, <2>2 DEF ManagerStep
<1> QED  BY <1>1, <1>3, <1>4, <1>5, <1>6, <1>7 DEF Next

LEMMA RewardInvariant == Spec => []RewardInv
<1>1. Init => RewardTypeOK
  BY ParametersAssumption, AmountsAssumption DEF Init, RewardTypeOK
<1>2. Init => RewardInv
  BY <1>1, DiemInit, FundedInit DEF RewardInv
<1> QED  BY <1>2, RewardNext, PTL DEF Spec

\* The contract can always pay what every user has earned, and the rest of
\* the current period at its rate.
THEOREM SolvencyHolds == Spec => []Solvency
<1>1. RewardInv => Solvency
  BY FundedIsSolvent DEF RewardInv
<1> QED  BY <1>1, RewardInvariant, PTL
-----------------------------------------------------------------------------
(***************************************************************************)
(* What a user has earned moves with time only: a step that brings the     *)
(* accumulator up to date leaves RewardPerToken where it was, and a        *)
(* checkpoint leaves Earned where it was.                                  *)
(***************************************************************************)

LEMMA SameRewardPerToken ==
  ASSUME CheckpointGlobal, DiemTypeOK', RewardTypeOK'
  PROVE  RewardPerToken' = RewardPerToken
<1>1. /\ rewardPerTokenStored' = RewardPerToken /\ sinceUpdate' = 0
      /\ rewardPerTokenStored' \in Nat /\ rewardRate' \in Nat /\ totalSupply' \in Nat
      /\ Precision \in Nat
  BY ParametersAssumption DEF CheckpointGlobal, RewardTypeOK, DiemTypeOK
<1>2. CASE totalSupply' = 0
  BY <1>1, <1>2 DEF RewardPerToken
<1>3. CASE totalSupply' # 0
  <2>1. \A r, p \in Nat, n \in Nat \ {0} : (0 * r * p) \div n = 0
    OBVIOUS
  <2>2. RewardPerToken' = rewardPerTokenStored'
                            + (sinceUpdate' * rewardRate' * Precision) \div totalSupply'
    BY <1>3 DEF RewardPerToken
  <2>3. (0 * rewardRate' * Precision) \div totalSupply' = 0
    BY <1>1, <1>3, <2>1
  <2>4. RewardPerToken' = rewardPerTokenStored' + 0
    BY <1>1, <2>2, <2>3
  <2> QED  BY <1>1, <2>4
<1> QED  BY <1>2, <1>3

\* A checkpoint turns what has accrued into rewards, less what is paid.
LEMMA CheckpointedEntitlement ==
  ASSUME DiemTypeOK, RewardTypeOK, CheckpointGlobal, DiemTypeOK', RewardTypeOK',
         NEW u \in Users, NEW out \in Nat,
         userRewardPerTokenPaid'[u] = RewardPerToken, rewards'[u] = Earned(u) - out,
         claimed'[u] = claimed[u] + out
  PROVE  Entitlement(u)' = Entitlement(u)
<1>1. /\ Earned(u) \in Nat /\ claimed[u] \in Nat /\ balanceOf'[u] \in Nat
      /\ RewardPerToken \in Nat /\ Precision \in Nat \ {0}
  BY EarnedNat, RewardPerTokenGrows, ParametersAssumption DEF RewardTypeOK, DiemTypeOK
<1>2. RewardPerToken' - userRewardPerTokenPaid'[u] = 0
  BY <1>1, SameRewardPerToken
<1>3. (balanceOf'[u] * 0) \div Precision = 0
  BY <1>1
<1>4. Earned(u)' = 0 + (Earned(u) - out)
  BY <1>2, <1>3 DEF Earned
<1> QED  BY <1>1, <1>4 DEF Entitlement

LEMMA UncheckpointedEntitlement ==
  ASSUME NEW u \in Users, RewardPerToken' = RewardPerToken, balanceOf'[u] = balanceOf[u],
         userRewardPerTokenPaid'[u] = userRewardPerTokenPaid[u], rewards'[u] = rewards[u],
         claimed'[u] = claimed[u]
  PROVE  Entitlement(u)' = Entitlement(u)
BY DEF Entitlement, Earned

LEMMA UnchangedEntitlement ==
  ASSUME UNCHANGED <<shareVars, rewardVars, usdcVars>>, NEW u \in Users
  PROVE  Entitlement(u)' = Entitlement(u)
<1>1. RewardPerToken' = RewardPerToken
  BY DEF RewardPerToken, shareVars, rewardVars, globalVars, periodVars
<1> QED  BY <1>1, UncheckpointedEntitlement DEF shareVars, rewardVars, userVars, usdcVars

LEMMA CheckpointEntitlement ==
  ASSUME DiemTypeOK, RewardTypeOK, CheckpointGlobal, DiemTypeOK', RewardTypeOK',
         NEW S \in SUBSET Users, CheckpointUsers(S),
         \A u \in Users \ S : balanceOf'[u] = balanceOf[u],
         UNCHANGED usdcVars, NEW u \in Users
  PROVE  Entitlement(u)' = Entitlement(u)
<1>1. RewardPerToken' = RewardPerToken /\ claimed' = claimed
  BY SameRewardPerToken DEF usdcVars
<1>2. CASE u \in S
  <2>1. userRewardPerTokenPaid'[u] = RewardPerToken /\ rewards'[u] = Earned(u)
    BY <1>2 DEF CheckpointUsers
  <2>2. Earned(u) \in Nat /\ claimed[u] \in Nat
    BY EarnedNat DEF RewardTypeOK
  <2>3. rewards'[u] = Earned(u) - 0 /\ claimed'[u] = claimed[u] + 0 /\ 0 \in Nat
    BY <1>1, <2>1, <2>2
  <2> QED  BY <2>1, <2>3, CheckpointedEntitlement
<1>3. CASE u \notin S
  <2>1. userRewardPerTokenPaid'[u] = userRewardPerTokenPaid[u] /\ rewards'[u] = rewards[u]
    BY <1>3 DEF CheckpointUsers
  <2> QED  BY <1>1, <1>3, <2>1, UncheckpointedEntitlement
<1> QED  BY <1>2, <1>3

LEMMA ClaimEntitlement ==
  ASSUME DiemTypeOK, RewardTypeOK, CheckpointGlobal, DiemTypeOK', RewardTypeOK',
         NEW v \in Users, NEW paid \in BOOLEAN, PayReward(v, paid),
         \A u \in Users \ {v} : balanceOf'[u] = balanceOf[u], NEW u \in Users
  PROVE  Entitlement(u)' = Entitlement(u)
<1> DEFINE out == IF paid THEN Earned(v) ELSE 0
<1>1. RewardPerToken' = RewardPerToken
  BY SameRewardPerToken
<1>2. out \in Nat
  BY EarnedNat
<1>3. /\ userRewardPerTokenPaid' = [userRewardPerTokenPaid EXCEPT ![v] = RewardPerToken]
      /\ rewards' = [rewards EXCEPT ![v] = Earned(v) - out]
      /\ claimed' = [claimed EXCEPT ![v] = @ + out]
  BY DEF PayReward
<1> HIDE DEF out
<1>4. /\ userRewardPerTokenPaid \in [Users -> 0..rewardPerTokenStored]
      /\ rewards \in [Users -> Nat] /\ claimed \in [Users -> Nat]
  BY DEF RewardTypeOK
<1>5. CASE u = v
  <2>1. /\ userRewardPerTokenPaid'[u] = RewardPerToken /\ rewards'[u] = Earned(u) - out
        /\ claimed'[u] = claimed[u] + out
    BY <1>3, <1>4, <1>5
  <2> QED  BY <1>2, <2>1, CheckpointedEntitlement
<1>6. CASE u # v
  <2>1. /\ userRewardPerTokenPaid'[u] = userRewardPerTokenPaid[u]
        /\ rewards'[u] = rewards[u] /\ claimed'[u] = claimed[u]
    BY <1>3, <1>4, <1>6
  <2> QED  BY <1>1, <1>6, <2>1, UncheckpointedEntitlement
<1> QED  BY <1>5, <1>6

LEMMA NotifyEntitlement ==
  ASSUME DiemTypeOK', RewardTypeOK', NEW m, NEW reward, NotifyRewardAmount(m, reward),
         NEW u \in Users
  PROVE  Entitlement(u)' = Entitlement(u)
<1>1. CheckpointGlobal /\ UNCHANGED <<shareVars, userVars, claimed>>
  BY DEF NotifyRewardAmount, StartPeriod
<1>2. RewardPerToken' = RewardPerToken
  BY <1>1, SameRewardPerToken
<1> QED  BY <1>1, <1>2, UncheckpointedEntitlement DEF shareVars, userVars

\* Time only adds.
LEMMA TickEntitlement ==
  ASSUME DiemTypeOK, RewardTypeOK, RewardTypeOK', Tick, NEW u \in Users
  PROVE  Entitlement(u)' >= Entitlement(u)
<1>1. /\ UNCHANGED <<balanceOf, totalSupply, rewardRate, rewardPerTokenStored,
                     userRewardPerTokenPaid, rewards, claimed>>
      /\ sinceUpdate' = sinceUpdate + (periodLeft - CountDown(periodLeft))
  BY DEF Tick, shareVars, userVars, usdcVars
<1>2. /\ sinceUpdate \in Nat /\ sinceUpdate' \in Nat /\ sinceUpdate <= sinceUpdate'
      /\ rewardRate \in Nat /\ Precision \in Nat \ {0} /\ totalSupply \in Nat
      /\ rewardPerTokenStored \in Nat /\ balanceOf[u] \in Nat
      /\ userRewardPerTokenPaid[u] \in Nat
      /\ userRewardPerTokenPaid[u] <= rewardPerTokenStored
      /\ claimed[u] \in Nat /\ rewards[u] \in Nat
  <2>1. periodLeft \in Nat /\ CountDown(periodLeft) \in Nat /\ CountDown(periodLeft) <= periodLeft
    BY ParametersAssumption DEF RewardTypeOK, CountDown
  <2> QED  BY <1>1, <2>1, ParametersAssumption DEF RewardTypeOK, DiemTypeOK
<1>3. \A a, b, c \in Nat : a <= b => a * c <= b * c /\ c * a <= c * b
  OBVIOUS
<1>4. RewardPerToken' >= RewardPerToken /\ RewardPerToken' \in Nat
  <2>1. CASE totalSupply = 0
    BY <1>1, <1>2, <2>1 DEF RewardPerToken
  <2>2. CASE totalSupply # 0
    <3> DEFINE before == sinceUpdate * rewardRate * Precision
               after == sinceUpdate' * rewardRate * Precision
    <3>1. sinceUpdate * rewardRate \in Nat /\ sinceUpdate' * rewardRate \in Nat
      BY <1>2, ProductNat
    <3>2. sinceUpdate * rewardRate <= sinceUpdate' * rewardRate
      BY <1>2, <1>3
    <3>3. before \in Nat /\ after \in Nat /\ before <= after
      BY <1>2, <1>3, <3>1, <3>2, ProductNat
    <3>4. /\ RewardPerToken = rewardPerTokenStored + before \div totalSupply
          /\ RewardPerToken' = rewardPerTokenStored + after \div totalSupply
      BY <1>1, <2>2 DEF RewardPerToken
    <3> HIDE DEF before, after
    <3>5. /\ before \div totalSupply <= after \div totalSupply
          /\ before \div totalSupply \in Nat /\ after \div totalSupply \in Nat
      BY <1>2, <2>2, <3>3, DivisionMonotone, DivisionRoundsDown
    <3> QED  BY <1>2, <3>4, <3>5
  <2> QED  BY <2>1, <2>2
<1> DEFINE before == RewardPerToken - userRewardPerTokenPaid[u]
           after == RewardPerToken' - userRewardPerTokenPaid[u]
<1>5. before \in Nat /\ after \in Nat /\ before <= after
  BY <1>2, <1>4, RewardPerTokenGrows
<1>6. /\ Earned(u) = (balanceOf[u] * before) \div Precision + rewards[u]
      /\ Earned(u)' = (balanceOf[u] * after) \div Precision + rewards[u]
  BY <1>1 DEF Earned
<1> HIDE DEF before, after
<1>7. /\ balanceOf[u] * before \in Nat /\ balanceOf[u] * after \in Nat
      /\ balanceOf[u] * before <= balanceOf[u] * after
  BY <1>2, <1>3, <1>5, ProductNat
<1>8. /\ (balanceOf[u] * before) \div Precision <= (balanceOf[u] * after) \div Precision
      /\ (balanceOf[u] * before) \div Precision \in Nat
      /\ (balanceOf[u] * after) \div Precision \in Nat
  BY <1>2, <1>7, DivisionMonotone, DivisionRoundsDown
<1> QED  BY <1>1, <1>2, <1>6, <1>8 DEF Entitlement

\* Staking, withdrawing, transferring, claiming, a USDC transfer that fails
\* and a notification leave what every user has earned exactly as it was;
\* time never lowers it.
THEOREM OnlyTimeEarnsHolds == Spec => OnlyTimeEarns
<1> DEFINE Kept == \A u \in Users : Entitlement(u)' = Entitlement(u)
           Grown == \A u \in Users : Entitlement(u)' >= Entitlement(u)
<1>1. RewardInv /\ RewardInv' /\ [Next]_vars => [IF Tick THEN Grown ELSE Kept]_vars
  <2> SUFFICES ASSUME RewardInv, RewardInv', Next PROVE IF Tick THEN Grown ELSE Kept
    OBVIOUS
  <2>1. /\ DiemTypeOK /\ RewardTypeOK /\ DiemTypeOK' /\ RewardTypeOK'
        /\ balanceOf \in [Users -> Nat]
    BY DEF RewardInv, DiemInv, DiemTypeOK
  <2>2. ASSUME Tick PROVE Grown
    BY <2>1, <2>2, TickEntitlement
  <2>3. ASSUME NEW u \in Users, UserStep(u) PROVE Kept
    <3>1. ASSUME NEW v \in Users, NEW a, balanceOf' = [balanceOf EXCEPT ![v] = a]
          PROVE  \A w \in Users \ {v} : balanceOf'[w] = balanceOf[w]
      BY <2>1, <3>1
    <3>2. {u} \in SUBSET Users
      OBVIOUS
    <3>3. ASSUME NEW amount \in Amounts, StakeDiem(u, amount) PROVE Kept
      <4>1. /\ CheckpointGlobal /\ CheckpointUsers({u}) /\ UNCHANGED usdcVars
            /\ balanceOf' = [balanceOf EXCEPT ![u] = balanceOf[u] + amount]
        BY <3>3 DEF StakeDiem, Mint
      <4> QED  BY <2>1, <3>1, <3>2, <4>1, CheckpointEntitlement
    <3>4. ASSUME NEW amount \in Amounts, RequestWithdraw(u, amount) PROVE Kept
      <4>1. /\ CheckpointGlobal /\ CheckpointUsers({u}) /\ UNCHANGED usdcVars
            /\ balanceOf' = [balanceOf EXCEPT ![u] = balanceOf[u] - amount]
        BY <3>4 DEF RequestWithdraw, BurnShares
      <4> QED  BY <2>1, <3>1, <3>2, <4>1, CheckpointEntitlement
    <3>5. ASSUME NEW amount \in Amounts, NEW to \in Users, Transfer(u, to, amount)
          PROVE  Kept
      <4>1. /\ CheckpointGlobal /\ CheckpointUsers({u, to}) /\ UNCHANGED usdcVars
            /\ balanceOf' = [[balanceOf EXCEPT ![u] = @ - amount] EXCEPT ![to] = @ + amount]
        BY <3>5 DEF Transfer, MoveShares
      <4>2. \A w \in Users \ {u, to} : balanceOf'[w] = balanceOf[w]
        BY <2>1, <4>1
      <4>3. {u, to} \in SUBSET Users
        OBVIOUS
      <4> QED  BY <2>1, <4>1, <4>2, <4>3, CheckpointEntitlement
    <3>6. CASE \E amount \in Donations : DonateDiem(u, amount)
      BY <3>6, UnchangedEntitlement DEF DonateDiem
    <3>7. CASE CompleteWithdraw(u)
      BY <3>7, UnchangedEntitlement DEF CompleteWithdraw
    <3>8. CASE CancelWithdraw(u)
      <4>1. /\ CheckpointGlobal /\ CheckpointUsers({u}) /\ UNCHANGED usdcVars
            /\ balanceOf' = [balanceOf EXCEPT ![u] = balanceOf[u] + request[u].amount]
        BY <3>8 DEF CancelWithdraw, Mint
      <4> QED  BY <2>1, <3>1, <3>2, <4>1, CheckpointEntitlement
    <3>9. CASE ClaimReward(u) \/ ClaimRewardTo(u)
      <4>1. PICK paid \in BOOLEAN : PayReward(u, paid)
        BY <3>9 DEF ClaimReward, ClaimRewardTo
      <4>2. CheckpointGlobal /\ balanceOf' = balanceOf
        BY <3>9 DEF ClaimReward, ClaimRewardTo, shareVars
      <4> QED  BY <2>1, <4>1, <4>2, ClaimEntitlement
    <3>10. CASE Exit(u)
      <4>1. PICK paid \in BOOLEAN : PayReward(u, paid)
        BY <3>10 DEF Exit
      <4>2. /\ CheckpointGlobal
            /\ balanceOf' = [balanceOf EXCEPT ![u] = balanceOf[u] - balanceOf[u]]
        BY <3>10 DEF Exit, BurnShares
      <4> QED  BY <2>1, <3>1, <4>1, <4>2, ClaimEntitlement
    <3> QED  BY <2>3, <3>3, <3>4, <3>5, <3>6, <3>7, <3>8, <3>9, <3>10 DEF UserStep
  <2>4. ASSUME ClaimFromVenice \/ InitiateVeniceUnstake \/ RedeployExcess PROVE Kept
    BY <2>4, UnchangedEntitlement
    DEF ClaimFromVenice, InitiateVeniceUnstake, RedeployExcess
  <2>5. ASSUME NEW m \in Managers, ManagerStep(m) PROVE Kept
    <3>1. ASSUME NEW reward \in RewardAmounts, NotifyRewardAmount(m, reward) PROVE Kept
      BY <2>1, <3>1, NotifyEntitlement
    <3>2. ASSUME \/ \E value \in Pauses : SetPaused(m, value)
                 \/ \E to \in Candidates : SetOperator(m, to) \/ TransferAdmin(m, to)
                 \/ AcceptAdmin(m)
          PROVE  Kept
      BY <3>2, UnchangedEntitlement DEF SetPaused, SetOperator, TransferAdmin, AcceptAdmin
    <3> QED  BY <2>5, <3>1, <3>2 DEF ManagerStep
  <2>6. Kept \/ Tick
    BY <2>3, <2>4, <2>5 DEF Next
  <2> QED  BY <2>2, <2>6
<1> QED  BY <1>1, RewardInvariant, PTL DEF Spec, OnlyTimeEarns
-----------------------------------------------------------------------------
(***************************************************************************)
(* SDiemV1: the stored counter never forgets DIEM that is owed.            *)
(***************************************************************************)

\* What is owed is covered by a pool and a counter.
Covers(p, n, owed) == owed <= p.liquid + p.pending + n

\* _tryInitiateVeniceUnstake for a counter of n: DIEM and cover are kept, the
\* cap included; something is liquid or pending whenever anything is owed; and
\* a running cooldown is left alone.
LEMMA AfterInitiatePool ==
  ASSUME NEW p \in Pools, NEW n \in Nat, NEW owed \in Nat,
         owed <= Holdings(p), Covers(p, n, owed)
  PROVE  /\ AfterInitiate(p, n) \in Pools
         /\ Holdings(AfterInitiate(p, n)) = Holdings(p)
         /\ LeftAfter(p, n) \in Nat
         /\ Covers(AfterInitiate(p, n), LeftAfter(p, n), owed)
         /\ owed > 0 => AfterInitiate(p, n).liquid + AfterInitiate(p, n).pending > 0
         /\ CooldownRunning(p) => AfterInitiate(p, n) = p
<1> DEFINE c == IF n > 0 /\ Matured(p) THEN Unstake(p) ELSE p
           k == Initiable(p, n)
<1>1. /\ c \in Pools /\ Holdings(c) = Holdings(p)
      /\ c.liquid + c.pending = p.liquid + p.pending
  BY UnstakePool DEF Pools
<1>2. /\ p.liquid \in Nat /\ p.pending \in Nat /\ p.staked \in Nat
      /\ c.liquid \in Nat /\ c.pending \in Nat /\ c.staked \in Nat
      /\ c.staked = p.staked
  <2>1. c.staked = p.staked
    BY DEF Unstake
  <2> HIDE DEF c
  <2> QED  BY <1>1, <2>1 DEF Pools
<1>3. k = IF CooldownRunning(p) THEN 0 ELSE IF n < p.staked THEN n ELSE p.staked
  BY DEF Initiable, Min2
<1>4. AfterInitiate(p, n) = IF k = 0 THEN c ELSE InitiateUnstake(c, k)
  BY DEF AfterInitiate
<1>5. LeftAfter(p, n) = n - k
  BY DEF LeftAfter
<1>6. CooldownRunning(p) => c = p /\ p.pending > 0
  BY DEF CooldownRunning, Matured
<1> HIDE DEF c, k
<1>7. k \in Nat /\ k <= n /\ k <= c.staked
  BY <1>2, <1>3
<1> DEFINE q == IF k = 0 THEN c ELSE InitiateUnstake(c, k)
<1>8. /\ q \in Pools /\ Holdings(q) = Holdings(p)
      /\ q.liquid + q.pending = p.liquid + p.pending + k
  <2>1. CASE k = 0
    BY <1>1, <1>2, <2>1
  <2>2. CASE k # 0
    <3>1. /\ c.pending + k \in Nat /\ c.staked - k \in Nat
          /\ VeniceCooldown \in 0..VeniceCooldown
      BY <1>2, <1>7, VeniceCooldownAssumption
    <3>2. InitiateUnstake(c, k) \in Pools
      BY <1>2, <3>1 DEF Pools, InitiateUnstake
    <3>3. /\ InitiateUnstake(c, k).liquid = c.liquid
          /\ InitiateUnstake(c, k).pending = c.pending + k
          /\ InitiateUnstake(c, k).staked = c.staked - k
      BY DEF InitiateUnstake
    <3>4. q = InitiateUnstake(c, k)
      BY <2>2
    <3> HIDE DEF q
    <3> QED  BY <1>1, <1>2, <1>7, <3>2, <3>3, <3>4 DEF Holdings
  <2> QED  BY <2>1, <2>2
<1>9. CooldownRunning(p) => q = p
  BY <1>3, <1>6
<1>10. AfterInitiate(p, n) = q
  BY <1>4
<1>11. q.liquid \in Nat /\ q.pending \in Nat
  BY <1>8 DEF Pools
<1> HIDE DEF q
<1>12. Covers(q, n - k, owed) /\ n - k \in Nat
  BY <1>2, <1>7, <1>8, <1>11 DEF Covers
<1>13. owed > 0 => q.liquid + q.pending > 0
  <2>1. CASE CooldownRunning(p)
    BY <1>2, <1>6, <1>9, <2>1
  <2>2. CASE ~CooldownRunning(p)
    <3>1. k = n \/ k = p.staked
      BY <1>3, <2>2
    <3> QED  BY <1>2, <1>8, <3>1 DEF Covers, Holdings
  <2> QED  BY <2>1, <2>2
<1> QED  BY <1>5, <1>8, <1>9, <1>10, <1>12, <1>13
-----------------------------------------------------------------------------
(***************************************************************************)
(* The inductive invariant: that of sDIEMv2 and the cover of the counter.  *)
(* CounterCovers alone is not inductive, because a cancellation clamps the *)
(* counter to what is staked: by Backing that still covers what is owed.   *)
(* NeverStalled needs CounterCovers: when the counter is used up, what is  *)
(* liquid or pending covers the rest.                                      *)
(***************************************************************************)
V1Inv ==
  /\ DiemInv
  /\ totalPendingNotInitiated \in Nat
  /\ CounterCovers

LEMMA V1Start == V1Init => V1Inv
<1> SUFFICES ASSUME V1Init PROVE V1Inv
  OBVIOUS
<1>1. DiemInv
  BY DiemInit DEF V1Init
<1>2. totalPendingNotInitiated \in Nat /\ CounterCovers
  BY DEF V1Init, Init, CounterCovers, EmptyPool
<1> QED  BY <1>1, <1>2 DEF V1Inv

\* The facts every step starts from.
LEMMA V1Facts ==
  ASSUME V1Inv
  PROVE  /\ DiemInv /\ pool \in Pools /\ totalPendingNotInitiated \in Nat
         /\ totalPendingWithdrawals \in Nat /\ totalSupply \in Nat /\ donated \in Nat
         /\ totalPendingWithdrawals + totalSupply <= Holdings(pool)
         /\ Covers(pool, totalPendingNotInitiated, totalPendingWithdrawals)
         /\ pool.liquid \in Nat /\ pool.staked \in Nat /\ pool.pending \in Nat
<1>1. DiemInv /\ pool \in Pools /\ totalPendingNotInitiated \in Nat
  BY DEF V1Inv, DiemInv, DiemTypeOK
<1>2. pool.liquid \in Nat /\ pool.staked \in Nat /\ pool.pending \in Nat
  BY <1>1 DEF Pools
<1>3. Covers(pool, totalPendingNotInitiated, totalPendingWithdrawals)
  BY <1>1, <1>2, OwedIsHeld DEF V1Inv, CounterCovers, Covers
<1> QED  BY <1>1, <1>2, <1>3, OwedIsHeld

\* From the cover of the next state to the invariant's own form of it.
LEMMA V1Successor ==
  ASSUME DiemInv', totalPendingNotInitiated' \in Nat,
         Covers(pool', totalPendingNotInitiated', totalPendingWithdrawals')
  PROVE  V1Inv'
<1>1. /\ pool'.liquid \in Nat /\ pool'.pending \in Nat /\ totalPendingWithdrawals' \in Nat
  BY DEF DiemInv, DiemTypeOK, Pools
<1> QED  BY <1>1 DEF V1Inv, CounterCovers, Covers
-----------------------------------------------------------------------------
(* One lemma per function of the queue.                                    *)

LEMMA EnqueueV1Step ==
  ASSUME V1Inv, NEW u \in Users, NEW amount \in Nat,
         BurnShares(u, amount), EnqueueV1(u, amount), UNCHANGED <<wallet, donated>>
  PROVE  V1Inv'
<1> DEFINE owed == totalPendingWithdrawals + amount
           n == totalPendingNotInitiated + amount
<1>1. /\ balanceOf \in [Users -> Nat] /\ request \in [Users -> Requests]
      /\ wallet \in [Users -> Nat] /\ amount <= balanceOf[u] /\ balanceOf[u] <= totalSupply
  BY V1Facts, EntryBelowTotal DEF DiemInv, DiemTypeOK, BurnShares
<1>2. /\ balanceOf' \in [Users -> Nat] /\ totalSupply' = totalSupply - amount
      /\ totalSupply' \in Nat /\ IsTotal(balanceOf', totalSupply')
  <2>1. balanceOf[u] + (-amount) \in Nat /\ balanceOf[u] + (-amount) = balanceOf[u] - amount
        /\ totalSupply + (-amount) = totalSupply - amount /\ -amount \in Int
    BY <1>1, V1Facts
  <2>2. /\ balanceOf' = [balanceOf EXCEPT ![u] = @ + (-amount)]
        /\ totalSupply' = totalSupply + (-amount)
    BY <1>1, <2>1 DEF BurnShares
  <2> QED  BY <2>1, <2>2, ShareChange, V1Facts
<1>3. /\ request' \in [Users -> Requests] /\ totalPendingWithdrawals' = owed
      /\ totalPendingWithdrawals' \in Nat /\ IsTotal(Queued', totalPendingWithdrawals')
  <2>1. request[u].amount + amount \in Nat /\ amount \in Int /\ WithdrawalDelay \in 0..WithdrawalDelay
    BY <1>1, ParametersAssumption DEF Requests
  <2> QED  BY <2>1, QueueChange, V1Facts DEF EnqueueV1
<1>4. owed \in Nat /\ n \in Nat /\ owed <= Holdings(pool) /\ Covers(pool, n, owed)
  <2>1. Holdings(pool) \in Nat
    BY V1Facts, OwedIsHeld
  <2> QED  BY <1>1, <2>1, V1Facts DEF Covers
<1>5. /\ pool' \in Pools /\ Holdings(pool') = Holdings(pool)
      /\ totalPendingNotInitiated' \in Nat
      /\ Covers(pool', totalPendingNotInitiated', owed)
      /\ owed > 0 => pool'.liquid + pool'.pending > 0
  <2>1. pool' = AfterInitiate(pool, n) /\ totalPendingNotInitiated' = LeftAfter(pool, n)
    BY DEF EnqueueV1
  <2>2. pool \in Pools
    BY V1Facts
  <2> HIDE DEF owed, n
  <2> QED  BY <1>4, <2>1, <2>2, AfterInitiatePool
<1>6. DiemTypeOK'
  BY <1>1, <1>2, <1>3, <1>5, V1Facts DEF DiemTypeOK
<1>7. Backing' /\ NeverStalled'
  <2>1. Backing /\ Holdings(pool) \in Nat
    BY V1Facts, OwedIsHeld DEF DiemInv
  <2> QED  BY <2>1, <1>1, <1>2, <1>3, <1>5, V1Facts DEF Backing, NeverStalled
<1>8. DiemInv'
  BY <1>2, <1>3, <1>6, <1>7 DEF DiemInv
<1> QED  BY <1>3, <1>5, <1>8, V1Successor

LEMMA CompleteWithdrawV1Step ==
  ASSUME V1Inv, NEW u \in Users, CompleteWithdrawV1(u)
  PROVE  V1Inv'
<1> DEFINE amount == request[u].amount
           owed == totalPendingWithdrawals
           n == totalPendingNotInitiated
           first == AfterInitiate(pool, n)
           left == LeftAfter(pool, n)
           funded == IF first.liquid < amount /\ Matured(first)
                     THEN Unstake(first) ELSE first
           payout == Min2(amount, funded.liquid)
           paid == PayOut(funded, payout)
<1>1. /\ balanceOf \in [Users -> Nat] /\ pool \in Pools /\ request \in [Users -> Requests]
      /\ wallet \in [Users -> Nat] /\ amount \in Nat /\ totalSupply \in Nat
      /\ donated \in Nat /\ owed \in Nat /\ n \in Nat /\ Holdings(pool) \in Nat
      /\ owed <= Holdings(pool) /\ Covers(pool, n, owed)
  BY V1Facts, OwedIsHeld DEF DiemInv, DiemTypeOK, Requests
<1>2. /\ first \in Pools /\ Holdings(first) = Holdings(pool)
      /\ left \in Nat /\ Covers(first, left, owed)
  <2> HIDE DEF owed, n
  <2> QED  BY <1>1, AfterInitiatePool
<1>3. /\ funded \in Pools /\ Holdings(funded) = Holdings(pool) /\ Covers(funded, left, owed)
  <2> HIDE DEF first, left
  <2>1. /\ Unstake(first) \in Pools /\ Holdings(Unstake(first)) = Holdings(first)
        /\ Unstake(first).liquid + Unstake(first).pending = first.liquid + first.pending
    BY <1>2, UnstakePool DEF Pools
  <2> QED  BY <1>2, <2>1 DEF Covers
<1>4. /\ payout > 0 /\ Dequeue(u, payout) /\ wallet' = [wallet EXCEPT ![u] = @ + payout]
      /\ pool' = AfterInitiate(paid, left)
      /\ totalPendingNotInitiated' = LeftAfter(paid, left)
      /\ UNCHANGED <<donated, balanceOf, totalSupply>>
  BY DEF CompleteWithdrawV1, InitiateOnComplete, shareVars
<1>5. payout \in Nat /\ payout <= amount /\ payout <= funded.liquid
  <2> HIDE DEF funded, amount
  <2> QED  BY <1>1, <1>3 DEF Min2, Pools
<1>6. amount <= owed
  <2>1. Queued \in [Users -> Nat] /\ Queued[u] = amount /\ IsTotal(Queued, owed)
    BY <1>1, V1Facts DEF DiemInv, Queued, Requests
  <2> QED  BY <2>1, EntryBelowTotal
<1> HIDE DEF funded, payout, left, first
<1>7. /\ request' \in [Users -> Requests] /\ totalPendingWithdrawals' = owed - payout
      /\ totalPendingWithdrawals' \in Nat /\ IsTotal(Queued', totalPendingWithdrawals')
  <2>1. /\ -payout \in Int /\ request[u].amount + (-payout) \in Nat
        /\ request[u].amount + (-payout) = request[u].amount - payout
        /\ 0 \in 0..WithdrawalDelay /\ totalPendingWithdrawals + (-payout) = owed - payout
    BY <1>1, <1>5, ParametersAssumption
  <2>2. /\ request' = [request EXCEPT ![u] = [amount |-> @.amount + (-payout), wait |-> 0]]
        /\ totalPendingWithdrawals' = totalPendingWithdrawals + (-payout)
    BY <1>4, <2>1 DEF Dequeue
  <2> QED  BY <2>1, <2>2, QueueChange, V1Facts
<1>8. wallet' \in [Users -> Nat]
  BY <1>1, <1>4, <1>5
<1>9. /\ paid \in Pools /\ Holdings(paid) = Holdings(pool) - payout
      /\ paid.liquid = funded.liquid - payout /\ paid.pending = funded.pending
  <2>1. paid.pending = funded.pending
    BY <1>3 DEF PayOut, Pools
  <2> QED  BY <1>3, <1>5, <2>1, MovePool
<1> HIDE DEF paid
<1>10. /\ owed - payout \in Nat /\ owed - payout <= Holdings(paid)
       /\ Covers(paid, left, owed - payout)
  <2>1. funded.liquid \in Nat /\ funded.pending \in Nat
    BY <1>3 DEF Pools
  <2> QED  BY <1>1, <1>2, <1>3, <1>5, <1>6, <1>9, <2>1 DEF Covers
<1>11. /\ pool' \in Pools /\ Holdings(pool') = Holdings(pool) - payout
       /\ totalPendingNotInitiated' \in Nat
       /\ Covers(pool', totalPendingNotInitiated', owed - payout)
       /\ owed - payout > 0 => pool'.liquid + pool'.pending > 0
  <2> DEFINE rest == owed - payout
  <2>1. rest \in Nat /\ rest <= Holdings(paid) /\ Covers(paid, left, rest)
    BY <1>10
  <2> HIDE DEF rest
  <2>2. /\ AfterInitiate(paid, left) \in Pools
        /\ Holdings(AfterInitiate(paid, left)) = Holdings(paid)
        /\ LeftAfter(paid, left) \in Nat
        /\ Covers(AfterInitiate(paid, left), LeftAfter(paid, left), rest)
        /\ rest > 0 => AfterInitiate(paid, left).liquid + AfterInitiate(paid, left).pending > 0
    BY <1>2, <1>9, <2>1, AfterInitiatePool
  <2> QED  BY <1>4, <1>9, <2>2 DEF rest
<1>12. DiemTypeOK'
  BY <1>1, <1>4, <1>7, <1>8, <1>11 DEF DiemTypeOK
<1>13. Backing' /\ NeverStalled'
  <2>1. Backing
    BY V1Facts DEF DiemInv
  <2> QED  BY <2>1, <1>1, <1>4, <1>5, <1>7, <1>11 DEF Backing, NeverStalled
<1>14. IsTotal(balanceOf', totalSupply')
  BY <1>4, V1Facts DEF DiemInv
<1>15. DiemInv'
  BY <1>7, <1>12, <1>13, <1>14 DEF DiemInv
<1> QED  BY <1>7, <1>11, <1>15, V1Successor

\* What the user may have had in the counter is taken out; the clamp to what is
\* staked leaves enough, because everything owed is held.
LEMMA CancelWithdrawV1Step ==
  ASSUME V1Inv, NEW u \in Users, CancelWithdrawV1(u)
  PROVE  V1Inv'
<1> DEFINE amount == request[u].amount
           n == totalPendingNotInitiated
<1>1. amount \in Nat /\ amount <= totalPendingWithdrawals
  <2>1. request \in [Users -> Requests] /\ IsTotal(Queued, totalPendingWithdrawals)
    BY V1Facts DEF DiemInv, DiemTypeOK
  <2>2. Queued \in [Users -> Nat] /\ Queued[u] = amount /\ amount \in Nat
    BY <2>1 DEF Queued, Requests
  <2> QED  BY <2>1, <2>2, EntryBelowTotal
<1>2. CancelWithdraw(u)
  BY DEF CancelWithdrawV1, CancelWithdraw
<1>3. DiemInv'
  BY <1>2, CancelWithdrawStep, V1Facts
<1>4. /\ pool' = pool /\ totalPendingWithdrawals' = totalPendingWithdrawals - amount
      /\ totalPendingNotInitiated' = Min2(n - Min2(amount, n), pool.staked)
  BY DEF CancelWithdrawV1, Dequeue, diemVars
<1> HIDE DEF amount
<1>5. totalPendingNotInitiated' \in Nat
  BY <1>1, <1>4, V1Facts DEF Min2
<1>6. Covers(pool', totalPendingNotInitiated', totalPendingWithdrawals')
  BY <1>1, <1>4, V1Facts DEF Min2, Covers, Holdings
<1> QED  BY <1>3, <1>5, <1>6, V1Successor

LEMMA InitiateV1Step ==
  ASSUME V1Inv, InitiateVeniceUnstakeV1
  PROVE  V1Inv'
<1> DEFINE owed == totalPendingWithdrawals
           n == totalPendingNotInitiated
<1>1. /\ pool' = AfterInitiate(pool, n) /\ totalPendingNotInitiated' = LeftAfter(pool, n)
      /\ UNCHANGED <<wallet, donated, shareVars, queueVars>>
  BY DEF InitiateVeniceUnstakeV1
<1>2. pool \in Pools /\ n \in Nat /\ owed \in Nat /\ owed <= Holdings(pool)
      /\ Covers(pool, n, owed)
  BY V1Facts, OwedIsHeld
<1> HIDE DEF n, owed
<1>3. /\ pool' \in Pools /\ Holdings(pool') = Holdings(pool)
      /\ totalPendingNotInitiated' \in Nat /\ Covers(pool', totalPendingNotInitiated', owed)
      /\ owed > 0 => pool'.liquid + pool'.pending > 0
  BY <1>1, <1>2, AfterInitiatePool
<1>4. DiemInv'
  BY <1>1, <1>3, PoolStep, V1Facts DEF owed
<1>5. totalPendingWithdrawals' = owed
  BY <1>1 DEF owed, queueVars
<1> QED  BY <1>3, <1>4, <1>5, V1Successor
-----------------------------------------------------------------------------
(* The functions that never look at the counter.                           *)

\* A step of sDIEMv2 that owes nobody more keeps the cover as long as liquid
\* and pending DIEM together do not shrink.
LEMMA SameCover ==
  ASSUME V1Inv, DiemInv', UNCHANGED <<totalPendingNotInitiated, totalPendingWithdrawals>>,
         pool'.liquid + pool'.pending >= pool.liquid + pool.pending
  PROVE  V1Inv'
<1>1. pool'.liquid \in Nat /\ pool'.pending \in Nat
  BY DEF DiemInv, DiemTypeOK, Pools
<1>2. /\ totalPendingNotInitiated' \in Nat
      /\ Covers(pool', totalPendingNotInitiated', totalPendingWithdrawals')
  BY <1>1, V1Facts DEF Covers
<1> QED  BY <1>2, V1Successor

LEMMA StakeV1Step ==
  ASSUME V1Inv, NEW u \in Users, NEW amount \in Nat, StakeV1(u, amount)
  PROVE  V1Inv'
<1>1. StakeDiem(u, amount) /\ UNCHANGED totalPendingNotInitiated
  BY DEF StakeV1, SameAsV2
<1>2. DiemInv'
  BY <1>1, StakeDiemStep, V1Facts
<1>3. pool'.liquid = (pool.liquid + amount) - amount /\ pool'.pending = pool.pending
  BY <1>1, V1Facts DEF StakeDiem, Stake, Receive, Pools
<1>4. totalPendingWithdrawals' = totalPendingWithdrawals
  BY <1>1 DEF StakeDiem, queueVars
<1> QED  BY <1>1, <1>2, <1>3, <1>4, SameCover, V1Facts

LEMMA DonateV1Step ==
  ASSUME V1Inv, NEW u \in Users, NEW amount \in Nat, DonateDiemV1(u, amount)
  PROVE  V1Inv'
<1>1. DonateDiem(u, amount) /\ UNCHANGED totalPendingNotInitiated
  BY DEF DonateDiemV1, SameAsV2
<1>2. DiemInv'
  BY <1>1, DonateDiemStep, V1Facts
<1>3. pool'.liquid = pool.liquid + amount /\ pool'.pending = pool.pending
  BY <1>1, MovePool, V1Facts DEF DonateDiem
<1>4. totalPendingWithdrawals' = totalPendingWithdrawals
  BY <1>1 DEF DonateDiem, queueVars
<1> QED  BY <1>1, <1>2, <1>3, <1>4, SameCover, V1Facts

LEMMA ClaimFromVeniceV1Step ==
  ASSUME V1Inv, ClaimFromVeniceV1
  PROVE  V1Inv'
<1>1. ClaimFromVenice /\ UNCHANGED totalPendingNotInitiated
  BY DEF ClaimFromVeniceV1, SameAsV2
<1>2. DiemInv'
  BY <1>1, VeniceStep, V1Facts
<1>3. pool'.liquid = pool.liquid + pool.pending /\ pool'.pending = 0
  BY <1>1, UnstakePool, V1Facts DEF ClaimFromVenice
<1>4. totalPendingWithdrawals' = totalPendingWithdrawals
  BY <1>1 DEF ClaimFromVenice, queueVars
<1> QED  BY <1>1, <1>2, <1>3, <1>4, SameCover, V1Facts

\* All that is owed stays liquid.
LEMMA RedeployV1Step ==
  ASSUME V1Inv, RedeployExcessV1
  PROVE  V1Inv'
<1>1. RedeployExcess /\ UNCHANGED totalPendingNotInitiated
  BY DEF RedeployExcessV1, SameAsV2
<1>2. DiemInv'
  BY <1>1, VeniceStep, V1Facts
<1>3. /\ pool'.liquid = pool.liquid - (pool.liquid - totalPendingWithdrawals)
      /\ pool'.pending = pool.pending /\ totalPendingWithdrawals' = totalPendingWithdrawals
  BY <1>1 DEF RedeployExcess, Stake, queueVars
<1>4. /\ totalPendingNotInitiated' \in Nat
      /\ Covers(pool', totalPendingNotInitiated', totalPendingWithdrawals')
  BY <1>1, <1>3, V1Facts DEF Covers
<1> QED  BY <1>2, <1>4, V1Successor

LEMMA TickV1Step ==
  ASSUME V1Inv, TickV1
  PROVE  V1Inv'
<1>1. Tick /\ UNCHANGED totalPendingNotInitiated
  BY DEF TickV1, SameAsV2
<1>2. DiemInv'
  BY <1>1, TickStep, V1Facts
<1>3. /\ pool'.liquid = pool.liquid /\ pool'.pending = pool.pending
      /\ totalPendingWithdrawals' = totalPendingWithdrawals
  BY <1>1, MovePool, V1Facts DEF Tick
<1> QED  BY <1>1, <1>2, <1>3, SameCover, V1Facts

\* Steps that touch neither the DIEM nor the counter.
LEMMA V1Unchanged ==
  ASSUME V1Inv, UNCHANGED <<diemVars, shareVars, queueVars, totalPendingNotInitiated>>
  PROVE  V1Inv'
<1>1. DiemInv'
  BY DiemUnchanged, V1Facts
<1> QED  BY <1>1, SameCover, V1Facts DEF diemVars, queueVars

LEMMA V1NextStep == V1Inv /\ [V1Next]_v1Vars => V1Inv'
<1> SUFFICES ASSUME V1Inv, [V1Next]_v1Vars PROVE V1Inv'
  OBVIOUS
<1>1. CASE UNCHANGED v1Vars
  BY <1>1, V1Unchanged DEF v1Vars, vars
<1>2. CASE TickV1
  BY <1>2, TickV1Step
<1>3. ASSUME NEW u \in Users, V1UserStep(u) PROVE V1Inv'
  <2>1. Amounts \subseteq Nat /\ Donations \subseteq Nat
    BY AmountsAssumption
  <2>2. ASSUME NEW amount \in Amounts, StakeV1(u, amount) PROVE V1Inv'
    BY <2>1, <2>2, StakeV1Step
  <2>3. ASSUME NEW amount \in Amounts, RequestWithdrawV1(u, amount) PROVE V1Inv'
    BY <2>1, <2>3, EnqueueV1Step DEF RequestWithdrawV1
  <2>4. ASSUME NEW amount \in Donations, DonateDiemV1(u, amount) PROVE V1Inv'
    BY <2>1, <2>4, DonateV1Step
  <2>5. CASE CompleteWithdrawV1(u)
    BY <2>5, CompleteWithdrawV1Step
  <2>6. CASE CancelWithdrawV1(u)
    BY <2>6, CancelWithdrawV1Step
  <2>7. CASE ClaimRewardV1(u) \/ ClaimRewardToV1(u)
    BY <2>7, V1Unchanged
    DEF ClaimRewardV1, ClaimRewardToV1, SameAsV2, ClaimReward, ClaimRewardTo
  <2>8. CASE ExitV1(u)
    <3>1. balanceOf \in [Users -> Nat] /\ totalSupply \in Nat
      BY V1Facts DEF DiemInv, DiemTypeOK
    <3>2. CASE balanceOf[u] > 0
      <4>1. /\ BurnShares(u, balanceOf[u]) /\ EnqueueV1(u, balanceOf[u])
            /\ UNCHANGED <<wallet, donated>>
        BY <2>8, <3>2 DEF ExitV1
      <4> QED  BY <3>1, <4>1, EnqueueV1Step
    <3>3. CASE ~(balanceOf[u] > 0)
      <4>1. balanceOf[u] = 0
        BY <3>1, <3>3
      <4>2. UNCHANGED <<wallet, donated, pool, queueVars, totalPendingNotInitiated>>
        BY <2>8, <3>3 DEF ExitV1
      <4>3. balanceOf' = balanceOf /\ totalSupply' = totalSupply
        BY <2>8, <3>1, <4>1 DEF ExitV1, BurnShares
      <4> QED  BY <4>2, <4>3, V1Unchanged DEF diemVars, shareVars
    <3> QED  BY <3>2, <3>3
  <2> QED  BY <1>3, <2>2, <2>3, <2>4, <2>5, <2>6, <2>7, <2>8 DEF V1UserStep
<1>4. CASE ClaimFromVeniceV1
  BY <1>4, ClaimFromVeniceV1Step
<1>5. CASE InitiateVeniceUnstakeV1
  BY <1>5, InitiateV1Step
<1>6. CASE RedeployExcessV1
  BY <1>6, RedeployV1Step
<1>7. ASSUME NEW m \in Managers, V1ManagerStep(m) PROVE V1Inv'
  <2>1. UNCHANGED <<diemVars, shareVars, queueVars, totalPendingNotInitiated>>
    BY <1>7 DEF V1ManagerStep, SameAsV2, NotifyRewardAmountV1, SetPausedV1, SetOperatorV1,
                TransferAdminV1, AcceptAdminV1, NotifyRewardAmount, StartPeriod, SetPaused,
                SetOperator, TransferAdmin, AcceptAdmin
  <2> QED  BY <2>1, V1Unchanged
<1> QED  BY <1>1, <1>2, <1>3, <1>4, <1>5, <1>6, <1>7 DEF V1Next
-----------------------------------------------------------------------------
LEMMA V1Invariant == V1Spec => []V1Inv
<1> QED  BY V1Start, V1NextStep, PTL DEF V1Spec

\* sDIEM v1's stored counter never forgets DIEM that somebody waits for, through
\* any mix of requests, capped initiations, cancellations and partial payouts.
THEOREM CounterCoversHolds == V1Spec => []CounterCovers
<1>1. V1Inv => CounterCovers
  BY DEF V1Inv
<1> QED  BY <1>1, V1Invariant, PTL

\* sDIEM v1 controls the DIEM it owes, and its queue never waits for an
\* initiation that has yet to be made.
THEOREM V1BackingHolds == V1Spec => [](Backing /\ NeverStalled)
<1>1. V1Inv => Backing /\ NeverStalled
  BY DEF V1Inv, DiemInv
<1> QED  BY <1>1, V1Invariant, PTL
-----------------------------------------------------------------------------
(***************************************************************************)
(* The ledger and the rewards.  A step of the first contract is one of     *)
(* sDIEMv2, but for the four functions that initiate by the counter; those *)
(* differ from their namesakes in the pool and the counter alone.          *)
(***************************************************************************)
LEMMA V1StepKinds ==
  ASSUME [V1Next]_v1Vars
  PROVE  \/ [Next]_vars
         \/ \E u \in Users : \/ \E amount \in Amounts : RequestWithdrawV1(u, amount)
                             \/ CompleteWithdrawV1(u)
                             \/ ExitV1(u)
         \/ InitiateVeniceUnstakeV1
<1>1. CASE UNCHANGED v1Vars
  BY <1>1 DEF v1Vars
<1>2. CASE TickV1 \/ ClaimFromVeniceV1 \/ RedeployExcessV1
  BY <1>2 DEF TickV1, ClaimFromVeniceV1, RedeployExcessV1, SameAsV2, Next
<1>3. ASSUME NEW u \in Users,
             \/ \E amount \in Amounts : StakeV1(u, amount)
             \/ \E amount \in Donations : DonateDiemV1(u, amount)
             \/ CancelWithdrawV1(u) \/ ClaimRewardV1(u) \/ ClaimRewardToV1(u)
      PROVE  UserStep(u)
  <2>1. CancelWithdrawV1(u) => CancelWithdraw(u)
    BY DEF CancelWithdrawV1, CancelWithdraw
  <2> QED  BY <1>3, <2>1
           DEF StakeV1, DonateDiemV1, ClaimRewardV1, ClaimRewardToV1, SameAsV2, UserStep
<1>4. ASSUME NEW m \in Managers, V1ManagerStep(m) PROVE ManagerStep(m)
  BY <1>4 DEF V1ManagerStep, ManagerStep, NotifyRewardAmountV1, SetPausedV1, SetOperatorV1,
              TransferAdminV1, AcceptAdminV1, SameAsV2
<1> QED  BY <1>1, <1>2, <1>3, <1>4 DEF V1Next, V1UserStep, Next

\* What completeWithdraw pays is some part of the entry.
LEMMA PayoutV1 ==
  ASSUME V1Inv, NEW u \in Users, CompleteWithdrawV1(u)
  PROVE  \E payout \in Nat \ {0} :
            /\ payout <= request[u].amount /\ request[u].wait = 0
            /\ Dequeue(u, payout) /\ wallet' = [wallet EXCEPT ![u] = @ + payout]
            /\ UNCHANGED balanceOf
<1> DEFINE amount == request[u].amount
           first == AfterInitiate(pool, totalPendingNotInitiated)
           funded == IF first.liquid < amount /\ Matured(first)
                     THEN Unstake(first) ELSE first
           payout == Min2(amount, funded.liquid)
<1>1. /\ amount > 0 /\ request[u].wait = 0 /\ payout > 0 /\ Dequeue(u, payout)
      /\ wallet' = [wallet EXCEPT ![u] = @ + payout] /\ UNCHANGED balanceOf
  BY DEF CompleteWithdrawV1, InitiateOnComplete, shareVars
<1>2. amount \in Nat
  BY V1Facts DEF DiemInv, DiemTypeOK, Requests
<1>3. first \in Pools
  <2>1. totalPendingWithdrawals <= Holdings(pool)
    BY V1Facts, OwedIsHeld
  <2> QED  BY <2>1, V1Facts, AfterInitiatePool
<1>4. funded.liquid \in Nat
  <2> HIDE DEF first
  <2>1. funded \in Pools
    BY <1>3, UnstakePool
  <2> QED  BY <2>1 DEF Pools
<1> HIDE DEF funded
<1>5. payout \in Nat \ {0} /\ payout <= amount
  <2> HIDE DEF amount
  <2> QED  BY <1>1, <1>2, <1>4 DEF Min2
<1> QED  BY <1>1, <1>5

LEMMA V1LedgerNext ==
  ASSUME V1Inv, [V1Next]_v1Vars
  PROVE  LedgerStep
<1>1. DiemInv /\ DiemTypeOK /\ balanceOf \in [Users -> Nat]
  BY V1Facts DEF DiemInv, DiemTypeOK
<1>2. CASE [Next]_vars
  BY <1>1, <1>2, LedgerNext
<1>3. ASSUME NEW u \in Users, NEW amount \in Amounts, RequestWithdrawV1(u, amount)
      PROVE  LedgerStep
  <2>1. amount \in Nat \ {0}
    BY AmountsAssumption
  <2> QED  BY <1>1, <1>3, <2>1, QueueLedger DEF RequestWithdrawV1, EnqueueV1
<1>4. ASSUME NEW u \in Users, CompleteWithdrawV1(u) PROVE LedgerStep
  BY <1>1, <1>4, PayoutV1, PayLedger
<1>5. ASSUME NEW u \in Users, ExitV1(u) PROVE LedgerStep
  <2>1. /\ BurnShares(u, balanceOf[u]) /\ UNCHANGED wallet
        /\ IF balanceOf[u] > 0
           THEN EnqueueV1(u, balanceOf[u])
           ELSE UNCHANGED <<queueVars, pool, totalPendingNotInitiated>>
    BY <1>5 DEF ExitV1
  <2>2. balanceOf[u] \in Nat
    BY <1>1
  <2>3. CASE balanceOf[u] > 0
    <3>1. balanceOf[u] \in Nat \ {0}
      BY <2>2, <2>3
    <3> QED  BY <1>1, <2>1, <2>3, <3>1, QueueLedger DEF EnqueueV1
  <2>4. CASE ~ balanceOf[u] > 0
    <3>1. balanceOf[u] = 0
      BY <2>2, <2>4
    <3> QED  BY <1>1, <2>1, <2>4, <3>1, NothingBurned DEF queueVars
  <2> QED  BY <2>3, <2>4
<1>6. CASE InitiateVeniceUnstakeV1
  BY <1>6, LedgerUnchanged DEF InitiateVeniceUnstakeV1
<1> QED  BY <1>2, <1>3, <1>4, <1>5, <1>6, V1StepKinds

\* The first contract keeps the same promises to its users as the second.
THEOREM V1LedgerImplemented == V1Spec => ImplementsLedger
<1>1. V1Inv /\ [V1Next]_v1Vars => [Ledger!Next]_(Ledger!ledgerVars)
  BY V1LedgerNext DEF LedgerStep, Ledger!ledgerVars
<1>2. V1Init => Ledger!Init
  BY LedgerInit DEF V1Init
<1> QED  BY <1>1, <1>2, V1Invariant, PTL DEF V1Spec, ImplementsLedger, Ledger!Spec

V1RewardInv == V1Inv /\ RewardTypeOK /\ Funded

LEMMA V1RewardNext == V1RewardInv /\ [V1Next]_v1Vars => V1RewardInv'
<1> SUFFICES ASSUME V1RewardInv, [V1Next]_v1Vars PROVE V1RewardInv'
  OBVIOUS
<1>1. V1Inv /\ RewardTypeOK /\ Funded /\ DiemInv /\ DiemTypeOK /\ V1Inv' /\ DiemTypeOK'
      /\ balanceOf \in [Users -> Nat]
  BY V1NextStep DEF V1RewardInv, V1Inv, DiemInv, DiemTypeOK
<1>2. SUFFICES RewardTypeOK' /\ Funded'
  BY <1>1 DEF V1RewardInv
<1>3. CASE [Next]_vars
  BY <1>1, <1>3, RewardNext DEF RewardInv
<1>4. ASSUME NEW u \in Users, NEW amount \in Amounts, RequestWithdrawV1(u, amount)
      PROVE  RewardTypeOK' /\ Funded'
  <2>1. /\ CheckpointGlobal /\ CheckpointUsers({u}) /\ UNCHANGED <<periodVars, usdcVars>>
        /\ \A v \in Users \ {u} : balanceOf'[v] = balanceOf[v]
    BY <1>1, <1>4 DEF RequestWithdrawV1, BurnShares
  <2>2. RewardTypeOK'
    BY <1>1, <2>1, CheckpointTypes
  <2>3. {u} \in SUBSET Users /\ u \in {u}
    OBVIOUS
  <2> QED  BY <1>1, <2>1, <2>2, <2>3, CheckpointFunds
<1>5. ASSUME NEW u \in Users, ExitV1(u) PROVE RewardTypeOK' /\ Funded'
  <2>1. PICK paid \in BOOLEAN : PayReward(u, paid)
    BY <1>5 DEF ExitV1
  <2>2. /\ CheckpointGlobal /\ UNCHANGED periodVars
        /\ \A v \in Users \ {u} : balanceOf'[v] = balanceOf[v]
    BY <1>1, <1>5 DEF ExitV1, BurnShares
  <2>3. RewardTypeOK'
    BY <1>1, <2>1, <2>2, ClaimTypes
  <2> QED  BY <1>1, <2>1, <2>2, <2>3, ClaimFunds
<1>6. ASSUME UNCHANGED <<shareVars, rewardVars, usdcVars>>
      PROVE  RewardTypeOK' /\ Funded'
  BY <1>1, <1>6, RewardUnchanged, FundedUnchanged
<1>7. ASSUME NEW u \in Users, CompleteWithdrawV1(u) PROVE RewardTypeOK' /\ Funded'
  BY <1>6, <1>7 DEF CompleteWithdrawV1
<1>8. CASE InitiateVeniceUnstakeV1
  BY <1>6, <1>8 DEF InitiateVeniceUnstakeV1
<1> QED  BY <1>3, <1>4, <1>5, <1>7, <1>8, V1StepKinds

\* The first contract, too, can always pay what every user has earned and the
\* rest of its reward period.
THEOREM V1SolvencyHolds == V1Spec => []Solvency
<1>1. V1Init => V1RewardInv
  <2>1. Init => RewardTypeOK
    BY ParametersAssumption, AmountsAssumption DEF Init, RewardTypeOK
  <2> QED  BY <2>1, V1Start, FundedInit DEF V1RewardInv, V1Init
<1>2. V1RewardInv => Solvency
  BY FundedIsSolvent DEF V1RewardInv, V1Inv
<1> QED  BY <1>1, <1>2, V1RewardNext, PTL DEF V1Spec
=============================================================================
