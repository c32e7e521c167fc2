------------------------- MODULE RelayClient_proofs -------------------------
(***************************************************************************)
(* TurnChargedOnce, TurnsComplete, LoginsLimited and MarginHolds of        *)
(* RelayClient, for any number of clients and addresses, any rate limit    *)
(* and window, and any number of broken connections and restarts.          *)
(*                                                                         *)
(* None of the four is inductive.  The limiter's invariant (WindowOK)      *)
(* splits the logins let in during one window's time into those of the     *)
(* window that is open and those before it.  The clients' (ClientOK)       *)
(* counts what a turn may still be charged, the handlers whose client is   *)
(* gone included: nothing, as long as another request can be made.         *)
(***************************************************************************)
EXTENDS RelayClient, SequenceTheorems, ArithmeticTheorems

Entries == [count : Nat, left : -1..Window]

\* The logins let in during the time from lo to hi units ago.
LetInDuring(r, lo, hi) == SumFunctionOnSet(r, lo..hi)

\* An entry e of the limiter and the logins r it has let in.  A window that is
\* open began Window - e.left units ago.
WindowOK(e, r) ==
  /\ e \in Entries /\ r \in [0..Window -> Nat]
  /\ e.left = -1 => r[0] = 0 /\ LetInDuring(r, 0, Window) <= Limit
  /\ e.left >= 0 =>
       /\ LetInDuring(r, 0, Window - e.left) <= e.count
       /\ LetInDuring(r, 0, Window - e.left) <= Limit
       /\ LetInDuring(r, Window - e.left + 1, Window) <= Limit

LimitOK ==
  /\ limiter \in [Ips -> Entries] /\ recent \in [Ips -> [0..Window -> Nat]]
  /\ \A ip \in Ips : WindowOK(limiter[ip], recent[ip])
-----------------------------------------------------------------------------
(* The rate limiter.                                                       *)

\* Sums over parts of the window.
LEMMA Parts ==
  ASSUME NEW r \in [0..Window -> Nat]
  PROVE  /\ Window \in Nat
         /\ \A a, b \in Nat : b <= Window => LetInDuring(r, a, b) \in Nat
         /\ \A b \in Nat : b <= Window =>
              LetInDuring(r, 0, b) = r[0] + LetInDuring(r, 1, b)
         /\ \A b \in Nat : b <= Window =>
              LetInDuring(r, 0, Window)
                = LetInDuring(r, 0, b) + LetInDuring(r, b + 1, Window)
<1>1. Window \in Nat
  BY ClientAssumption
<1>2. \A a, b \in Nat : IsFiniteSet(a..b) /\ (b <= Window => a..b \subseteq 0..Window)
  <2>1. \A a, b \in Nat : IsFiniteSet(a..b)
    BY FS_Interval
  <2>2. \A a, b \in Nat : b <= Window => a..b \subseteq 0..Window
    BY <1>1
  <2> QED  BY <2>1, <2>2
<1>3. ASSUME NEW a \in Nat, NEW b \in Nat, b <= Window
      PROVE  LetInDuring(r, a, b) \in Nat
  <2>1. \A t \in a..b : r[t] \in Nat
    BY <1>2, <1>3
  <2> QED  BY <1>2, <2>1, SumIsNatural DEF LetInDuring
<1>4. ASSUME NEW b \in Nat, b <= Window
      PROVE  LetInDuring(r, 0, b) = r[0] + LetInDuring(r, 1, b)
  <2>1. 0..b = 1..b \cup {0} /\ 0 \notin 1..b /\ IsFiniteSet(1..b)
    BY <1>2
  <2>2. \A t \in 1..b \cup {0} : r[t] \in Int
    BY <1>1, <1>4
  <2>3. SumFunctionOnSet(r, 1..b \cup {0}) = SumFunctionOnSet(r, 1..b) + r[0]
    BY <2>1, <2>2, SumAdded
  <2>4. SumFunctionOnSet(r, 1..b) \in Int /\ r[0] \in Int
    BY <1>3, <1>4, <2>2 DEF LetInDuring
  <2>5. SumFunctionOnSet(r, 0..b) = SumFunctionOnSet(r, 1..b) + r[0]
    BY <2>1, <2>3
  <2>6. \A m, n \in Int : m + n = n + m
    OBVIOUS
  <2> QED  BY <2>4, <2>5, <2>6 DEF LetInDuring
<1>5. ASSUME NEW b \in Nat, b <= Window
      PROVE  LetInDuring(r, 0, Window) = LetInDuring(r, 0, b) + LetInDuring(r, b + 1, Window)
  <2> DEFINE Bad == {k \in Nat : /\ b + k <= Window
                                 /\ LetInDuring(r, 0, b + k)
                                      # LetInDuring(r, 0, b) + LetInDuring(r, b + 1, b + k)}
  <2>1. Bad = {}
    <3> SUFFICES ASSUME Bad # {} PROVE FALSE
      OBVIOUS
    <3>1. PICK k \in Bad : \A m \in Bad : k <= m
      BY LeastNatural
    <3>2. k \in Nat /\ b + k <= Window
      OBVIOUS
    <3>3. LetInDuring(r, 0, b + k) # LetInDuring(r, 0, b) + LetInDuring(r, b + 1, b + k)
      OBVIOUS
    <3>4. k # 0
      <4>1. ASSUME k = 0 PROVE FALSE
        <5>1. b + k = b /\ b + 1..b = {}
          BY <4>1
        <5>2. LetInDuring(r, b + 1, b) = 0
          BY <5>1, SumOfNothing DEF LetInDuring
        <5>3. LetInDuring(r, 0, b) \in Nat
          BY <1>3, <1>5
        <5> QED  BY <3>3, <5>1, <5>2, <5>3
      <4> QED  BY <4>1
    <3>5. k - 1 \in Nat /\ b + (k - 1) <= Window /\ k - 1 \notin Bad
      <4> HIDE DEF Bad
      <4>1. k - 1 \in Nat /\ ~ k <= k - 1
        BY <3>2, <3>4
      <4> QED  BY <1>1, <3>1, <3>2, <4>1
    <3>6. LetInDuring(r, 0, b + (k - 1))
            = LetInDuring(r, 0, b) + LetInDuring(r, b + 1, b + (k - 1))
      BY <3>5
    <3> HIDE DEF Bad
    <3>7. /\ 0..b + k = 0..b + (k - 1) \cup {b + k} /\ b + k \notin 0..b + (k - 1)
          /\ b + 1..b + k = b + 1..b + (k - 1) \cup {b + k} /\ b + k \notin b + 1..b + (k - 1)
      BY <3>2, <3>4
    <3>8. /\ IsFiniteSet(0..b + (k - 1)) /\ IsFiniteSet(b + 1..b + (k - 1))
          /\ \A t \in 0..b + (k - 1) \cup {b + k} : r[t] \in Int
          /\ \A t \in b + 1..b + (k - 1) \cup {b + k} : r[t] \in Int
      <4>1. 0 \in Int /\ b + (k - 1) \in Int /\ b + 1 \in Int
        BY <3>2
      <4>2. /\ 0..b + (k - 1) \cup {b + k} \subseteq 0..Window
            /\ b + 1..b + (k - 1) \cup {b + k} \subseteq 0..Window
        BY <1>1, <3>2, <3>4
      <4>3. \A t \in 0..Window : r[t] \in Int
        OBVIOUS
      <4> QED  BY <4>1, <4>2, <4>3, FS_Interval
    <3>9. LetInDuring(r, 0, b + k) = LetInDuring(r, 0, b + (k - 1)) + r[b + k]
      BY <3>7, <3>8, SumAdded DEF LetInDuring
    <3>10. LetInDuring(r, b + 1, b + k) = LetInDuring(r, b + 1, b + (k - 1)) + r[b + k]
      BY <3>7, <3>8, SumAdded DEF LetInDuring
    <3>11. /\ LetInDuring(r, 0, b) \in Nat /\ LetInDuring(r, b + 1, b + (k - 1)) \in Nat
           /\ r[b + k] \in Nat
      <4>1. b + 1 \in Nat /\ b + (k - 1) \in Nat /\ b + (k - 1) <= Window /\ b + k \in 0..Window
        BY <1>1, <3>2, <3>5
      <4> QED  BY <1>3, <1>5, <4>1
    <3> QED  BY <3>3, <3>6, <3>9, <3>10, <3>11
  <2>2. Window - b \in Nat /\ b + (Window - b) = Window
    BY <1>1, <1>5
  <2>3. Window - b \notin Bad
    BY <2>1
  <2> HIDE DEF Bad
  <2>4. ASSUME LetInDuring(r, 0, Window)
                 # LetInDuring(r, 0, b) + LetInDuring(r, b + 1, Window)
        PROVE  FALSE
    BY <2>2, <2>3, <2>4 DEF Bad
  <2> QED  BY <2>4
<1> QED  BY <1>1, <1>3, <1>4, <1>5

\* The window and what came before it give the bound.
LEMMA WindowBound ==
  ASSUME NEW e, NEW r, WindowOK(e, r)
  PROVE  SumFunction(r) <= 2 * Limit
<1>1. /\ r \in [0..Window -> Nat] /\ e \in Entries
      /\ Window \in Nat /\ Limit \in Nat \ {0}
  BY ClientAssumption DEF WindowOK
<1>2. SumFunction(r) = LetInDuring(r, 0, Window)
  BY <1>1, SumOfFunction DEF LetInDuring
<1>3. e.left \in -1..Window
  BY <1>1 DEF Entries
<1>4. CASE e.left = -1
  <2>1. LetInDuring(r, 0, Window) \in Nat /\ LetInDuring(r, 0, Window) <= Limit
    BY <1>1, <1>4, Parts DEF WindowOK
  <2> QED  BY <1>1, <1>2, <2>1
<1>5. CASE e.left >= 0
  <2> DEFINE b == Window - e.left
  <2>1. b \in Nat /\ b <= Window /\ b + 1 \in Nat
    BY <1>1, <1>3, <1>5
  <2>2. LetInDuring(r, 0, b) <= Limit /\ LetInDuring(r, b + 1, Window) <= Limit
    BY <1>5 DEF WindowOK
  <2> HIDE DEF b
  <2>3. /\ LetInDuring(r, 0, b) \in Nat /\ LetInDuring(r, b + 1, Window) \in Nat
        /\ LetInDuring(r, 0, Window) = LetInDuring(r, 0, b) + LetInDuring(r, b + 1, Window)
    <3>1. \A m, n \in Nat : n <= Window => LetInDuring(r, m, n) \in Nat
      BY <1>1, Parts
    <3>2. LetInDuring(r, 0, Window) = LetInDuring(r, 0, b) + LetInDuring(r, b + 1, Window)
      BY <1>1, <2>1, Parts
    <3>3. 0 \in Nat /\ Window <= Window
      BY <1>1
    <3> QED  BY <1>1, <2>1, <3>1, <3>2, <3>3
  <2> QED  BY <1>1, <1>2, <2>2, <2>3
<1> QED  BY <1>3, <1>4, <1>5

\* One more login now.
LEMMA OneMore ==
  ASSUME NEW r \in [0..Window -> Nat], NEW q \in [0..Window -> Nat],
         q[0] = r[0] + 1, \A t \in 1..Window : q[t] = r[t]
  PROVE  \A b \in Nat : b <= Window =>
           /\ LetInDuring(q, 0, b) = LetInDuring(r, 0, b) + 1
           /\ LetInDuring(q, b + 1, Window) = LetInDuring(r, b + 1, Window)
<1>1. Window \in Nat
  BY ClientAssumption
<1>2. q \in [0..Window -> Nat] /\ q[0] = r[0] + 1 /\ \A t \in 1..Window : q[t] = r[t]
  OBVIOUS
<1>3. ASSUME NEW a \in Nat \ {0}, NEW b \in Nat, b <= Window
      PROVE  LetInDuring(q, a, b) = LetInDuring(r, a, b)
  <2>1. \A t \in a..b : q[t] \in Int /\ q[t] = r[t]
    BY <1>1, <1>2, <1>3
  <2>2. a \in Int /\ b \in Int
    OBVIOUS
  <2>3. IsFiniteSet(a..b)
    BY <2>2, FS_Interval
  <2>4. SumFunctionOnSet(q, a..b) = SumFunctionOnSet(r, a..b)
    BY <2>1, <2>3, SumAgrees
  <2> QED  BY <2>4 DEF LetInDuring
<1>4. ASSUME NEW b \in Nat, b <= Window
      PROVE  /\ LetInDuring(q, 0, b) = LetInDuring(r, 0, b) + 1
             /\ LetInDuring(q, b + 1, Window) = LetInDuring(r, b + 1, Window)
  <2>1. LetInDuring(q, 1, b) = LetInDuring(r, 1, b)
    <3>1. 1 \in Nat \ {0}
      OBVIOUS
    <3> QED  BY <1>3, <1>4, <3>1
  <2>2. LetInDuring(q, b + 1, Window) = LetInDuring(r, b + 1, Window)
    <3>1. b + 1 \in Nat \ {0} /\ Window <= Window
      BY <1>1
    <3> QED  BY <1>1, <1>3, <3>1
  <2>3. LetInDuring(q, 0, b) = q[0] + LetInDuring(q, 1, b)
    BY <1>2, <1>4, Parts
  <2>4. LetInDuring(r, 0, b) = r[0] + LetInDuring(r, 1, b)
    BY <1>4, Parts
  <2>5. r[0] \in Nat /\ LetInDuring(r, 1, b) \in Nat
    <3>1. \A m, n \in Nat : n <= Window => LetInDuring(r, m, n) \in Nat
      BY Parts
    <3>2. 1 \in Nat /\ 0 \in 0..Window
      BY <1>1
    <3> QED  BY <1>1, <1>4, <3>1, <3>2
  <2> QED  BY <1>2, <2>1, <2>2, <2>3, <2>4, <2>5
<1> QED  BY <1>4

\* One unit of time later.
LEMMA Later ==
  ASSUME NEW r \in [0..Window -> Nat], NEW q \in [0..Window -> Nat],
         q[0] = 0, \A t \in 0..Window - 1 : q[t + 1] = r[t]
  PROVE  /\ LetInDuring(q, 0, Window) <= LetInDuring(r, 0, Window)
         /\ \A b \in Nat : b + 1 <= Window =>
              /\ LetInDuring(q, 0, b + 1) = LetInDuring(r, 0, b)
              /\ LetInDuring(q, b + 2, Window) <= LetInDuring(r, b + 1, Window)
<1>1. Window \in Nat
  BY ClientAssumption
<1>2. q[0] = 0 /\ q \in [0..Window -> Nat]
  OBVIOUS
<1>3. \A m, n \in Nat : n <= Window => LetInDuring(r, m, n) \in Nat /\ LetInDuring(q, m, n) \in Nat
  BY <1>2, Parts
<1>4. \A n \in Nat : n <= Window => LetInDuring(q, 0, n) = q[0] + LetInDuring(q, 1, n)
  BY <1>2, Parts
<1>5. 0 \in Nat /\ 1 \in Nat /\ Window <= Window /\ Window - 1 \in Int /\ 0 <= (Window - 1) + 1
  BY <1>1
<1>6. \A t \in 0..Window - 1 : t + 1 \in 0..Window /\ q[t + 1] = r[t] /\ r[t] \in Int
  BY <1>1
<1>7. ASSUME NEW a \in Nat, NEW b \in Int, a <= b + 1, b + 1 <= Window
      PROVE  LetInDuring(q, a + 1, b + 1) = LetInDuring(r, a, b)
  <2>1. a..b \subseteq 0..Window - 1
    BY <1>1, <1>7
  <2>2. \A t \in a..b : r[t] \in Int /\ q[t + 1] = r[t]
    BY <1>6, <2>1
  <2>3. a \in Int
    OBVIOUS
  <2>4. SumFunctionOnSet(q, a + 1..b + 1) = SumFunctionOnSet(r, a..b)
    <3>1. {t + 1 : t \in a..b} = a + 1..b + 1
      <4>1. ASSUME NEW t \in a + 1..b + 1
            PROVE  t \in {m + 1 : m \in a..b}
        <5>1. t - 1 \in a..b /\ (t - 1) + 1 = t
          BY <1>7
        <5> QED  BY <5>1
      <4>2. \A t \in a..b : t + 1 \in a + 1..b + 1
        BY <1>7
      <4> QED  BY <4>1, <4>2
    <3>2. a..b \subseteq Int /\ IsFiniteSet(a..b)
      BY <2>3, FS_Interval
    <3>3. SumFunctionOnSet(q, {t + 1 : t \in a..b}) = SumFunctionOnSet(r, a..b)
      BY <2>2, <3>2, SumShifted
    <3> QED  BY <3>1, <3>3
  <2> QED  BY <2>4 DEF LetInDuring
<1>8. ASSUME NEW a \in Nat
      PROVE  LetInDuring(r, a, Window - 1) <= LetInDuring(r, a, Window)
  <2>1. IsFiniteSet(a..Window) /\ a..Window - 1 \in SUBSET (a..Window)
    <3>1. a \in Int /\ Window \in Int /\ a..Window - 1 \subseteq a..Window
      BY <1>1
    <3> QED  BY <3>1, FS_Interval
  <2>2. \A t \in a..Window : r[t] \in Nat
    BY <1>1
  <2> QED  BY <2>1, <2>2, SumOfPart DEF LetInDuring
<1>9. LetInDuring(q, 0, Window) <= LetInDuring(r, 0, Window)
  <2>1. LetInDuring(q, 0, Window) = q[0] + LetInDuring(q, 1, Window)
    BY <1>1, <1>4, <1>5
  <2>3. 0 + 1 = 1 /\ (Window - 1) + 1 = Window
    BY <1>1
  <2>2. LetInDuring(q, 0 + 1, (Window - 1) + 1) = LetInDuring(r, 0, Window - 1)
    BY <1>5, <1>7, <2>3
  <2>4. LetInDuring(q, 1, Window) \in Nat
    BY <1>1, <1>3, <1>5
  <2>5. LetInDuring(q, 1, Window) = LetInDuring(r, 0, Window - 1)
    BY <2>2, <2>3
  <2>6. LetInDuring(q, 0, Window) = LetInDuring(r, 0, Window - 1)
    BY <1>2, <2>1, <2>4, <2>5
  <2> QED  BY <1>8, <2>6
<1>10. ASSUME NEW b \in Nat, b + 1 <= Window
      PROVE  /\ LetInDuring(q, 0, b + 1) = LetInDuring(r, 0, b)
             /\ LetInDuring(q, b + 2, Window) <= LetInDuring(r, b + 1, Window)
  <2>0. b + 1 \in Nat /\ b \in Int /\ 0 <= b + 1 /\ b <= Window /\ 0 + 1 = 1
    BY <1>1, <1>10
  <2>1. LetInDuring(q, 0, b + 1) = q[0] + LetInDuring(q, 1, b + 1)
    BY <1>4, <1>10, <2>0
  <2>2. LetInDuring(q, 0 + 1, b + 1) = LetInDuring(r, 0, b)
    BY <1>5, <1>7, <1>10, <2>0
  <2>3. LetInDuring(r, 0, b) \in Nat
    BY <1>3, <1>5, <2>0
  <2>4. LetInDuring(q, 0, b + 1) = LetInDuring(r, 0, b)
    BY <1>2, <2>0, <2>1, <2>2, <2>3
  <2>5. LetInDuring(q, (b + 1) + 1, (Window - 1) + 1) = LetInDuring(r, b + 1, Window - 1)
    <3>1. b + 1 \in Nat /\ Window - 1 \in Int /\ b + 1 <= (Window - 1) + 1 /\ (Window - 1) + 1 <= Window
      BY <1>1, <1>10
    <3> QED  BY <1>7, <3>1
  <2>6. (b + 1) + 1 = b + 2 /\ (Window - 1) + 1 = Window
    BY <1>1
  <2>7. LetInDuring(r, b + 1, Window - 1) <= LetInDuring(r, b + 1, Window)
    BY <1>8
  <2>8. LetInDuring(q, b + 2, Window) = LetInDuring(r, b + 1, Window - 1)
    BY <2>5, <2>6
  <2> QED  BY <2>4, <2>7, <2>8
<1> QED  BY <1>9, <1>10

\* An attempt, let in or not.
LEMMA Attempt ==
  ASSUME NEW e, NEW r, WindowOK(e, r)
  PROVE  /\ LetIn(Counted(e)) => WindowOK(Counted(e), [r EXCEPT ![0] = @ + 1])
         /\ ~ LetIn(Counted(e)) => WindowOK(Counted(e), r)
<1> DEFINE q == [r EXCEPT ![0] = r[0] + 1]
           b == Window - e.left
<1>1. /\ Window \in Nat /\ Limit \in Nat \ {0}
      /\ e \in Entries /\ r \in [0..Window -> Nat] /\ e.count \in Nat /\ e.left \in -1..Window
  BY ClientAssumption DEF WindowOK, Entries
<1>2. /\ q \in [0..Window -> Nat]
      /\ \A n \in Nat : n <= Window =>
           /\ LetInDuring(q, 0, n) = LetInDuring(r, 0, n) + 1
           /\ LetInDuring(q, n + 1, Window) = LetInDuring(r, n + 1, Window)
           /\ LetInDuring(r, 0, n) \in Nat
  <2>1. \A m, n \in Nat : n <= Window => LetInDuring(r, m, n) \in Nat
    BY <1>1, Parts
  <2>2. 0 \in Nat
    OBVIOUS
  <2>3. \A n \in Nat : n <= Window => LetInDuring(r, 0, n) \in Nat
    BY <2>1, <2>2
  <2>4. /\ q \in [0..Window -> Nat]
        /\ \A n \in Nat : n <= Window =>
             /\ LetInDuring(q, 0, n) = LetInDuring(r, 0, n) + 1
             /\ LetInDuring(q, n + 1, Window) = LetInDuring(r, n + 1, Window)
    <3>1. q \in [0..Window -> Nat] /\ q[0] = r[0] + 1 /\ \A t \in 1..Window : q[t] = r[t]
      BY <1>1
    <3> HIDE DEF q
    <3> QED  BY <1>1, <3>1, OneMore
  <2> HIDE DEF q
  <2> QED  BY <2>3, <2>4
<1> HIDE DEF q
<1>3. CASE e.left = -1
  <2>1. Counted(e) = [count |-> 1, left |-> Window]
    BY <1>3 DEF Counted, Expired
  <2>2. LetIn(Counted(e)) /\ Counted(e) \in Entries
    BY <1>1, <2>1 DEF LetIn, Entries
  <2>3. r[0] = 0 /\ LetInDuring(r, 0, Window) <= Limit
    BY <1>3 DEF WindowOK
  <2>4. LetInDuring(q, 0, 0) = 1
    <3>1. LetInDuring(r, 0, 0) = r[0] + LetInDuring(r, 1, 0)
      BY <1>1, Parts
    <3>2. 1..0 = {}
      OBVIOUS
    <3>3. LetInDuring(r, 1, 0) = 0
      BY <3>2, SumOfNothing DEF LetInDuring
    <3> QED  BY <1>1, <1>2, <2>3, <3>1, <3>3
  <2>5. LetInDuring(q, 1, Window) <= Limit
    <3>1. LetInDuring(q, 0 + 1, Window) = LetInDuring(r, 0 + 1, Window)
      BY <1>1, <1>2
    <3>2. 0 + 1 = 1
      OBVIOUS
    <3>3. LetInDuring(r, 0, Window) = r[0] + LetInDuring(r, 1, Window)
      BY <1>1, Parts
    <3>4. LetInDuring(r, 1, Window) \in Nat
      BY <1>1, Parts
    <3> QED  BY <2>3, <3>1, <3>2, <3>3, <3>4
  <2>6. Counted(e).count = 1 /\ Counted(e).left = Window /\ Window - Window = 0 /\ 0 + 1 = 1
    BY <1>1, <2>1
  <2>7. Window # -1 /\ 1 <= Limit
    BY <1>1
  <2>8. WindowOK(Counted(e), q)
    BY <1>2, <2>2, <2>4, <2>5, <2>6, <2>7 DEF WindowOK
  <2> QED  BY <2>2, <2>8 DEF q
<1>4. CASE e.left >= 0
  <2>1. b \in Nat /\ b <= Window
    BY <1>1, <1>4
  <2>2. /\ LetInDuring(r, 0, b) <= e.count /\ LetInDuring(r, 0, b) <= Limit
        /\ LetInDuring(r, b + 1, Window) <= Limit
    BY <1>4 DEF WindowOK
  <2>3. /\ Counted(e).left = e.left /\ Counted(e) \in Entries
        /\ Counted(e).count = IF e.count > Limit THEN e.count ELSE e.count + 1
    BY <1>1, <1>4 DEF Counted, Expired, Entries
  <2> HIDE DEF b
  <2>4. ASSUME LetIn(Counted(e))
        PROVE  WindowOK(Counted(e), q)
    <3>1. Counted(e).count = e.count + 1 /\ e.count + 1 <= Limit
      BY <1>1, <2>3, <2>4 DEF LetIn
    <3>2. LetInDuring(q, 0, b) = LetInDuring(r, 0, b) + 1 /\ LetInDuring(r, 0, b) \in Nat
      BY <1>2, <2>1
    <3>3. LetInDuring(q, 0, b) <= Counted(e).count /\ LetInDuring(q, 0, b) <= Limit
      BY <1>1, <2>2, <3>1, <3>2
    <3>4. LetInDuring(q, b + 1, Window) <= Limit
      BY <1>2, <2>1, <2>2
    <3>5. e.left # -1
      BY <1>4
    <3> QED  BY <1>2, <2>3, <3>3, <3>4, <3>5 DEF WindowOK, b
  <2>5. ASSUME ~ LetIn(Counted(e))
        PROVE  WindowOK(Counted(e), r)
    <3>1. LetInDuring(r, 0, b) <= Counted(e).count
      BY <1>1, <1>2, <2>1, <2>2, <2>3
    <3>2. e.left # -1
      BY <1>4
    <3> QED  BY <1>1, <2>2, <2>3, <3>1, <3>2 DEF WindowOK, b
  <2> QED  BY <2>4, <2>5 DEF q
<1>5. e.left = -1 \/ e.left >= 0
  BY <1>1
<1> QED  BY <1>3, <1>4, <1>5

\* A unit of time.
LEMMA Aged ==
  ASSUME NEW e, NEW r, WindowOK(e, r)
  PROVE  WindowOK([e EXCEPT !.left = IF @ < 0 THEN @ ELSE @ - 1],
                  [t \in 0..Window |-> IF t = 0 THEN 0 ELSE r[t - 1]])
<1> DEFINE q == [t \in 0..Window |-> IF t = 0 THEN 0 ELSE r[t - 1]]
           f == [e EXCEPT !.left = IF e.left < 0 THEN e.left ELSE e.left - 1]
           b == Window - e.left
<1>1. /\ Window \in Nat /\ Limit \in Nat \ {0}
      /\ e \in Entries /\ r \in [0..Window -> Nat] /\ e.count \in Nat /\ e.left \in -1..Window
  BY ClientAssumption DEF WindowOK, Entries
<1>2. /\ q \in [0..Window -> Nat] /\ q[0] = 0
      /\ LetInDuring(q, 0, Window) <= LetInDuring(r, 0, Window)
      /\ \A n \in Nat : n + 1 <= Window =>
           /\ LetInDuring(q, 0, n + 1) = LetInDuring(r, 0, n)
           /\ LetInDuring(q, n + 2, Window) <= LetInDuring(r, n + 1, Window)
  <2>1. \A t \in 0..Window : t # 0 => t - 1 \in 0..Window
    BY <1>1
  <2>2. /\ q \in [0..Window -> Nat] /\ q[0] = 0
        /\ \A t \in 0..Window - 1 : t + 1 \in 0..Window /\ q[t + 1] = r[t]
    BY <1>1, <2>1
  <2> HIDE DEF q
  <2> QED  BY <1>1, <2>2, Later
<1>3. /\ f \in Entries /\ f.count = e.count
      /\ f.left = IF e.left < 0 THEN e.left ELSE e.left - 1
  BY <1>1 DEF Entries
<1> HIDE DEF q, f
<1>4. LetInDuring(q, 0, Window) \in Nat /\ LetInDuring(r, 0, Window) \in Nat
  <2>1. \A m, n \in Nat : n <= Window => LetInDuring(r, m, n) \in Nat /\ LetInDuring(q, m, n) \in Nat
    BY <1>1, <1>2, Parts
  <2>2. 0 \in Nat /\ Window <= Window
    BY <1>1
  <2> QED  BY <1>1, <2>1, <2>2
<1>5. CASE e.left <= 0
  <2>1. f.left = -1
    BY <1>1, <1>3, <1>5
  <2>2. LetInDuring(r, 0, Window) <= Limit
    <3>1. CASE e.left = -1
      BY <3>1 DEF WindowOK
    <3>2. CASE e.left = 0
      <4>1. Window - e.left = Window
        BY <1>1, <3>2
      <4> QED  BY <3>2, <4>1 DEF WindowOK
    <3> QED  BY <1>1, <1>5, <3>1, <3>2
  <2>3. LetInDuring(q, 0, Window) <= Limit
    BY <1>1, <1>2, <1>4, <2>2
  <2>4. ~ f.left >= 0
    BY <2>1
  <2> QED  BY <1>2, <1>3, <2>3, <2>4 DEF WindowOK, q, f
<1>6. CASE e.left > 0
  <2>1. b \in Nat /\ b + 1 <= Window
    BY <1>1, <1>6
  <2>2. f.left = e.left - 1 /\ f.left # -1 /\ Window - f.left = b + 1 /\ (b + 1) + 1 = b + 2
    BY <1>1, <1>3, <1>6
  <2>3. e.left >= 0
    BY <1>1, <1>6
  <2>4. /\ LetInDuring(r, 0, b) <= e.count /\ LetInDuring(r, 0, b) <= Limit
        /\ LetInDuring(r, b + 1, Window) <= Limit
    BY <2>3 DEF WindowOK
  <2> HIDE DEF b
  <2>5. LetInDuring(r, b + 1, Window) \in Nat /\ LetInDuring(q, b + 2, Window) \in Nat
    <3>1. \A m, n \in Nat : n <= Window => LetInDuring(r, m, n) \in Nat /\ LetInDuring(q, m, n) \in Nat
      BY <1>1, <1>2, Parts
    <3>2. b + 1 \in Nat /\ b + 2 \in Nat /\ Window <= Window
      BY <1>1, <2>1
    <3> QED  BY <1>1, <3>1, <3>2
  <2>6. /\ LetInDuring(q, 0, b + 1) <= f.count /\ LetInDuring(q, 0, b + 1) <= Limit
    BY <1>2, <1>3, <2>1, <2>4
  <2>7. LetInDuring(q, (b + 1) + 1, Window) <= Limit
    <3>1. LetInDuring(q, b + 2, Window) <= LetInDuring(r, b + 1, Window)
      BY <1>2, <2>1
    <3> QED  BY <1>1, <2>2, <2>4, <2>5, <3>1
  <2> QED  BY <1>2, <1>3, <2>2, <2>6, <2>7 DEF WindowOK, q, f
<1> QED  BY <1>1, <1>5, <1>6

\* No entry, or one that was removed because it has expired.
LEMMA NoWindow ==
  /\ WindowOK([count |-> 0, left |-> -1], [t \in 0..Window |-> 0])
  /\ \A e, r : WindowOK(e, r) /\ Expired(e) => WindowOK([count |-> 0, left |-> -1], r)
<1> DEFINE none == [count |-> 0, left |-> -1]
           r0 == [t \in 0..Window |-> 0]
<1>1. Window \in Nat /\ Limit \in Nat
  BY ClientAssumption
<1>2. none \in Entries /\ none.left = -1 /\ ~ none.left >= 0
  BY <1>1 DEF Entries
<1>3. r0 \in [0..Window -> Nat] /\ r0[0] = 0
  BY <1>1
<1>4. LetInDuring(r0, 0, Window) = 0
  <2>1. \A t \in 0..Window : r0[t] = 0
    OBVIOUS
  <2> QED  BY <1>1, <2>1, FS_Interval, SumOfZeros DEF LetInDuring
<1> HIDE DEF r0, none
<1>5. WindowOK(none, r0)
  BY <1>1, <1>2, <1>3, <1>4 DEF WindowOK
<1>6. ASSUME NEW e, NEW r, WindowOK(e, r), Expired(e)
      PROVE  WindowOK(none, r)
  <2>1. e.left = -1
    BY <1>1, <1>6 DEF WindowOK, Entries, Expired
  <2> QED  BY <1>2, <1>6, <2>1 DEF WindowOK
<1> QED  BY <1>5, <1>6 DEF none, r0

LEMMA OneAttempt ==
  ASSUME LimitOK, NEW ip \in Ips,
         limiter' = [limiter EXCEPT ![ip] = Counted(limiter[ip])],
         recent' = IF LetIn(Counted(limiter[ip])) THEN [recent EXCEPT ![ip][0] = @ + 1]
                   ELSE recent
  PROVE  LimitOK'
<1> DEFINE e == Counted(limiter[ip])
           r == IF LetIn(e) THEN [recent[ip] EXCEPT ![0] = @ + 1] ELSE recent[ip]
<1>1. /\ limiter \in [Ips -> Entries] /\ recent \in [Ips -> [0..Window -> Nat]]
      /\ \A x \in Ips : WindowOK(limiter[x], recent[x])
  BY DEF LimitOK
<1>2. WindowOK(e, r)
  BY <1>1, Attempt
<1>3. e \in Entries /\ r \in [0..Window -> Nat]
  BY <1>2 DEF WindowOK
<1>4. limiter' = [limiter EXCEPT ![ip] = e]
  OBVIOUS
<1>5. recent' = [recent EXCEPT ![ip] = r]
  <2>1. [recent EXCEPT ![ip] = recent[ip]] = recent
    BY <1>1
  <2> QED  BY <2>1
<1> HIDE DEF e, r
<1>6. limiter' \in [Ips -> Entries] /\ recent' \in [Ips -> [0..Window -> Nat]]
  BY <1>1, <1>3, <1>4, <1>5
<1>7. ASSUME NEW x \in Ips
      PROVE  WindowOK(limiter'[x], recent'[x])
  <2>1. CASE x = ip
    <3>1. limiter'[x] = e /\ recent'[x] = r
      BY <1>1, <1>4, <1>5, <2>1
    <3> QED  BY <1>2, <3>1
  <2>2. CASE x # ip
    <3>1. limiter'[x] = limiter[x] /\ recent'[x] = recent[x]
      BY <1>1, <1>4, <1>5, <2>2
    <3> QED  BY <1>1, <3>1
  <2> QED  BY <2>1, <2>2
<1> QED  BY <1>6, <1>7 DEF LimitOK

\* Every step of the relay, the clock and the timers keeps the limiter's invariant.
LEMMA LimitStep ==
  ASSUME LimitOK, [Next]_vars
  PROVE  LimitOK'
<1>1. /\ limiter \in [Ips -> Entries] /\ recent \in [Ips -> [0..Window -> Nat]]
      /\ \A x \in Ips : WindowOK(limiter[x], recent[x])
  BY DEF LimitOK
<1>2. ASSUME UNCHANGED limitVars
      PROVE  LimitOK'
  BY <1>1, <1>2 DEF limitVars, LimitOK
<1>3. ASSUME NEW c \in Clients, Login(c)
      PROVE  LimitOK'
  <2>1. IpOf(c) \in Ips
    BY ClientAssumption
  <2>2. /\ limiter' = [limiter EXCEPT ![IpOf(c)] = Counted(limiter[IpOf(c)])]
        /\ recent' = IF LetIn(Counted(limiter[IpOf(c)]))
                     THEN [recent EXCEPT ![IpOf(c)][0] = @ + 1] ELSE recent
    BY <1>3 DEF Login
  <2> QED  BY <2>1, <2>2, OneAttempt
<1>4. ASSUME NEW ip \in Ips, OtherLogin(ip)
      PROVE  LimitOK'
  <2>1. /\ limiter' = [limiter EXCEPT ![ip] = Counted(limiter[ip])]
        /\ recent' = IF LetIn(Counted(limiter[ip]))
                     THEN [recent EXCEPT ![ip][0] = @ + 1] ELSE recent
    BY <1>4 DEF OtherLogin
  <2> QED  BY <2>1, OneAttempt
<1>5. CASE Tick
  <2>1. /\ limiter' = [x \in Ips |->
                         [limiter[x] EXCEPT !.left = IF @ < 0 THEN @ ELSE @ - 1]]
        /\ recent' = [x \in Ips |->
                        [t \in 0..Window |-> IF t = 0 THEN 0 ELSE recent[x][t - 1]]]
    BY <1>5 DEF Tick
  <2>2. \A x \in Ips : WindowOK(limiter'[x], recent'[x])
    BY <1>1, <2>1, Aged
  <2>3. \A x \in Ips : limiter'[x] \in Entries /\ recent'[x] \in [0..Window -> Nat]
    BY <2>2 DEF WindowOK
  <2>4. limiter' = [x \in Ips |-> limiter'[x]] /\ recent' = [x \in Ips |-> recent'[x]]
    BY <2>1
  <2>5. limiter' \in [Ips -> Entries] /\ recent' \in [Ips -> [0..Window -> Nat]]
    BY <2>3, <2>4
  <2> QED  BY <2>2, <2>5 DEF LimitOK
<1>6. CASE CleanLimiter
  <2>1. /\ limiter' = [x \in Ips |-> IF Removable(limiter[x]) THEN [count |-> 0, left |-> -1]
                                     ELSE limiter[x]]
        /\ recent' = recent
    BY <1>6 DEF CleanLimiter
  <2>2. \A x \in Ips : WindowOK(limiter'[x], recent'[x])
    BY <1>1, <2>1, NoWindow DEF Removable
  <2>3. \A x \in Ips : limiter'[x] \in Entries
    BY <2>2 DEF WindowOK
  <2>4. limiter' \in [Ips -> Entries] /\ recent' \in [Ips -> [0..Window -> Nat]]
    BY <1>1, <2>1, <2>3
  <2> QED  BY <2>2, <2>4 DEF LimitOK
<1>7. CASE Restart
  <2>1. /\ limiter' = [x \in Ips |-> [count |-> 0, left |-> -1]]
        /\ recent' = [x \in Ips |-> [t \in 0..Window |-> 0]]
    BY <1>7 DEF Restart
  <2>2. \A x \in Ips : WindowOK(limiter'[x], recent'[x])
    BY <2>1, NoWindow
  <2>3. [count |-> 0, left |-> -1] \in Entries /\ [t \in 0..Window |-> 0] \in [0..Window -> Nat]
    BY NoWindow DEF WindowOK
  <2>4. limiter' \in [Ips -> Entries] /\ recent' \in [Ips -> [0..Window -> Nat]]
    BY <2>1, <2>3
  <2> QED  BY <2>2, <2>4 DEF LimitOK
<1>8. ASSUME NEW c \in Clients, UserStep(c) \/ ClientStep(c) \/ ConnectionBreaks(c)
      PROVE  UNCHANGED limitVars
  BY <1>8 DEF UserStep, Say, AskBalance, Clear, Quit, CmdChat, CmdBalance, CmdModels, CmdAuth,
              SendMessage, FetchBalance, ClientStep, LoginAnswered, Answered, ConnectionBreaks
<1>9. ASSUME NEW c \in Clients, RelayStep(c)
      PROVE  LimitOK'
  <2>1. \/ Login(c)
        \/ UNCHANGED limitVars
    BY <1>9 DEF RelayStep, Verified, Chat, Balance, Models, VeniceAnswers, VeniceRefuses
  <2> QED  BY <1>2, <1>3, <2>1
<1>10. ASSUME NEW c \in Clients, NEW turn \in {"this", "earlier"}, OrphanEnds(c, turn)
       PROVE  UNCHANGED limitVars
  BY <1>10 DEF OrphanEnds
<1>11. ASSUME NEW c \in Suspendable, Suspend(c) \/ Unsuspend(c)
       PROVE  UNCHANGED limitVars
  BY <1>11 DEF Suspend, Unsuspend
<1>12. CASE UNCHANGED vars
  BY <1>2, <1>12 DEF vars
<1>13. CASE Next
  BY <1>2, <1>4, <1>5, <1>6, <1>7, <1>8, <1>9, <1>10, <1>11, <1>13 DEF Next, Step
<1> QED  BY <1>12, <1>13

\* Every address gets at most two windows' worth of logins verified in the time
\* of one, wherever the windows lie, between two restarts of the relay.
THEOREM Limited == Spec => []LoginsLimited
<1>1. Init => LimitOK
  <2> SUFFICES ASSUME Init PROVE LimitOK
    OBVIOUS
  <2>1. /\ limiter = [x \in Ips |-> [count |-> 0, left |-> -1]]
        /\ recent = [x \in Ips |-> [t \in 0..Window |-> 0]]
    BY DEF Init
  <2>2. \A x \in Ips : WindowOK(limiter[x], recent[x])
    BY <2>1, NoWindow
  <2>3. [count |-> 0, left |-> -1] \in Entries /\ [t \in 0..Window |-> 0] \in [0..Window -> Nat]
    BY NoWindow DEF WindowOK
  <2>4. limiter \in [Ips -> Entries] /\ recent \in [Ips -> [0..Window -> Nat]]
    BY <2>1, <2>3
  <2> QED  BY <2>2, <2>4 DEF LimitOK
<1>2. LimitOK /\ [Next]_vars => LimitOK'
  BY LimitStep
<1>3. LimitOK => LoginsLimited
  BY WindowBound DEF LimitOK, LoginsLimited
<1> QED  BY <1>1, <1>2, <1>3, PTL DEF Spec
-----------------------------------------------------------------------------
(* The conversation.                                                       *)

Roles == {"user", "assistant"}

\* Questions and answers take turns, whoever spoke last.
Alternating(h) ==
  h \in Seq(Roles) /\ \A i \in DOMAIN h : h[i] = IF i % 2 = 1 THEN "user" ELSE "assistant"

Even(h) == Len(h) % 2 = 0

LEMMA Parity ==
  /\ \A n \in Nat : n % 2 = 0 \/ n % 2 = 1
  /\ \A n \in Nat : n % 2 = 0 => (n + 1) % 2 = 1
  /\ \A n \in Nat : n % 2 = 1 => (n + 1) % 2 = 0
  /\ \A n \in Nat \ {0} : n % 2 = 1 => (n - 1) % 2 = 0
OBVIOUS

\* A message, its answer, and a message taken back.
LEMMA Conversation ==
  ASSUME NEW h, Alternating(h)
  PROVE  /\ Even(h) => Alternating(Append(h, "user")) /\ ~ Even(Append(h, "user"))
         /\ ~ Even(h) => Alternating(Append(h, "assistant")) /\ Even(Append(h, "assistant"))
         /\ ~ Even(h) => Alternating(SubSeq(h, 1, Len(h) - 1)) /\ Even(SubSeq(h, 1, Len(h) - 1))
         /\ Even(h) <=> Len(h) % 2 # 1
<1> DEFINE n == Len(h)
<1>1. h \in Seq(Roles) /\ n \in Nat /\ DOMAIN h = 1..n
  BY LenProperties DEF Alternating
<1>2. \A i \in 1..n : h[i] = IF i % 2 = 1 THEN "user" ELSE "assistant"
  BY <1>1 DEF Alternating
<1>3. Even(h) <=> n % 2 # 1
  BY <1>1, Parity DEF Even
<1>4. ASSUME NEW role \in Roles, role = IF (n + 1) % 2 = 1 THEN "user" ELSE "assistant"
      PROVE  Alternating(Append(h, role)) /\ Len(Append(h, role)) = n + 1
  <2> DEFINE g == Append(h, role)
  <2>1. /\ g \in Seq(Roles) /\ Len(g) = n + 1 /\ g[n + 1] = role
        /\ \A i \in 1..n : g[i] = h[i]
    BY <1>1, AppendProperties
  <2>2. DOMAIN g = 1..n + 1
    BY <2>1, LenProperties
  <2> HIDE DEF g
  <2>3. ASSUME NEW i \in 1..n + 1
        PROVE  g[i] = IF i % 2 = 1 THEN "user" ELSE "assistant"
    <3>1. i \in 1..n \/ i = n + 1
      BY <1>1
    <3> QED  BY <1>2, <1>4, <2>1, <3>1
  <2>4. Alternating(g)
    BY <2>1, <2>2, <2>3 DEF Alternating
  <2> QED  BY <2>1, <2>4 DEF g
<1>5. "user" \in Roles /\ "assistant" \in Roles
  BY DEF Roles
<1>6. ASSUME Even(h)
      PROVE  Alternating(Append(h, "user")) /\ ~ Even(Append(h, "user"))
  <2>1. (n + 1) % 2 = 1
    BY <1>1, <1>6, Parity DEF Even
  <2>2. Alternating(Append(h, "user")) /\ Len(Append(h, "user")) = n + 1
    BY <1>4, <1>5, <2>1
  <2> QED  BY <2>1, <2>2 DEF Even
<1>7. ASSUME ~ Even(h)
      PROVE  Alternating(Append(h, "assistant")) /\ Even(Append(h, "assistant"))
  <2>1. (n + 1) % 2 = 0
    BY <1>1, <1>3, <1>7, Parity
  <2>2. Alternating(Append(h, "assistant")) /\ Len(Append(h, "assistant")) = n + 1
    BY <1>4, <1>5, <2>1
  <2> QED  BY <2>1, <2>2 DEF Even
<1>8. ASSUME ~ Even(h)
      PROVE  Alternating(SubSeq(h, 1, n - 1)) /\ Even(SubSeq(h, 1, n - 1))
  <2> DEFINE g == SubSeq(h, 1, n - 1)
  <2>1. n \in Nat \ {0} /\ n - 1 \in Nat /\ (n - 1) % 2 = 0
    <3>1. n % 2 = 1 /\ n # 0
      BY <1>1, <1>3, <1>8
    <3> QED  BY <1>1, <3>1, Parity
  <2>2. \A i \in 1..n - 1 : h[i] \in Roles
    BY <1>1, <2>1, ElementOfSeq
  <2>3. g \in Seq(Roles) /\ Len(g) = n - 1 /\ \A i \in 1..n - 1 : g[i] = h[i]
    <3>1. /\ g \in Seq(Roles) /\ Len(g) = IF 1 <= n - 1 THEN (n - 1) - 1 + 1 ELSE 0
          /\ \A i \in 1..(n - 1) - 1 + 1 : g[i] = h[1 + i - 1]
      BY <2>1, <2>2, SubSeqProperties
    <3>2. (n - 1) - 1 + 1 = n - 1 /\ \A i \in 1..n - 1 : 1 + i - 1 = i
      BY <2>1
    <3> QED  BY <2>1, <3>1, <3>2
  <2>4. DOMAIN g = 1..n - 1
    BY <2>3, LenProperties
  <2> HIDE DEF g
  <2>5. \A i \in DOMAIN g : g[i] = IF i % 2 = 1 THEN "user" ELSE "assistant"
    BY <1>1, <1>2, <2>3, <2>4
  <2>6. Alternating(g) /\ Even(g)
    BY <2>1, <2>3, <2>5 DEF Alternating, Even
  <2> QED  BY <2>6 DEF g
<1> QED  BY <1>3, <1>6, <1>7, <1>8
-----------------------------------------------------------------------------
(* The clients.                                                            *)

Statuses == {"none", "login", "ok", "401", "402", "429", "error"}
Answers == [status : Statuses, amount : Nat]
Orphans == [this : Nat, earlier : Nat]

ClientTypes ==
  /\ at \in [Clients -> Places] /\ answer \in [Clients -> Answers]
  /\ copy \in [Clients -> Nat] /\ age \in [Clients -> Nat]
  /\ history \in [Clients -> Seq(Roles)]
  /\ orphans \in [Clients -> Orphans] /\ charges \in [Clients -> Nat]

\* What the turn has been charged and may be charged by a handler whose client
\* is gone.
Charged(c) == charges[c] + orphans[c].this

\* A message that may still be sent to Venice, or is there, has cost nothing.
NothingChargedYet(c) ==
  \/ at[c] \in {"login", "verify", "granted", "ask", "venice"}
  \/ at[c] = "answer" /\ answer[c].status = "401"

ClientOK(c) ==
  /\ Alternating(history[c])
  /\ at[c] = "prompt" => Even(history[c])
  /\ at[c] = "venice" => ~ Even(history[c])
  /\ Charged(c) <= 1
  /\ ~ Even(history[c]) /\ NothingChargedYet(c) => Charged(c) = 0
  /\ at[c] \in {"prompt", "login", "ask"} => answer[c] = NoAnswer
  /\ at[c] \in {"verify", "granted"} => answer[c].amount <= Ttl
  /\ c \notin fixed /\ at[c] = "ask" => copy[c] + age[c] > Margin

ClientsOK == ClientTypes /\ \A c \in Clients : ClientOK(c)

Unmoved(d) ==
  /\ at'[d] = at[d] /\ answer'[d] = answer[d] /\ copy'[d] = copy[d] /\ age'[d] = age[d]
  /\ history'[d] = history[d] /\ orphans'[d] = orphans[d] /\ charges'[d] = charges[d]

\* A step of client c, or of the relay for it, leaves the other clients alone.
Moved(c) == ClientTypes' /\ ClientOK(c)' /\ \A d \in Clients \ {c} : Unmoved(d)

LEMMA MovedOK ==
  ASSUME ClientsOK, UNCHANGED fixed, NEW c \in Clients, Moved(c)
  PROVE  ClientsOK'
<1>1. ASSUME NEW d \in Clients, d # c
      PROVE  ClientOK(d)'
  <2>1. ClientOK(d) /\ Unmoved(d)
    BY <1>1 DEF ClientsOK, Moved
  <2> QED  BY <2>1 DEF ClientOK, Unmoved, Charged, NothingChargedYet
<1> QED  BY <1>1 DEF ClientsOK, Moved

\* Values that every step below starts from.
LEMMA ClientFacts ==
  ASSUME ClientsOK, NEW c \in Clients
  PROVE  /\ ClientTypes /\ ClientOK(c)
         /\ at[c] \in Places /\ answer[c] \in Answers /\ copy[c] \in Nat /\ age[c] \in Nat
         /\ history[c] \in Seq(Roles) /\ Len(history[c]) \in Nat
         /\ orphans[c] \in Orphans /\ orphans[c].this \in Nat /\ orphans[c].earlier \in Nat
         /\ charges[c] \in Nat
         /\ Chatting(c) <=> ~ Even(history[c])
<1>1. ClientTypes /\ ClientOK(c)
  BY DEF ClientsOK
<1>2. /\ at[c] \in Places /\ answer[c] \in Answers /\ copy[c] \in Nat /\ age[c] \in Nat
      /\ history[c] \in Seq(Roles) /\ orphans[c] \in Orphans /\ charges[c] \in Nat
  BY <1>1 DEF ClientTypes
<1>3. Alternating(history[c])
  BY <1>1 DEF ClientOK
<1>4. Chatting(c) <=> ~ Even(history[c])
  BY <1>3, Conversation DEF Chatting
<1>5. Len(history[c]) \in Nat
  BY <1>2, LenProperties
<1> QED  BY <1>1, <1>2, <1>4, <1>5 DEF Orphans

LEMMA PlacesAre ==
  /\ "prompt" \in Places /\ "login" \in Places /\ "verify" \in Places /\ "granted" \in Places
  /\ "ask" \in Places /\ "venice" \in Places /\ "answer" \in Places /\ "quit" \in Places
BY DEF Places

LEMMA TimesAre == Ttl \in Nat /\ Margin \in Nat /\ Margin < Ttl
BY ClientAssumption

\* Sending a message, and what the relay does on the way to Venice.
LEMMA SendMessageStep ==
  ASSUME ClientsOK, UNCHANGED fixed, NEW c \in Clients, SendMessage(c)
  PROVE  Moved(c)
<1> DEFINE h == Append(history[c], "user")
           o == [this |-> 0, earlier |-> orphans[c].this + orphans[c].earlier]
<1>1. /\ at[c] = "prompt" /\ Even(history[c])
      /\ history' = [history EXCEPT ![c] = h] /\ orphans' = [orphans EXCEPT ![c] = o]
      /\ charges' = [charges EXCEPT ![c] = 0] /\ answer' = answer /\ copy' = copy
      /\ \/ /\ at' = [at EXCEPT ![c] = "ask"] /\ age' = [age EXCEPT ![c] = 0]
            /\ c \in fixed \/ copy[c] > Margin
         \/ at' = [at EXCEPT ![c] = "login"] /\ age' = age
  BY ClientFacts DEF SendMessage, GetSession, LongEnough, ClientOK, sessionVars
<1>2. Alternating(h) /\ ~ Even(h) /\ h \in Seq(Roles)
  BY <1>1, ClientFacts, Conversation DEF ClientOK, Alternating
<1>3. o \in Orphans /\ o.this = 0
  BY ClientFacts DEF Orphans
<1> HIDE DEF h, o
<1>4. ClientTypes'
  <2>1. at' \in [Clients -> Places] /\ age' \in [Clients -> Nat]
    <3>1. at \in [Clients -> Places] /\ age \in [Clients -> Nat]
      BY ClientFacts DEF ClientTypes
    <3> QED  BY <1>1, <3>1, PlacesAre
  <2>2. history' \in [Clients -> Seq(Roles)]
    BY <1>1, <1>2, ClientFacts DEF ClientTypes
  <2>3. orphans' \in [Clients -> Orphans] /\ charges' \in [Clients -> Nat]
    BY <1>1, <1>3, ClientFacts DEF ClientTypes
  <2> QED  BY <1>1, <2>1, <2>2, <2>3, ClientFacts DEF ClientTypes
<1>5. /\ at'[c] \in {"ask", "login"} /\ history'[c] = h /\ orphans'[c] = o /\ charges'[c] = 0
      /\ answer'[c] = answer[c] /\ copy'[c] = copy[c]
      /\ at'[c] = "ask" => age'[c] = 0 /\ (c \in fixed \/ copy[c] > Margin)
  BY <1>1, ClientFacts DEF ClientTypes
<1>6. \A d \in Clients \ {c} : Unmoved(d)
  BY <1>1, ClientFacts DEF Unmoved, ClientTypes
<1>7. ClientOK(c)'
  <2>1. Charged(c)' = 0
    BY <1>3, <1>5 DEF Charged
  <2>2. /\ at'[c] = "ask" => answer'[c] = NoAnswer
        /\ at'[c] = "login" => answer'[c] = NoAnswer
    BY <1>1, <1>5, ClientFacts DEF ClientOK
  <2>3. c \notin fixed' /\ at'[c] = "ask" => copy'[c] + age'[c] > Margin
    BY <1>5, ClientFacts, TimesAre
  <2> QED  BY <1>2, <1>5, <2>1, <2>2, <2>3 DEF ClientOK
<1> QED  BY <1>4, <1>6, <1>7 DEF Moved

\* A function changed in one entry at most.
OneEntry(f, g, c) == g = [f EXCEPT ![c] = g[c]]

LEMMA Local ==
  ASSUME ClientsOK, NEW c \in Clients,
         OneEntry(at, at', c), at'[c] \in Places,
         OneEntry(answer, answer', c), answer'[c] \in Answers,
         OneEntry(copy, copy', c), copy'[c] \in Nat,
         OneEntry(age, age', c), age'[c] \in Nat,
         OneEntry(history, history', c),
         OneEntry(orphans, orphans', c), orphans'[c] \in Orphans,
         OneEntry(charges, charges', c), charges'[c] \in Nat,
         ClientOK(c)'
  PROVE  Moved(c)
<1>1. ClientTypes
  BY DEF ClientsOK
<1>2. history'[c] \in Seq(Roles)
  BY DEF ClientOK, Alternating
<1>3. at' \in [Clients -> Places] /\ answer' \in [Clients -> Answers]
  BY <1>1 DEF ClientTypes, OneEntry
<1>4. copy' \in [Clients -> Nat] /\ age' \in [Clients -> Nat]
  BY <1>1 DEF ClientTypes, OneEntry
<1>5. history' \in [Clients -> Seq(Roles)]
  BY <1>1, <1>2 DEF ClientTypes, OneEntry
<1>6. orphans' \in [Clients -> Orphans] /\ charges' \in [Clients -> Nat]
  BY <1>1 DEF ClientTypes, OneEntry
<1>7. \A d \in Clients \ {c} : Unmoved(d)
  BY <1>1 DEF ClientTypes, OneEntry, Unmoved
<1> QED  BY <1>3, <1>4, <1>5, <1>6, <1>7 DEF Moved, ClientTypes

LEMMA FetchBalanceStep ==
  ASSUME ClientsOK, UNCHANGED fixed, NEW c \in Clients, FetchBalance(c) \/ CmdAuth(c)
  PROVE  Moved(c)
<1>1. /\ at[c] = "prompt" /\ Even(history[c]) /\ answer[c] = NoAnswer
      /\ history' = history /\ orphans' = orphans /\ charges' = charges
      /\ answer' = answer /\ copy' = copy
      /\ \/ /\ at' = [at EXCEPT ![c] = "ask"] /\ age' = [age EXCEPT ![c] = 0]
            /\ c \in fixed \/ copy[c] > Margin
         \/ at' = [at EXCEPT ![c] = "login"] /\ age' = age
  BY ClientFacts
     DEF FetchBalance, CmdAuth, GetSession, LongEnough, ClientOK, sessionVars
<1>2. /\ at'[c] \in {"ask", "login"} /\ at'[c] \in Places /\ age'[c] \in Nat
      /\ at'[c] = "ask" => age'[c] = 0 /\ (c \in fixed \/ copy[c] > Margin)
      /\ OneEntry(at, at', c) /\ OneEntry(age, age', c)
  BY <1>1, ClientFacts, PlacesAre DEF ClientTypes, OneEntry
<1>3. /\ OneEntry(answer, answer', c) /\ OneEntry(copy, copy', c)
      /\ OneEntry(history, history', c) /\ OneEntry(orphans, orphans', c)
      /\ OneEntry(charges, charges', c)
  BY <1>1, ClientFacts DEF ClientTypes, OneEntry
<1>4. ClientOK(c)'
  <2>1. c \notin fixed' /\ at'[c] = "ask" => copy'[c] + age'[c] > Margin
    BY <1>1, <1>2, ClientFacts, TimesAre
  <2> QED  BY <1>1, <1>2, <2>1, ClientFacts DEF ClientOK, Charged, NothingChargedYet
<1> QED  BY <1>1, <1>2, <1>3, <1>4, ClientFacts, Local

LEMMA PromptStep ==
  ASSUME ClientsOK, UNCHANGED fixed, NEW c \in Clients, Clear(c) \/ Quit(c)
  PROVE  Moved(c)
<1>1. /\ at[c] = "prompt" /\ Even(history[c]) /\ answer[c] = NoAnswer
      /\ orphans' = orphans /\ charges' = charges
      /\ answer' = answer /\ copy' = copy /\ age' = age
      /\ \/ at' = at /\ history' = [history EXCEPT ![c] = <<>>]
         \/ at' = [at EXCEPT ![c] = "quit"] /\ history' = history
  BY ClientFacts DEF Clear, Quit, ClientOK, sessionVars
<1>2. Alternating(<<>>) /\ Even(<<>>)
  <2>1. <<>> \in Seq(Roles) /\ Len(<<>>) = 0 /\ DOMAIN <<>> = {}
    OBVIOUS
  <2> QED  BY <2>1 DEF Alternating, Even
<1>3. /\ at'[c] \in {"prompt", "quit"} /\ at'[c] \in Places
      /\ Alternating(history'[c]) /\ Even(history'[c])
      /\ OneEntry(at, at', c) /\ OneEntry(history, history', c)
  BY <1>1, <1>2, ClientFacts, PlacesAre DEF ClientTypes, OneEntry, ClientOK
<1>4. /\ OneEntry(answer, answer', c) /\ OneEntry(copy, copy', c) /\ OneEntry(age, age', c)
      /\ OneEntry(orphans, orphans', c) /\ OneEntry(charges, charges', c)
  BY <1>1, ClientFacts DEF ClientTypes, OneEntry
<1>5. ClientOK(c)'
  BY <1>1, <1>3, ClientFacts DEF ClientOK, Charged, NothingChargedYet
<1> QED  BY <1>1, <1>3, <1>4, <1>5, ClientFacts, Local

LEMMA LoginAnsweredStep ==
  ASSUME ClientsOK, UNCHANGED fixed, NEW c \in Clients, LoginAnswered(c)
  PROVE  Moved(c)
<1> DEFINE left == answer[c].amount
<1>1. /\ at[c] = "granted"
      /\ at' = [at EXCEPT ![c] = IF command[c] = "auth" THEN "quit" ELSE "ask"]
      /\ copy' = [copy EXCEPT ![c] = left] /\ age' = [age EXCEPT ![c] = Ttl - left]
      /\ answer' = [answer EXCEPT ![c] = NoAnswer]
      /\ history' = history /\ orphans' = orphans /\ charges' = charges
  BY DEF LoginAnswered
<1>2. left \in Nat /\ left <= Ttl /\ Ttl - left \in Nat /\ left + (Ttl - left) > Margin
  BY <1>1, ClientFacts, TimesAre DEF ClientOK, Answers
<1>3. NoAnswer \in Answers
  BY DEF NoAnswer, Answers, Statuses
<1> HIDE DEF left
<1>4. /\ at'[c] \in {"ask", "quit"} /\ at'[c] \in Places
      /\ copy'[c] = left /\ age'[c] = Ttl - left /\ answer'[c] = NoAnswer
      /\ OneEntry(at, at', c) /\ OneEntry(copy, copy', c) /\ OneEntry(age, age', c)
      /\ OneEntry(answer, answer', c)
  BY <1>1, ClientFacts, PlacesAre DEF ClientTypes, OneEntry
<1>5. /\ OneEntry(history, history', c) /\ OneEntry(orphans, orphans', c)
      /\ OneEntry(charges, charges', c)
  BY <1>1, ClientFacts DEF ClientTypes, OneEntry
<1>6. ClientOK(c)'
  BY <1>1, <1>2, <1>4, ClientFacts DEF ClientOK, Charged, NothingChargedYet
<1> QED  BY <1>1, <1>2, <1>3, <1>4, <1>5, <1>6, ClientFacts, Local

\* The end of a turn, its message taken back; handlers without a client may be
\* left behind.
LEMMA FailTurnStep ==
  ASSUME ClientsOK, UNCHANGED <<fixed, charges>>, NEW c \in Clients, FailTurn(c),
         OneEntry(orphans, orphans', c), orphans'[c] \in Orphans,
         charges[c] + orphans'[c].this <= 1
  PROVE  Moved(c)
<1> DEFINE h == SubSeq(history[c], 1, Len(history[c]) - 1)
<1>1. /\ at' = [at EXCEPT ![c] = NextPlace(c)]
      /\ history' = [history EXCEPT ![c] = IF Even(history[c]) THEN history[c] ELSE h]
      /\ answer' = [answer EXCEPT ![c] = NoAnswer] /\ age' = [age EXCEPT ![c] = 0]
      /\ copy' = copy
  BY ClientFacts DEF FailTurn, DropMessage
<1>2. /\ Alternating(history[c])
      /\ ~ Even(history[c]) => Alternating(h) /\ Even(h)
  BY ClientFacts, Conversation DEF ClientOK
<1> HIDE DEF h
<1>3. NoAnswer \in Answers
  BY DEF NoAnswer, Answers, Statuses
<1>4. /\ at'[c] \in {"prompt", "quit"} /\ at'[c] \in Places
      /\ answer'[c] = NoAnswer /\ age'[c] = 0 /\ age'[c] \in Nat
      /\ OneEntry(at, at', c) /\ OneEntry(answer, answer', c) /\ OneEntry(age, age', c)
  BY <1>1, ClientFacts, PlacesAre DEF ClientTypes, OneEntry, NextPlace
<1>5. /\ Alternating(history'[c]) /\ Even(history'[c])
      /\ OneEntry(history, history', c)
  BY <1>1, <1>2, ClientFacts DEF ClientTypes, OneEntry
<1>6. OneEntry(copy, copy', c) /\ OneEntry(charges, charges', c)
  BY <1>1, ClientFacts DEF ClientTypes, OneEntry
<1>7. ClientOK(c)'
  BY <1>1, <1>4, <1>5, ClientFacts DEF ClientOK, Charged, NothingChargedYet
<1> QED  BY <1>1, <1>3, <1>4, <1>5, <1>6, <1>7, ClientFacts, Local

LEMMA RetryStep ==
  ASSUME ClientsOK, UNCHANGED <<fixed, orphans, charges>>, NEW c \in Clients, Retry(c),
         at[c] = "answer", answer[c].status = "401", ~ Even(history[c])
  PROVE  Moved(c)
<1>1. /\ at' = [at EXCEPT ![c] = IF c \in fixed THEN "ask" ELSE "login"]
      /\ copy' = [copy EXCEPT ![c] = 0] /\ age' = [age EXCEPT ![c] = 0]
      /\ answer' = [answer EXCEPT ![c] = NoAnswer]
      /\ history' = history
  BY DEF Retry
<1>2. NoAnswer \in Answers
  BY DEF NoAnswer, Answers, Statuses
<1>3. /\ at'[c] \in {"ask", "login"} /\ (at'[c] = "ask" => c \in fixed) /\ at'[c] \in Places
      /\ copy'[c] = 0 /\ age'[c] = 0 /\ answer'[c] = NoAnswer
      /\ copy'[c] \in Nat /\ age'[c] \in Nat
      /\ OneEntry(at, at', c) /\ OneEntry(copy, copy', c) /\ OneEntry(age, age', c)
      /\ OneEntry(answer, answer', c)
  BY <1>1, ClientFacts, PlacesAre DEF ClientTypes, OneEntry
<1>4. /\ OneEntry(history, history', c) /\ OneEntry(orphans, orphans', c)
      /\ OneEntry(charges, charges', c)
  BY <1>1, ClientFacts DEF ClientTypes, OneEntry
<1>5. ClientOK(c)'
  BY <1>1, <1>3, ClientFacts DEF ClientOK, Charged, NothingChargedYet
<1> QED  BY <1>1, <1>2, <1>3, <1>4, <1>5, ClientFacts, Local

LEMMA SucceedStep ==
  ASSUME ClientsOK, UNCHANGED <<fixed, orphans, charges>>, NEW c \in Clients, Succeed(c)
  PROVE  Moved(c)
<1> DEFINE h == Append(history[c], "assistant")
<1>1. /\ at' = [at EXCEPT ![c] = NextPlace(c)]
      /\ history' = [history EXCEPT ![c] = IF Even(history[c]) THEN history[c] ELSE h]
      /\ answer' = [answer EXCEPT ![c] = NoAnswer] /\ age' = age /\ copy' = copy
  BY ClientFacts DEF Succeed, sessionVars
<1>2. /\ Alternating(history[c])
      /\ ~ Even(history[c]) => Alternating(h) /\ Even(h)
  BY ClientFacts, Conversation DEF ClientOK
<1> HIDE DEF h
<1>3. NoAnswer \in Answers
  BY DEF NoAnswer, Answers, Statuses
<1>4. /\ at'[c] \in {"prompt", "quit"} /\ at'[c] \in Places /\ answer'[c] = NoAnswer
      /\ OneEntry(at, at', c) /\ OneEntry(answer, answer', c)
  BY <1>1, ClientFacts, PlacesAre DEF ClientTypes, OneEntry, NextPlace
<1>5. /\ Alternating(history'[c]) /\ Even(history'[c])
      /\ OneEntry(history, history', c)
  BY <1>1, <1>2, ClientFacts DEF ClientTypes, OneEntry
<1>6. /\ OneEntry(copy, copy', c) /\ OneEntry(age, age', c)
      /\ OneEntry(orphans, orphans', c) /\ OneEntry(charges, charges', c)
  BY <1>1, ClientFacts DEF ClientTypes, OneEntry
<1>7. ClientOK(c)'
  BY <1>1, <1>4, <1>5, ClientFacts DEF ClientOK, Charged, NothingChargedYet
<1> QED  BY <1>1, <1>3, <1>4, <1>5, <1>6, <1>7, ClientFacts, Local

\* Only an answer that nothing was charged for is retried.
LEMMA AnsweredStep ==
  ASSUME ClientsOK, UNCHANGED fixed, NEW c \in Clients, Answered(c)
  PROVE  Moved(c)
<1>1. at[c] = "answer" /\ UNCHANGED <<orphans, charges>>
  BY DEF Answered
<1>2. OneEntry(orphans, orphans', c) /\ orphans'[c] \in Orphans /\ charges[c] + orphans'[c].this <= 1
  BY <1>1, ClientFacts DEF ClientTypes, OneEntry, ClientOK, Charged
<1>3. \/ Succeed(c)
      \/ MayRetry(c, answer[c].status) /\ Retry(c)
      \/ FailTurn(c)
  BY DEF Answered
<1>4. CASE MayRetry(c, answer[c].status) /\ Retry(c)
  <2>1. answer[c].status = "401" /\ ~ Even(history[c])
    BY <1>4, ClientFacts DEF MayRetry
  <2> QED  BY <1>1, <1>4, <2>1, RetryStep
<1> QED  BY <1>1, <1>2, <1>3, <1>4, SucceedStep, FailTurnStep

\* The relay answers: what it has charged by then decides what may be retried.
LEMMA ReplyStep ==
  ASSUME ClientsOK, UNCHANGED <<fixed, copy, history, orphans>>, NEW c \in Clients,
         NEW status \in Statuses, NEW n \in Nat, Reply(c, status, n),
         OneEntry(age, age', c), age'[c] \in Nat,
         OneEntry(charges, charges', c), charges'[c] \in Nat,
         charges'[c] + orphans[c].this <= 1,
         status = "401" /\ ~ Even(history[c]) => charges'[c] + orphans[c].this = 0
  PROVE  Moved(c)
<1> DEFINE a == [status |-> status, amount |-> n]
<1>1. /\ at' = [at EXCEPT ![c] = "answer"] /\ answer' = [answer EXCEPT ![c] = a]
      /\ history' = history /\ orphans' = orphans /\ copy' = copy
  BY DEF Reply
<1>2. a \in Answers /\ a.status = status
  BY DEF Answers
<1> HIDE DEF a
<1>3. /\ at'[c] = "answer" /\ at'[c] \in Places /\ answer'[c] = a
      /\ OneEntry(at, at', c) /\ OneEntry(answer, answer', c)
  BY <1>1, ClientFacts, PlacesAre DEF ClientTypes, OneEntry
<1>4. /\ OneEntry(history, history', c) /\ OneEntry(orphans, orphans', c)
      /\ OneEntry(copy, copy', c)
  BY <1>1, ClientFacts DEF ClientTypes, OneEntry
<1>5. ClientOK(c)'
  BY <1>1, <1>2, <1>3, ClientFacts DEF ClientOK, Charged, NothingChargedYet
<1> QED  BY <1>1, <1>2, <1>3, <1>4, <1>5, ClientFacts, Local

LEMMA StatusesAre ==
  /\ "none" \in Statuses /\ "login" \in Statuses /\ "ok" \in Statuses /\ "401" \in Statuses
  /\ "402" \in Statuses /\ "429" \in Statuses /\ "error" \in Statuses
BY DEF Statuses

LEMMA LoginStep ==
  ASSUME ClientsOK, UNCHANGED fixed, NEW c \in Clients, Login(c)
  PROVE  Moved(c)
<1>1. /\ at[c] = "login" /\ UNCHANGED <<copy, age, history, orphans, charges>>
      /\ \/ /\ at' = [at EXCEPT ![c] = "verify"]
            /\ answer' = [answer EXCEPT ![c] = [status |-> "login", amount |-> Ttl]]
         \/ Reply(c, "429", 0)
  BY DEF Login, sessionVars
<1>2. /\ OneEntry(copy, copy', c) /\ OneEntry(age, age', c) /\ OneEntry(history, history', c)
      /\ OneEntry(orphans, orphans', c) /\ OneEntry(charges, charges', c)
      /\ age'[c] \in Nat /\ charges'[c] \in Nat /\ charges'[c] + orphans[c].this <= 1
      /\ age' = age /\ charges' = charges /\ copy' = copy /\ history' = history
      /\ orphans' = orphans
  BY <1>1, ClientFacts DEF ClientTypes, OneEntry, ClientOK, Charged
<1>3. CASE Reply(c, "429", 0)
  <2>1. "429" # "401" /\ "429" \in Statuses /\ 0 \in Nat
    BY StatusesAre
  <2> QED  BY <1>1, <1>2, <1>3, <2>1, ReplyStep
<1>4. CASE /\ at' = [at EXCEPT ![c] = "verify"]
           /\ answer' = [answer EXCEPT ![c] = [status |-> "login", amount |-> Ttl]]
  <2> DEFINE a == [status |-> "login", amount |-> Ttl]
  <2>1. a \in Answers /\ a.amount = Ttl /\ Ttl <= Ttl
    BY StatusesAre, TimesAre DEF Answers
  <2>2. answer' = [answer EXCEPT ![c] = a]
    BY <1>4
  <2> HIDE DEF a
  <2>3. /\ at'[c] = "verify" /\ at'[c] \in Places /\ answer'[c] = a
        /\ OneEntry(at, at', c) /\ OneEntry(answer, answer', c)
    BY <1>4, <2>2, ClientFacts, PlacesAre DEF ClientTypes, OneEntry
  <2>4. ClientOK(c)'
    BY <1>1, <1>2, <2>1, <2>3, ClientFacts DEF ClientOK, Charged, NothingChargedYet
  <2> QED  BY <1>2, <2>1, <2>3, <2>4, ClientFacts, Local
<1> QED  BY <1>1, <1>3, <1>4

LEMMA VerifiedStep ==
  ASSUME ClientsOK, UNCHANGED fixed, NEW c \in Clients, Verified(c)
  PROVE  Moved(c)
<1>1. /\ at[c] = "verify" /\ UNCHANGED <<copy, age, history, orphans, charges>>
      /\ \/ at' = [at EXCEPT ![c] = "granted"] /\ answer' = answer
         \/ Reply(c, "error", 0)
  BY DEF Verified
<1>2. /\ OneEntry(copy, copy', c) /\ OneEntry(age, age', c) /\ OneEntry(history, history', c)
      /\ OneEntry(orphans, orphans', c) /\ OneEntry(charges, charges', c)
      /\ age'[c] \in Nat /\ charges'[c] \in Nat /\ charges'[c] + orphans[c].this <= 1
      /\ age' = age /\ charges' = charges /\ copy' = copy /\ history' = history
      /\ orphans' = orphans
  BY <1>1, ClientFacts DEF ClientTypes, OneEntry, ClientOK, Charged
<1>3. CASE Reply(c, "error", 0)
  <2>1. "error" # "401" /\ "error" \in Statuses /\ 0 \in Nat
    BY StatusesAre
  <2> QED  BY <1>1, <1>2, <1>3, <2>1, ReplyStep
<1>4. CASE at' = [at EXCEPT ![c] = "granted"] /\ answer' = answer
  <2>1. /\ at'[c] = "granted" /\ at'[c] \in Places /\ answer'[c] = answer[c]
        /\ OneEntry(at, at', c) /\ OneEntry(answer, answer', c)
    BY <1>4, ClientFacts, PlacesAre DEF ClientTypes, OneEntry
  <2>2. ClientOK(c)'
    BY <1>1, <1>2, <2>1, ClientFacts DEF ClientOK, Charged, NothingChargedYet
  <2> QED  BY <1>2, <2>1, <2>2, ClientFacts, Local
<1> QED  BY <1>1, <1>3, <1>4

\* What the relay does with a request that has a session, or has none.
LEMMA RequestStep ==
  ASSUME ClientsOK, UNCHANGED fixed, NEW c \in Clients, Balance(c) \/ Models(c) \/ Chat(c)
  PROVE  Moved(c)
<1>1. /\ at[c] = "ask" /\ UNCHANGED <<copy, history, orphans, charges>>
      /\ age' = [age EXCEPT ![c] = 0]
      /\ \/ \E status \in Statuses : Reply(c, status, 0)
         \/ at' = [at EXCEPT ![c] = "venice"] /\ answer' = answer /\ Chatting(c)
  BY StatusesAre DEF Balance, Models, Chat, ListModels
<1>2. /\ OneEntry(copy, copy', c) /\ OneEntry(age, age', c) /\ OneEntry(history, history', c)
      /\ OneEntry(orphans, orphans', c) /\ OneEntry(charges, charges', c)
      /\ age'[c] = 0 /\ charges'[c] \in Nat /\ charges'[c] + orphans[c].this <= 1
      /\ ~ Even(history[c]) => charges'[c] + orphans[c].this = 0
      /\ charges' = charges /\ copy' = copy /\ history' = history /\ orphans' = orphans
  BY <1>1, ClientFacts DEF ClientTypes, OneEntry, ClientOK, Charged, NothingChargedYet
<1>3. age'[c] \in Nat /\ 0 \in Nat
  BY <1>2
<1>4. CASE \E status \in Statuses : Reply(c, status, 0)
  BY <1>1, <1>2, <1>3, <1>4, ReplyStep
<1>5. CASE at' = [at EXCEPT ![c] = "venice"] /\ answer' = answer /\ Chatting(c)
  <2>1. /\ at'[c] = "venice" /\ at'[c] \in Places /\ answer'[c] = answer[c]
        /\ OneEntry(at, at', c) /\ OneEntry(answer, answer', c)
    BY <1>5, ClientFacts, PlacesAre DEF ClientTypes, OneEntry
  <2>2. ClientOK(c)'
    BY <1>1, <1>2, <1>5, <2>1, ClientFacts DEF ClientOK, Charged, NothingChargedYet
  <2> QED  BY <1>2, <1>3, <2>1, <2>2, ClientFacts, Local
<1> QED  BY <1>1, <1>4, <1>5

\* One charge, if Venice reports usage, and none if it does not.
LEMMA VeniceStep ==
  ASSUME ClientsOK, UNCHANGED fixed, NEW c \in Clients,
         \/ \E cost \in Costs : VeniceAnswers(c, cost)
         \/ \E status \in {"ok", "401", "402", "error"} : VeniceRefuses(c, status)
  PROVE  Moved(c)
<1>1. at[c] = "venice" /\ UNCHANGED <<copy, age, history, orphans>>
  BY DEF VeniceAnswers, VeniceRefuses, sessionVars
<1>2. /\ charges[c] + orphans[c].this = 0 /\ charges[c] \in Nat /\ orphans[c].this \in Nat
      /\ age[c] \in Nat
  BY <1>1, ClientFacts DEF ClientOK, Charged, NothingChargedYet
<1>3. OneEntry(age, age', c) /\ age'[c] \in Nat
  BY <1>1, <1>2, ClientFacts DEF ClientTypes, OneEntry
<1>4. ASSUME NEW cost \in Costs, VeniceAnswers(c, cost)
      PROVE  Moved(c)
  <2>1. Reply(c, "ok", cost) /\ charges' = [charges EXCEPT ![c] = charges[c] + 1]
    BY <1>4 DEF VeniceAnswers
  <2>2. /\ OneEntry(charges, charges', c) /\ charges'[c] = charges[c] + 1
    BY <2>1, ClientFacts DEF ClientTypes, OneEntry
  <2>3. charges'[c] \in Nat /\ charges'[c] + orphans[c].this <= 1
    BY <1>2, <2>2
  <2>4. cost \in Nat /\ "ok" # "401" /\ "ok" \in Statuses
    BY StatusesAre, ClientAssumption
  <2> QED  BY <1>1, <1>3, <2>1, <2>2, <2>3, <2>4, ReplyStep
<1>5. ASSUME NEW status \in {"ok", "401", "402", "error"}, VeniceRefuses(c, status)
      PROVE  Moved(c)
  <2>1. Reply(c, status, 0) /\ charges' = charges
    BY <1>5 DEF VeniceRefuses
  <2>2. OneEntry(charges, charges', c) /\ charges'[c] = charges[c]
    BY <2>1, ClientFacts DEF ClientTypes, OneEntry
  <2>3. charges'[c] \in Nat /\ charges'[c] + orphans[c].this <= 1 /\ charges'[c] + orphans[c].this = 0
    BY <1>2, <2>2
  <2>4. status \in Statuses /\ 0 \in Nat
    BY StatusesAre
  <2> QED  BY <1>1, <1>3, <2>1, <2>2, <2>3, <2>4, ReplyStep
<1> QED  BY <1>4, <1>5

\* A handler whose client is gone takes its charge with it.
LEMMA OrphanEndsStep ==
  ASSUME ClientsOK, UNCHANGED fixed, NEW c \in Clients, NEW turn \in {"this", "earlier"},
         OrphanEnds(c, turn)
  PROVE  Moved(c)
<1>1. /\ orphans[c][turn] > 0 /\ UNCHANGED <<at, answer, copy, age, history>>
      /\ orphans' = [orphans EXCEPT ![c] = [orphans[c] EXCEPT ![turn] = orphans[c][turn] - 1]]
      /\ \/ charges' = charges
         \/ charges' = IF turn = "this" THEN [charges EXCEPT ![c] = charges[c] + 1] ELSE charges
  BY DEF OrphanEnds, sessionVars
<1>2. /\ charges[c] \in Nat /\ orphans[c] \in Orphans
      /\ orphans[c].this \in Nat /\ orphans[c].earlier \in Nat
  BY ClientFacts
<1>3. /\ OneEntry(orphans, orphans', c)
      /\ orphans'[c] = [orphans[c] EXCEPT ![turn] = orphans[c][turn] - 1]
  BY <1>1, ClientFacts DEF ClientTypes, OneEntry
<1>4. /\ OneEntry(charges, charges', c) /\ charges'[c] \in Nat
      /\ charges'[c] = charges[c] \/ (turn = "this" /\ charges'[c] = charges[c] + 1)
  BY <1>1, <1>2, ClientFacts DEF ClientTypes, OneEntry
<1>5. orphans'[c] \in Orphans /\ charges'[c] + orphans'[c].this <= charges[c] + orphans[c].this
  <2>1. CASE turn = "this"
    <3>1. /\ orphans'[c] = [orphans[c] EXCEPT !.this = orphans[c].this - 1]
          /\ orphans[c].this > 0
      BY <1>1, <1>3, <2>1
    <3>2. orphans'[c] \in Orphans /\ orphans'[c].this = orphans[c].this - 1
      BY <1>2, <3>1 DEF Orphans
    <3> QED  BY <1>2, <1>4, <3>2
  <2>2. CASE turn = "earlier"
    <3>1. /\ orphans'[c] = [orphans[c] EXCEPT !.earlier = orphans[c].earlier - 1]
          /\ orphans[c].earlier > 0
      BY <1>1, <1>3, <2>2
    <3>2. orphans'[c] \in Orphans /\ orphans'[c].this = orphans[c].this
      BY <1>2, <3>1 DEF Orphans
    <3> QED  BY <1>2, <1>4, <2>2, <3>2
  <2> QED  BY <2>1, <2>2
<1>6. /\ OneEntry(at, at', c) /\ OneEntry(answer, answer', c) /\ OneEntry(copy, copy', c)
      /\ OneEntry(age, age', c) /\ OneEntry(history, history', c)
      /\ at' = at /\ answer' = answer /\ copy' = copy /\ age' = age /\ history' = history
  BY <1>1, ClientFacts DEF ClientTypes, OneEntry
<1>7. ClientOK(c)'
  <2>1. Charged(c)' \in Nat /\ Charged(c) \in Nat /\ Charged(c)' <= Charged(c)
    BY <1>2, <1>4, <1>5 DEF Charged, Orphans
  <2> HIDE DEF Charged
  <2>2. Charged(c) <= 1 => Charged(c)' <= 1
    BY <2>1
  <2>3. Charged(c) = 0 => Charged(c)' = 0
    BY <2>1
  <2> QED  BY <1>6, <2>2, <2>3, ClientFacts DEF ClientOK, NothingChargedYet
<1> QED  BY <1>3, <1>4, <1>5, <1>6, <1>7, ClientFacts, Local

\* A broken connection is not retried: the handler may have charged already.
LEMMA ConnectionBreaksStep ==
  ASSUME ClientsOK, UNCHANGED fixed, NEW c \in Clients, ConnectionBreaks(c)
  PROVE  Moved(c)
<1>1. /\ orphans' = IF at[c] = "venice"
                    THEN [orphans EXCEPT ![c] = [orphans[c] EXCEPT !.this = orphans[c].this + 1]]
                    ELSE orphans
      /\ charges' = charges
  BY DEF ConnectionBreaks
<1>2. ~ MayRetry(c, "broken")
  BY DEF MayRetry
<1>3. FailTurn(c)
  BY <1>2 DEF ConnectionBreaks
<1>4. /\ orphans[c] \in Orphans /\ orphans[c].this \in Nat /\ charges[c] \in Nat
      /\ charges[c] + orphans[c].this <= 1
      /\ at[c] = "venice" => charges[c] + orphans[c].this = 0
  BY ClientFacts DEF ClientOK, Charged, NothingChargedYet
<1>5. /\ OneEntry(orphans, orphans', c)
      /\ at[c] = "venice" => orphans'[c] = [orphans[c] EXCEPT !.this = orphans[c].this + 1]
      /\ at[c] # "venice" => orphans'[c] = orphans[c]
  BY <1>1, ClientFacts DEF ClientTypes, OneEntry
<1>6. orphans'[c] \in Orphans /\ charges[c] + orphans'[c].this <= 1
  <2>1. CASE at[c] = "venice"
    <3>1. orphans'[c] \in Orphans /\ orphans'[c].this = orphans[c].this + 1
      BY <1>4, <1>5, <2>1 DEF Orphans
    <3> QED  BY <1>4, <2>1, <3>1
  <2>2. CASE at[c] # "venice"
    BY <1>4, <1>5, <2>2
  <2> QED  BY <2>1, <2>2
<1> QED  BY <1>1, <1>3, <1>5, <1>6, FailTurnStep

\* Steps that are about no client: suspension, other people's logins, the timer.
LEMMA StillStep ==
  ASSUME ClientsOK, UNCHANGED <<fixed, at, answer, copy, age, history, orphans, charges>>
  PROVE  ClientsOK'
BY DEF ClientsOK, ClientTypes, ClientOK, Charged, NothingChargedYet

\* While time passes a session loses as much as a request that is on its way ages.
LEMMA TickStep ==
  ASSUME ClientsOK, UNCHANGED fixed, Tick
  PROVE  ClientsOK'
<1>1. /\ UNCHANGED <<at, history, orphans, charges>>
      /\ copy' = [c \in Clients |-> Less(copy[c])]
      /\ age' = [c \in Clients |-> IF at[c] = "ask" /\ age[c] <= Margin THEN age[c] + 1
                                   ELSE age[c]]
      /\ answer' = [c \in Clients |->
                      IF at[c] \in {"verify", "granted"}
                      THEN [answer[c] EXCEPT !.amount = Less(answer[c].amount)]
                      ELSE answer[c]]
  BY DEF Tick
<1>2. \A n \in Nat : Less(n) \in Nat /\ Less(n) <= n /\ n <= Less(n) + 1
  BY DEF Less
<1>3. ASSUME NEW c \in Clients
      PROVE  /\ copy'[c] \in Nat /\ age'[c] \in Nat /\ answer'[c] \in Answers
             /\ answer'[c].status = answer[c].status
             /\ answer'[c].amount <= answer[c].amount
             /\ at[c] \notin {"verify", "granted"} => answer'[c] = answer[c]
             /\ at[c] = "ask" /\ copy[c] + age[c] > Margin => copy'[c] + age'[c] > Margin
  <2>1. /\ copy[c] \in Nat /\ age[c] \in Nat /\ answer[c] \in Answers
        /\ answer[c].amount \in Nat /\ answer[c].status \in Statuses
    BY ClientFacts DEF Answers
  <2>2. copy'[c] = Less(copy[c])
    BY <1>1
  <2>3. age'[c] = IF at[c] = "ask" /\ age[c] <= Margin THEN age[c] + 1 ELSE age[c]
    BY <1>1
  <2>4. answer'[c] = IF at[c] \in {"verify", "granted"}
                     THEN [answer[c] EXCEPT !.amount = Less(answer[c].amount)]
                     ELSE answer[c]
    BY <1>1
  <2>5. copy'[c] \in Nat /\ copy[c] <= copy'[c] + 1
    BY <1>2, <2>1, <2>2
  <2>6. age'[c] \in Nat
    BY <2>1, <2>3, TimesAre
  <2>7. /\ answer'[c] \in Answers /\ answer'[c].status = answer[c].status
        /\ answer'[c].amount <= answer[c].amount
    BY <1>2, <2>1, <2>4 DEF Answers
  <2>8. at[c] = "ask" /\ copy[c] + age[c] > Margin => copy'[c] + age'[c] > Margin
    BY <2>1, <2>3, <2>5, <2>6, TimesAre
  <2> QED  BY <2>4, <2>5, <2>6, <2>7, <2>8
<1>4. ClientTypes'
  <2>1. copy' \in [Clients -> Nat] /\ age' \in [Clients -> Nat]
    BY <1>1, <1>3
  <2>2. answer' \in [Clients -> Answers]
    BY <1>1, <1>3
  <2> QED  BY <1>1, <2>1, <2>2 DEF ClientsOK, ClientTypes
<1>5. ASSUME NEW c \in Clients
      PROVE  ClientOK(c)'
  <2>1. ClientOK(c)
    BY DEF ClientsOK
  <2>2. Charged(c)' = Charged(c) /\ NothingChargedYet(c)' = NothingChargedYet(c)
    BY <1>1, <1>3 DEF Charged, NothingChargedYet
  <2>3. at[c] \in {"prompt", "login", "ask"} => answer'[c] = answer[c]
    BY <1>3
  <2>4. at[c] \in {"verify", "granted"} => answer'[c].amount <= Ttl
    <3>1. answer'[c].amount \in Nat /\ answer[c].amount \in Nat
      BY <1>3, ClientFacts DEF Answers
    <3> QED  BY <1>3, <2>1, <3>1, TimesAre DEF ClientOK
  <2>5. c \notin fixed /\ at[c] = "ask" => copy'[c] + age'[c] > Margin
    BY <1>3, <2>1 DEF ClientOK
  <2> QED  BY <1>1, <2>1, <2>2, <2>3, <2>4, <2>5 DEF ClientOK
<1> QED  BY <1>4, <1>5 DEF ClientsOK

\* The relay is started again: every turn that was under way has failed.
LEMMA RestartStep ==
  ASSUME ClientsOK, UNCHANGED fixed, Restart
  PROVE  ClientsOK'
<1>1. /\ UNCHANGED <<copy, charges>>
      /\ at' = [c \in Clients |-> IF at[c] \in {"prompt", "quit"} THEN at[c] ELSE NextPlace(c)]
      /\ history' = [c \in Clients |->
                       IF Chatting(c) THEN SubSeq(history[c], 1, Len(history[c]) - 1)
                       ELSE history[c]]
      /\ answer' = [c \in Clients |-> NoAnswer]
      /\ orphans' = [c \in Clients |-> [this |-> 0, earlier |-> 0]]
      /\ age' = [c \in Clients |-> 0]
  BY DEF Restart
<1>2. ASSUME NEW c \in Clients
      PROVE  Alternating(history'[c]) /\ Even(history'[c]) /\ history'[c] \in Seq(Roles)
  <2>1. history'[c] = IF Chatting(c) THEN SubSeq(history[c], 1, Len(history[c]) - 1)
                      ELSE history[c]
    BY <1>1
  <2>2. Alternating(history[c]) /\ (Chatting(c) <=> ~ Even(history[c]))
    BY ClientFacts DEF ClientOK
  <2>3. Alternating(history'[c]) /\ Even(history'[c])
    BY <2>1, <2>2, Conversation
  <2> QED  BY <2>3 DEF Alternating
<1>3. ASSUME NEW c \in Clients
      PROVE  /\ at'[c] \in {"prompt", "quit"} /\ at'[c] \in Places
             /\ answer'[c] = NoAnswer /\ orphans'[c].this = 0 /\ charges'[c] = charges[c]
  BY <1>1, PlacesAre DEF NextPlace
<1>4. NoAnswer \in Answers /\ [this |-> 0, earlier |-> 0] \in Orphans
  BY StatusesAre DEF NoAnswer, Answers, Orphans
<1>5. ClientTypes'
  <2>1. at' \in [Clients -> Places] /\ history' \in [Clients -> Seq(Roles)]
    BY <1>1, <1>2, <1>3
  <2>2. answer' \in [Clients -> Answers] /\ orphans' \in [Clients -> Orphans]
    BY <1>1, <1>4
  <2>3. age' \in [Clients -> Nat]
    BY <1>1
  <2> QED  BY <1>1, <2>1, <2>2, <2>3 DEF ClientsOK, ClientTypes
<1>6. ASSUME NEW c \in Clients
      PROVE  ClientOK(c)'
  <2>1. Charged(c)' <= 1
    <3>1. charges[c] \in Nat /\ orphans[c].this \in Nat /\ charges[c] + orphans[c].this <= 1
      BY ClientFacts DEF ClientOK, Charged
    <3>2. Charged(c)' = charges[c] + 0
      BY <1>3 DEF Charged
    <3> QED  BY <3>1, <3>2
  <2> QED  BY <1>2, <1>3, <2>1 DEF ClientOK
<1> QED  BY <1>5, <1>6 DEF ClientsOK

LEMMA ClientsInit ==
  ASSUME Init
  PROVE  ClientsOK
<1>1. /\ at = [c \in Clients |-> "prompt"] /\ answer = [c \in Clients |-> NoAnswer]
      /\ copy = [c \in Clients |-> 0] /\ age = [c \in Clients |-> 0]
      /\ history = [c \in Clients |-> <<>>] /\ charges = [c \in Clients |-> 0]
      /\ orphans = [c \in Clients |-> [this |-> 0, earlier |-> 0]]
  BY DEF Init
<1>2. NoAnswer \in Answers /\ [this |-> 0, earlier |-> 0] \in Orphans
  BY StatusesAre DEF NoAnswer, Answers, Orphans
<1>3. Alternating(<<>>) /\ Even(<<>>) /\ <<>> \in Seq(Roles)
  <2>1. <<>> \in Seq(Roles) /\ Len(<<>>) = 0 /\ DOMAIN <<>> = {}
    OBVIOUS
  <2> QED  BY <2>1 DEF Alternating, Even
<1>4. ClientTypes
  BY <1>1, <1>2, <1>3, PlacesAre DEF ClientTypes
<1>5. ASSUME NEW c \in Clients
      PROVE  ClientOK(c)
  <2>1. /\ at[c] = "prompt" /\ answer[c] = NoAnswer /\ history[c] = <<>>
        /\ charges[c] = 0 /\ orphans[c].this = 0
    BY <1>1
  <2> QED  BY <1>3, <2>1 DEF ClientOK, Charged
<1> QED  BY <1>4, <1>5 DEF ClientsOK

LEMMA ClientsStep ==
  ASSUME ClientsOK, [Next]_vars
  PROVE  ClientsOK'
<1>1. CASE UNCHANGED vars
  BY <1>1, StillStep DEF vars, started, sessionVars
<1>2. CASE Next
  <2>1. UNCHANGED fixed
    BY <1>2 DEF Next, started
  <2>2. ASSUME NEW c \in Clients, UserStep(c) \/ ClientStep(c) \/ RelayStep(c)
        PROVE  Moved(c)
    <3>1. CASE UserStep(c)
      <4>1. SendMessage(c) \/ FetchBalance(c) \/ CmdAuth(c) \/ Clear(c) \/ Quit(c)
        BY <3>1 DEF UserStep, Say, CmdChat, AskBalance, CmdBalance, CmdModels
      <4> QED  BY <2>1, <4>1, SendMessageStep, FetchBalanceStep, PromptStep
    <3>2. CASE ClientStep(c)
      BY <2>1, <3>2, LoginAnsweredStep, AnsweredStep DEF ClientStep
    <3>3. CASE RelayStep(c)
      BY <2>1, <3>3, LoginStep, VerifiedStep, RequestStep, VeniceStep DEF RelayStep
    <3> QED  BY <2>2, <3>1, <3>2, <3>3
  <2>3. ASSUME NEW c \in Clients,
               \/ \E turn \in {"this", "earlier"} : OrphanEnds(c, turn)
               \/ ConnectionBreaks(c)
        PROVE  Moved(c)
    BY <2>1, <2>3, OrphanEndsStep, ConnectionBreaksStep
  <2>4. CASE \/ \E c \in Suspendable : Suspend(c) \/ Unsuspend(c)
             \/ \E ip \in Ips : OtherLogin(ip)
             \/ CleanLimiter
    <3>1. UNCHANGED <<fixed, at, answer, copy, age, history, orphans, charges>>
      BY <2>1, <2>4 DEF Suspend, Unsuspend, OtherLogin, CleanLimiter, sessionVars
    <3> QED  BY <3>1, StillStep
  <2>5. CASE Tick
    BY <2>1, <2>5, TickStep
  <2>6. CASE Restart
    BY <2>1, <2>6, RestartStep
  <2> QED  BY <1>2, <2>1, <2>2, <2>3, <2>4, <2>5, <2>6, MovedOK DEF Next, Step
<1> QED  BY <1>1, <1>2

LEMMA ClientsInvariant == Spec => []ClientsOK
BY ClientsInit, ClientsStep, PTL DEF Spec

\* A message is charged at most once, through retries, broken connections,
\* restarts, and handlers that outlive their client.
THEOREM ChargedOnce == Spec => []TurnChargedOnce
<1>1. ClientsOK => TurnChargedOnce
  <2> SUFFICES ASSUME ClientsOK, NEW c \in Clients
               PROVE  charges[c] <= 1
    BY DEF TurnChargedOnce
  <2>1. charges[c] \in Nat /\ orphans[c].this \in Nat /\ charges[c] + orphans[c].this <= 1
    BY ClientFacts DEF ClientOK, Charged
  <2> QED  BY <2>1
<1> QED  BY <1>1, ClientsInvariant, PTL

\* Between turns the conversation is questions with their answers, whatever
\* has failed in the turns before.
THEOREM Complete == Spec => []TurnsComplete
<1>1. ClientsOK => TurnsComplete
  BY ClientFacts DEF TurnsComplete, ClientOK, Alternating, Even
<1> QED  BY <1>1, ClientsInvariant, PTL

\* A session taken with its margin is not refused before the margin has passed.
THEOREM Margins == Spec => MarginHolds
<1>1. ClientsOK /\ [Next]_vars
        => [\A c \in Clients \ fixed :
              at[c] = "ask" /\ answer'[c].status = "401" /\ row[c] = 0 /\ copy[c] = 0
                => age[c] > Margin]_vars
  <2> SUFFICES ASSUME ClientsOK, NEW c \in Clients \ fixed, at[c] = "ask", copy[c] = 0
               PROVE  age[c] > Margin
    OBVIOUS
  <2>1. age[c] \in Nat /\ copy[c] + age[c] > Margin
    BY ClientFacts DEF ClientOK
  <2> QED  BY <2>1, TimesAre
<1> QED  BY <1>1, ClientsInvariant, PTL DEF Spec, MarginHolds
=============================================================================
