--------------------------- MODULE PrepaidAccounts ---------------------------
(***************************************************************************)
(* What the relay promises a borrower: credit is bought, held while a      *)
(* request is with Venice, and then either spent or given back; what is    *)
(* not used in time lapses.  No step touches the account of a borrower it  *)
(* is not about, but for midnight and a crash of the relay, which may only *)
(* take credit away: unused credit at midnight, held credit in a crash.    *)
(***************************************************************************)
EXTENDS Integers

CONSTANTS Borrowers, Amounts    \* Amounts: the sums that may be granted

VARIABLES credit, held, spent   \* each: borrower -> amount
accounts == <<credit, held, spent>>

Init ==
  /\ credit = [b \in Borrowers |-> 0]
  /\ held = [b \in Borrowers |-> 0]
  /\ spent = [b \in Borrowers |-> 0]

Grant(b, amount) ==
  /\ credit' = [credit EXCEPT ![b] = @ + amount]
  /\ UNCHANGED <<held, spent>>

Hold(b, amount) ==
  /\ credit' = [credit EXCEPT ![b] = @ - amount]
  /\ held' = [held EXCEPT ![b] = @ + amount]
  /\ UNCHANGED spent

Release(b, amount) ==
  /\ credit' = [credit EXCEPT ![b] = @ + amount]
  /\ held' = [held EXCEPT ![b] = @ - amount]
  /\ UNCHANGED spent

\* A cost above the amount held is taken from the credit, or not at all.
Settle(b, amount, cost) ==
  /\ held' = [held EXCEPT ![b] = @ - amount]
  /\ spent' = [spent EXCEPT ![b] = @ + cost]
  /\ \/ credit' = [credit EXCEPT ![b] = @ + amount - cost]
     \/ cost > amount /\ UNCHANGED credit

Lapse ==
  /\ \A b \in Borrowers : credit'[b] \in 0..credit[b]
  /\ credit' = [b \in Borrowers |-> credit'[b]]
  /\ UNCHANGED <<held, spent>>

Crash ==
  /\ held' = [b \in Borrowers |-> 0]
  /\ UNCHANGED <<credit, spent>>

Next ==
  \/ Lapse
  \/ Crash
  \/ \E b \in Borrowers :
       \/ \E amount \in Amounts : Grant(b, amount)
       \/ \E amount \in 1..credit[b] : Hold(b, amount)
       \/ \E amount \in 1..held[b] :
            \/ Release(b, amount)
            \/ LET cost == spent'[b] - spent[b] IN cost >= 0 /\ Settle(b, amount, cost)

Spec == Init /\ [][Next]_accounts
=============================================================================
