-------------------------- MODULE MCDepositWatcher --------------------------
(* Instances of DepositWatcher for TLC; the bounds are in the .cfg files.  *)
EXTENDS DepositWatcher

\* One deposit per transaction, or the first two in one (a contract that
\* deposits twice).
SeparateTxs == [e \in 1..MaxEvents |-> e]
FirstTwoTogether == [e \in 1..MaxEvents |-> IF e = 2 THEN 1 ELSE e]

\* A vault that emits what the watcher's ABI declares, and DIEMVault.
AsDeclared == DEPOSITED_EVENT
AsEmitted == DepositedParameters
=============================================================================
