---------------------------- MODULE MCRelayServer ----------------------------
(* Instances of RelayServer for TLC; the bounds are in the .cfg file.      *)
EXTENDS RelayServer

Price(input, output, cache) == [input |-> input, output |-> output, cache |-> cache]
Tokens(prompt, completion, cache) ==
  [prompt |-> prompt, completion |-> completion, cache |-> cache]

\* The one listed is reserved for at the minimum.
OneListed == [model \in {"small"} |-> Price(0, 0, 1)]
Default == Price(1, 1, 1)

\* A request's estimate, and usage below, at nothing and above it.
Estimated == Tokens(1, 1, 0)
ThreeUsages == {Tokens(0, 0, 0), Tokens(1, 0, 0), Tokens(1, 2, 0)}

\* Borrowers and payments are interchangeable in every action and property.
RelaySymmetry == Permutations(Borrowers) \cup Permutations(Requests) \cup Permutations(TxHashes)
=============================================================================
