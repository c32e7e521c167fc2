------------------------------- MODULE MCSDiem -------------------------------
(* Instances of SDiem for TLC; the bounds are in the .cfg file.            *)
EXTENDS SDiem
=============================================================================
