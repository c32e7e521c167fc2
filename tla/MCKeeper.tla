------------------------------ MODULE MCKeeper ------------------------------
(* Instances of Keeper for TLC; the bounds are in the .cfg files.          *)
EXTENDS Keeper
=============================================================================
