------------------------------ MODULE MCWebApp ------------------------------
(* Instances of WebApp for TLC; the bounds are in the .cfg files.          *)
EXTENDS WebApp
=============================================================================
