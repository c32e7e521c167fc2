---------------------------- MODULE MCRelayClient ----------------------------
(* Instances of RelayClient for TLC; the bounds are in the .cfg files.     *)
EXTENDS RelayClient

CONSTANTS ip1

\* Without a proxy in front the relay takes every client for "unknown".
OneIp(c) == ip1
=============================================================================
