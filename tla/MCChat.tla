------------------------------- MODULE MCChat -------------------------------
(* Small instances of Chat for TLC: requests are numbered.                 *)
EXTENDS Chat

CONSTANT Requests   \* bound: requests to the gateway
MCAsk == 1..Requests
=============================================================================
