------------------------------- MODULE MCClients -------------------------------
(* Instances of Clients for TLC.                                           *)
EXTENDS Clients

CONSTANTS u1, u2
MCLabel == [c \in {"get", "setrange", "ttl"} |-> IF c = "setrange" THEN "ttl" ELSE c]
=============================================================================
