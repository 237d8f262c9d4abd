------------------------------- MODULE MCPubSub -------------------------------
(* Instances of PubSub for TLC.                                            *)
EXTENDS PubSub

CONSTANTS n1, n2, w1, w2, t1, t2
MCNames   == {n1, n2}
MCWorkers == {w1, w2}
MCTopics  == {t1, t2}
MCHandled == {t1}
=============================================================================
