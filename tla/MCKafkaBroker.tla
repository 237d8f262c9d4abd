---------------------------- MODULE MCKafkaBroker ----------------------------
(* Instances of KafkaBroker for TLC.                                       *)
EXTENDS KafkaBroker

CONSTANTS s1, s2
MCSubs == {s1, s2}
=============================================================================
