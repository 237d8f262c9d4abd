------------------------------ MODULE MCSequence ------------------------------
EXTENDS Sequence
=============================================================================
