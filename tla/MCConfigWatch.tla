---------------------------- MODULE MCConfigWatch ----------------------------
EXTENDS ConfigWatch
=============================================================================
