------------------------------ MODULE MCLockRun ------------------------------
EXTENDS LockRun
=============================================================================
