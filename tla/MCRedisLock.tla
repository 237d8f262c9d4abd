----------------------------- MODULE MCRedisLock -----------------------------
EXTENDS RedisLock, TLC

Symmetry == Permutations(Token) \cup Permutations(Callers) \cup Permutations(Lockers)
=============================================================================
