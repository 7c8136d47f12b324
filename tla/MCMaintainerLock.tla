-------------------------- MODULE MCMaintainerLock --------------------------
EXTENDS MaintainerLock, TLC

LockSymmetry == Permutations(Acquirers) \cup Permutations(Inodes)
=============================================================================
