-------------------------- MODULE MCEntryLifecycle --------------------------
EXTENDS EntryProperties, TLC

WorkersSymmetry == Permutations(Workers)
=============================================================================
