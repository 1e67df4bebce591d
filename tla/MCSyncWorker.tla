---------------------------- MODULE MCSyncWorker ----------------------------
EXTENDS SyncWorker, TLC

\* Applications with credentials are interchangeable, and so are handlers.
Symmetry == Permutations(Configured) \cup Permutations(Handlers)
=============================================================================
