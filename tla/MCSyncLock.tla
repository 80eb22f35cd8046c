----------------------------- MODULE MCSyncLock -----------------------------
(* SyncLock on small sets.  A token is needed per worker and per row.      *)
EXTENDS SyncLock, TLC

Symmetry == Permutations(Worker) \cup Permutations(Key) \cup Permutations(Token)
=============================================================================
