--------------------------- MODULE MCCoalescedSync ---------------------------
(* CoalescedSync on small sets.  A token is needed per worker and per row. *)
EXTENDS CoalescedSync, TLC

Symmetry == Permutations(Worker)
=============================================================================
