------------------------------ MODULE DealMutex ------------------------------
(***************************************************************************)
(* What the sync lock promises, without rows, tokens or clocks: a worker   *)
(* is inside the critical section of at most one key, and a key has at     *)
(* most one worker inside.  Leaving needs no cooperation: it is the        *)
(* release of a worker that finished and the death of one that did not.    *)
(***************************************************************************)
CONSTANTS Worker, Key, Nowhere

VARIABLE at   \* at[w] is the key whose critical section w is in, or Nowhere

Init == at = [w \in Worker |-> Nowhere]

Enter(w, k) ==
  /\ at[w] = Nowhere
  /\ \A v \in Worker : at[v] # k
  /\ at' = [at EXCEPT ![w] = k]

Leave(w) ==
  /\ at[w] # Nowhere
  /\ at' = [at EXCEPT ![w] = Nowhere]

Next == \E w \in Worker : Leave(w) \/ \E k \in Key : Enter(w, k)

Spec == Init /\ [][Next]_at
=============================================================================
