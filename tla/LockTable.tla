------------------------------ MODULE LockTable ------------------------------
(***************************************************************************)
(* The rows of the DynamoDB SyncLockTable and the conditional writes that  *)
(* locks.py makes on them.  A row serialises the processing of one key (a  *)
(* deal id or a venue key).  It carries the owner token of the acquisition *)
(* that put it, the second it expires at, and the pending_resync flag that *)
(* contending events set instead of retrying.                              *)
(*                                                                         *)
(* Every operator is a function of one row: DynamoDB evaluates the         *)
(* condition and applies the write of one item atomically, so the modules  *)
(* that use these operators make each of them one step.                    *)
(***************************************************************************)
EXTENDS Integers

CONSTANTS
  Token,   \* owner tokens, one per call of try_acquire (uuid4)
  None     \* no row, no token, no key

Row == [owner : Token, expiresAt : Int, pending : BOOLEAN]

ASSUME NoneAssumption == None \notin Row /\ None \notin Token

\* Mutants: an off-by-one at the expiry; the condition left out.
AcquirableAtExpiry(row, clock) == row # None => row.expiresAt <= clock
AcquirableAlways(row, clock)   == TRUE

\* put_item's condition: attribute_not_exists(deal_id) OR expiresAt < :now
Acquirable(row, clock) == row # None => row.expiresAt < clock

\* Mutant: the row lapses a second early.
HeldRowShort(token, clock, ttl) ==
  [owner |-> token, expiresAt |-> clock + ttl - 1, pending |-> FALSE]

\* put_item's Item: the previous row, pending_resync included, is replaced
HeldRow(token, clock, ttl) ==
  [owner |-> token, expiresAt |-> clock + ttl, pending |-> FALSE]

\* the condition #owner = :token of delete_item and of consume's update_item
OwnedBy(row, token) == row # None /\ row.owner = token

\* Mutant: delete_item without the condition.
ReleasedUnfenced(row, token) == None

\* delete_item under that condition
Released(row, token) == IF OwnedBy(row, token) THEN None ELSE row

\* Mutants: update_item without attribute_exists creates a row; no write.
MarkedUpsert(row) == IF row = None THEN [pending |-> TRUE] ELSE [row EXCEPT !.pending = TRUE]
MarkedNot(row)    == row

\* mark_pending_resync: whoever owns the row, if there is one
Marked(row) == IF row = None THEN None ELSE [row EXCEPT !.pending = TRUE]

\* consume_pending_resync's condition
Consumable(row, token) == OwnedBy(row, token) /\ row.pending

\* Mutant: the flag is read but not cleared.
ConsumedNot(row) == row

\* consume_pending_resync's update
Consumed(row) == [row EXCEPT !.pending = FALSE]
=============================================================================
