--------------------------- MODULE LockTableProofs ---------------------------
(* What each conditional write does to one row of the lock table: its type *)
(* and whose row it is afterwards.                                         *)
EXTENDS LockTable, TLAPS

\* put_item stores a row, owned by the token it carries and not pending.
LEMMA HeldRowType ==
  ASSUME NEW t \in Token, NEW c \in Int, NEW ttl \in Int
  PROVE  /\ HeldRow(t, c, ttl) \in Row
         /\ OwnedBy(HeldRow(t, c, ttl), t)
         /\ HeldRow(t, c, ttl).expiresAt = c + ttl
         /\ HeldRow(t, c, ttl).pending = FALSE
<1>1. HeldRow(t, c, ttl) \in Row
  BY DEF HeldRow, Row
<1>2. HeldRow(t, c, ttl) # None
  BY <1>1, NoneAssumption
<1>3. HeldRow(t, c, ttl).owner = t
  BY DEF HeldRow
<1> QED BY <1>1, <1>2, <1>3 DEF HeldRow, OwnedBy

\* mark_pending_resync keeps the owner and the expiry of whatever row it finds.
LEMMA MarkedKeeps ==
  ASSUME NEW row \in Row \cup {None}
  PROVE  /\ Marked(row) \in Row \cup {None}
         /\ row = None <=> Marked(row) = None
         /\ \A t \in Token : OwnedBy(Marked(row), t) <=> OwnedBy(row, t)
         /\ row # None => Marked(row).owner = row.owner
         /\ row # None => Marked(row).expiresAt = row.expiresAt
         /\ row # None => Marked(row).pending
  BY NoneAssumption DEF Marked, Row, OwnedBy

\* consume_pending_resync, applied to a row it may consume, keeps the owner
\* and the expiry.
LEMMA ConsumedKeeps ==
  ASSUME NEW row \in Row \cup {None}, row # None
  PROVE  /\ Consumed(row) \in Row
         /\ \A t \in Token : OwnedBy(Consumed(row), t) <=> OwnedBy(row, t)
         /\ Consumed(row).owner = row.owner
         /\ Consumed(row).expiresAt = row.expiresAt
  BY NoneAssumption DEF Consumed, Row, OwnedBy

\* delete_item removes the row of the token it carries and no other row.
LEMMA ReleasedFenced ==
  ASSUME NEW row \in Row \cup {None}, NEW t
  PROVE  /\ Released(row, t) \in {row, None}
         /\ ~OwnedBy(row, t) => Released(row, t) = row
  BY DEF Released
=============================================================================
