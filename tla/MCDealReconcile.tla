-------------------------- MODULE MCDealReconcile --------------------------
(* Three families of worlds for TLC: races of deals and a venue for one     *)
(* location, every short list of line items of a settled deal, and deals    *)
(* that lack something.                                                     *)
EXTENDS DealReconcile, SequencesExt

CONSTANTS d1, d2, v1, v2, l1, l2, l3, n1, n2, a, b, unknown, other, owned, rent

At(name, ext) == [name |-> name, ext |-> ext]
OnlyL1(l)     == [x \in Loc |-> IF x = l1 THEN l ELSE None]
Item(sku, sub, halves, amount) ==
  [sku |-> sku, sub |-> sub, halves |-> halves, amount |-> amount]
Names(first, second) == (v1 :> first) @@ (v2 :> second)

Plain == [want |-> n1, name |-> Names(n1, n2), strict |-> FALSE,
          locs |-> OnlyL1(At(n1, v1)), invoiced |-> {}, events |-> {d1},
          lines |-> [d \in Deal |-> <<Item(a, rent, 4, 6)>>],
          flaws |-> [d \in Deal |-> {}]]

\* No location, one to claim, the venue's own, one under its old name, another
\* venue's, and one that waits beside the venue's own.
MCLocs == {OnlyL1(l) : l \in {None, At(n1, None), At(n1, v1), At(n2, v1), At(n1, v2)}}
          \cup {[OnlyL1(At(n1, None)) EXCEPT ![l2] = At(n2, v1)]}

Races ==
  {[Plain EXCEPT !.strict = s, !.locs = l, !.events = e, !.name = n] :
     s \in BOOLEAN, l \in MCLocs,
     e \in {{d1, d2}, {d1, v1, v2}},
     n \in {Names(n1, n2), Names(n1, n1)}}
  \cup {[Plain EXCEPT !.events = {d1, v2}, !.name = Names(n1, NoName)]}

Menu == {Item(a, owned, 2, 0), Item(a, NoSub, 3, 5), Item(b, owned, 2, 4),
         Item(b, rent, 1, -4), Item(unknown, NoSub, 2, 3), Item(other, rent, 2, 3)}

WithLines(s, i) ==
  [Plain EXCEPT !.lines = [d \in Deal |-> IF d = d1 THEN s ELSE <<>>], !.invoiced = i]
Lines == {WithLines(s, {}) : s \in BoundedSeq(Menu, 3)}
         \cup {WithLines(s, {d1}) : s \in BoundedSeq(Menu, 2)}

Flaws ==
  {[Plain EXCEPT !.flaws = [d \in Deal |-> IF d = d1 THEN f ELSE {}], !.invoiced = i] :
     f \in {{x, y} : x \in Flaw, y \in Flaw \cap {"update", "fee"}}, i \in {{}, {d1}}}

MCWorlds == Races \cup Lines \cup Flaws
=============================================================================
