------------------------------ MODULE LineItems ------------------------------
(***************************************************************************)
(* How the line items of a deal become the lines of its invoice:           *)
(* process_deal_lineitems_change and what it calls.  The lines are first   *)
(* consolidated, one row per SKU, then filtered, then looked up.           *)
(*                                                                         *)
(* A HubSpot line is [sku, sub, halves, amount]: halves is twice its       *)
(* quantity, so that a fractional quantity is a whole number here; amounts *)
(* are whole (a float's rounding is left out, and so are names, which only *)
(* reach the log).  A text that is no number has been read as 0.           *)
(***************************************************************************)
EXTENDS Integers, Sequences, FiniteSets, Functions

CONSTANTS
  Billable,   \* the SKUs that start with 3
  Owned,      \* the subcategory whose free lines are skipped
  NoSub,      \* no subcategory
  QueryLimit  \* how many SKUs a SuiteQL query asks for: 1000

ASSUME LimitAssumption == QueryLimit \in Nat \ {0}

\* A deal's list of line items.
IsLines(ls) ==
  /\ ls \in Seq(Range(ls))
  /\ \A l \in Range(ls) : l.halves \in Int /\ l.amount \in Int

\* The first line of each SKU; how many places precede one; places in the
\* order of the list.
Firsts(ls)    == {i \in DOMAIN ls : \A j \in 1 .. i - 1 : ls[j].sku # ls[i].sku}
Before(is, i) == Cardinality({j \in is : j < i})
InOrder(is)   == [n \in 1 .. Cardinality(is) |->
                    CHOOSE i \in is : Before(is, i) = n - 1]

Rows(ls, sku)     == {i \in DOMAIN ls : ls[i].sku = sku}
Halves(ls, is)    == SumFunctionOnSet([i \in is |-> ls[i].halves], is)
AmountOf(ls, is)  == SumFunctionOnSet([i \in is |-> ls[i].amount], is)

\* Mutant: the last line's amount instead of the sum.
GroupLast(ls, sku) ==
  LET is   == Rows(ls, sku)
      last == CHOOSE i \in is : \A j \in is : j <= i
  IN  [sku |-> sku, sub |-> ls[last].sub,
       halves |-> Halves(ls, is), amount |-> ls[last].amount]

\* One row per SKU: the first subcategory that is not empty, summed
\* quantities and amounts.
Group(ls, sku) ==
  LET is   == Rows(ls, sku)
      subs == {i \in is : ls[i].sub # NoSub}
  IN  [sku |-> sku, halves |-> Halves(ls, is), amount |-> AmountOf(ls, is),
       sub |-> IF subs = {} THEN NoSub
               ELSE ls[CHOOSE i \in subs : \A j \in subs : i <= j].sub]

\* The consolidated row that stands where the SKU of line i first occurs.
Row(ls, i) == Group(ls, ls[i].sku)

\* Mutant: the filter of free lines looks at the subcategory alone.
EligibleUnpriced(row) == row.sub # Owned /\ row.sku \in Billable

\* The filter sees consolidated rows: a free line of owned equipment is kept
\* when another line of its SKU has a price or an earlier subcategory.
Eligible(row) == ~(row.sub = Owned /\ row.amount <= 0) /\ row.sku \in Billable

\* int() cuts off the fraction of the quantity but not of the rate, which is
\* the amount over the uncut quantity, or 0.
Truncated(halves) == IF halves >= 0 THEN halves \div 2 ELSE -((-halves) \div 2)
InvoiceLine(row) ==
  [sku |-> row.sku, quantity |-> Truncated(row.halves), amount |-> row.amount,
   rate |-> IF row.halves = 0 THEN <<0, 1>> ELSE <<2 * row.amount, row.halves>>]

\* What is asked for: the SKUs that pass, in their order and in queries of at
\* most QueryLimit.
Asked(ls)      == {i \in Firsts(ls) : Eligible(Row(ls, i))}
QueryOf(ls, i) == Before(Asked(ls), i) \div QueryLimit
Queries(ls)    == {{ls[j].sku : j \in {k \in Asked(ls) : QueryOf(ls, k) = QueryOf(ls, i)}} :
                     i \in Asked(ls)}

\* The lines sent to NetSuite, in the order of their SKUs' first lines; found
\* are the SKUs that the queries returned, the others are dropped.
Kept(ls, found) == {i \in Asked(ls) : ls[i].sku \in found}
InvoiceLines(ls, found) ==
  LET line  == [i \in Firsts(ls) |-> InvoiceLine(Row(ls, i))]
      order == InOrder(Kept(ls, found))
  IN  [n \in DOMAIN order |-> line[order[n]]]
=============================================================================
