--------------------------- MODULE InvoiceRegister ---------------------------
(***************************************************************************)
(* What the integration promises about one deal's invoice, without locks,  *)
(* messages or workers.  A deal's own properties and its line items carry  *)
(* a version each, counted by the edits made in HubSpot; an invoice shows  *)
(* the versions it was last written from.  Writing moves an invoice        *)
(* towards the deal and never back: it shows only versions that the deal   *)
(* has had, and never an older one than before.                            *)
(***************************************************************************)
EXTENDS Naturals

CONSTANTS Deal, Absent

VARIABLES
  version,   \* version[d].fields, version[d].lines: what HubSpot holds
  invoice    \* invoice[d]: the versions NetSuite shows, or Absent

Init ==
  /\ version = [d \in Deal |-> [fields |-> 1, lines |-> 1]]
  /\ invoice \in [Deal -> {Absent, [fields |-> 1, lines |-> 1]}]

\* Edits in HubSpot, one or more deals at a time.
Edit ==
  /\ version' \in [Deal -> [fields : Nat, lines : Nat]]
  /\ \A d \in Deal :
       /\ version'[d].fields >= version[d].fields
       /\ version'[d].lines >= version[d].lines
  /\ UNCHANGED invoice

Shown(d) == IF invoice[d] = Absent THEN [fields |-> 0, lines |-> 0] ELSE invoice[d]

Sync(d, f, l) ==
  /\ f >= Shown(d).fields /\ f <= version[d].fields
  /\ l >= Shown(d).lines /\ l <= version[d].lines
  /\ invoice' = [invoice EXCEPT ![d] = [fields |-> f, lines |-> l]]
  /\ UNCHANGED version

Next ==
  \/ Edit
  \/ \E d \in Deal :
       \E f \in 1 .. version[d].fields, l \in 1 .. version[d].lines : Sync(d, f, l)

Spec == Init /\ [][Next]_<<version, invoice>>
=============================================================================
