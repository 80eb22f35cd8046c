----------------------------- MODULE EventRouting -----------------------------
(***************************************************************************)
(* What the code decides from the two type fields of a HubSpot event.  The *)
(* decision is spread over six functions that list the same types again:   *)
(* the payment and venue tests, the lock key, the dispatch, the follow-up  *)
(* of a coalesced event and the payload validation of the handlers.        *)
(*                                                                         *)
(* An event is [sub, obj, listed]: its subscriptionType, the class of its  *)
(* objectTypeId, and whether its objectId is on the configured allowlist.  *)
(***************************************************************************)

DealSub    == {"deal.creation", "deal.propertyChange"}
VenueSub   == {"venue.creation", "venue.propertyChange"}
LineSub    == {"line_item.creation", "line_item.propertyChange",
               "line_item.deletion"}
ObjectSub  == {"object.creation", "object.propertyChange"}
PaymentSub == {"payment.creation", "payment.propertyChange"}

\* "line" is any of the line-item object ids; "other" any id that the code
\* does not name, or none.
Obj   == {"venue", "line", "payment", "other"}
Sub   == DealSub \cup VenueSub \cup LineSub \cup ObjectSub \cup PaymentSub
         \cup {"contact.creation"}
Event == [sub : Sub, obj : Obj, listed : BOOLEAN]

IsVenue(e)   == e.sub \in VenueSub \/ (e.sub \in ObjectSub /\ e.obj = "venue")
IsPayment(e) == e.obj = "payment" \/ e.sub \in PaymentSub

\* The allowlist looks at the event's own objectId and never at a venue's.
Filtered(e, enabled) == enabled /\ ~IsVenue(e) /\ ~e.listed

\* Mutant: line items that come as generic objects are forgotten.
KeyKindOwnLines(e) ==
  CASE IsVenue(e)        -> "venue"
    [] e.sub \in LineSub -> "parent"
    [] OTHER             -> "own"

\* What the lock key is made of: "venue" the prefixed venue id, "parent" the
\* deal of a line item (a lookup, which may find none), "own" the objectId.
KeyKind(e) ==
  CASE IsVenue(e)                               -> "venue"
    [] e.sub \in LineSub                        -> "parent"
    [] e.sub \in ObjectSub /\ e.obj = "line"    -> "parent"
    [] e.sub \in ObjectSub /\ e.obj = "payment" -> "none"
    [] OTHER                                    -> "own"

Handler(e) ==
  CASE e.sub \in DealSub                        -> "deal"
    [] e.sub \in VenueSub                       -> "venue"
    [] e.sub \in LineSub                        -> "line_item"
    [] e.sub \in ObjectSub /\ e.obj # "other"   ->
         [venue |-> "venue", payment |-> "payment", line |-> "line_item"][e.obj]
    [] OTHER                                    -> "unsupported"

\* The handler of the follow-up that stands in for a coalesced event.
FollowUp(kind) == IF kind = "venue" THEN "venue" ELSE "deal"

\* The handlers' own check of the payload they are given.
ValidPayload(e) ==
  \/ e.sub \in DealSub \cup VenueSub \cup LineSub
  \/ e.sub \in ObjectSub /\ e.obj \in {"venue", "line"}

\* The tables agree on e: a handler never refuses the payload it is given
\* and runs under the key of the record it writes, and the follow-up of that
\* key serves the same record.
Agree(e) ==
  Handler(e) # "unsupported" =>
    /\ ValidPayload(e)
    /\ KeyKind(e) = [deal |-> "own", line_item |-> "parent",
                     venue |-> "venue"][Handler(e)]
    /\ (FollowUp(KeyKind(e)) = "venue") = (Handler(e) = "venue")
=============================================================================
