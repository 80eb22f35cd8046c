--------------------------- MODULE MCEventDelivery ---------------------------
(* Small bodies for TLC: every type of event alone, a batch of two chunks   *)
(* with an invalid item and one that is no object, and what is not a batch. *)
EXTENDS EventDelivery

Deal == [sub |-> "deal.propertyChange", obj |-> "other", listed |-> TRUE]
Pay  == [sub |-> "payment.creation", obj |-> "payment", listed |-> TRUE]

MCConfig == {[url |-> TRUE,  verify |-> TRUE,  filter |-> TRUE],
             [url |-> TRUE,  verify |-> FALSE, filter |-> FALSE],
             [url |-> FALSE, verify |-> FALSE, filter |-> FALSE]}

MCBody ==
  {[form |-> "object", items |-> <<e>>] : e \in Event}
  \cup {[form |-> "array", items |-> s] :
          s \in {<<>>, <<Invalid>>, <<Junk, Invalid>>,
                 <<Pay, Junk, Deal, Invalid, Pay>>}}
  \cup {[form |-> "scalar", items |-> <<>>],
        [form |-> "malformed", items |-> <<>>]}
=============================================================================
