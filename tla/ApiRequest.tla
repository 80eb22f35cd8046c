------------------------------ MODULE ApiRequest ------------------------------
(***************************************************************************)
(* What becomes of a message when a remote call is answered late, never,   *)
(* or with 429: the retry loop of make_request (NetSuite) and _request     *)
(* (HubSpot), and what each caller makes of the response the loop ends     *)
(* with.  "upsert" is the commit of reconcile_deal_invoice: look for the   *)
(* invoice, create or update it, read its number, stamp the deal.  One     *)
(* worker; another one may create the same invoice under it.               *)
(*                                                                         *)
(* A request that cannot be answered is retried three times, and then:     *)
(*   - a failure (no answer, or a status of 400 and up) is raised;         *)
(*   - a 429 is raised by the HubSpot client, and returned as if it were   *)
(*     an answer by the NetSuite client.                                   *)
(***************************************************************************)
EXTENDS Naturals

CONSTANTS
  Ops,        \* the operations that run, see Op
  MaxFaults,  \* bound of the model: calls that the network or a server fails
  None

\* upsert        the invoice of a deal at a create stage
\* venue         the invoice of a deal without eligible lines
\* lines         process_line_item's write
\* customer      get_customer_by_email
\* subsidiaries  get_customer_subsidiaries behind its cache
\* mapping       the SKU query of a reconcile (process_deal_lineitems_change)
\* contact       any HubSpot read
Op == {"upsert", "venue", "lines", "customer", "subsidiaries", "mapping",
       "contact"}

ASSUME OpAssumption == Ops \subseteq Op /\ MaxFaults \in Nat

VARIABLES
  op, step,   \* the operation and its current request, or None
  attempt,    \* the loop variable of the request
  calls,      \* calls sent for the request
  end,        \* "open", or how the loop ended: "ok", "limited", "raised"
  refused,    \* the failure raised is an HTTPError: the server answered
  found,      \* the answer of the last invoice search
  fate,       \* the message: "open", "acked", "retry"
  record,     \* the invoice at NetSuite: None, or who wrote it last
  indexed,    \* the search has caught up with the record
  written,    \* NetSuite has taken this operation's payload
  rejected,   \* why the deal is told "Not created": None, "limited", "raised"
  cache,      \* what _SUBSIDIARY_CACHE holds: None, "rows", "empty"
  faults      \* faults left

loop   == <<attempt, calls, end, refused>>
remote == <<record, indexed, written>>
vars   == <<op, step, loop, found, fate, remote, rejected, cache, faults>>

Searches == {"lookup", "reread", "recover"}
Creates  == {"post"}
Updates  == {"patch", "venuePatch", "linesPatch"}
Hubspot  == {"stamp", "contactGet"}
Steps    == Searches \cup Creates \cup Updates \cup Hubspot
              \cup {"number", "customerGet", "subsidiaryGet", "skuQuery"}

ASSUME NoneAssumption == None \notin Op \cup Steps

ValuesOK ==
  /\ op \in Ops \cup {None} /\ step \in Steps \cup {None}
  /\ attempt \in {0, 1, 2, 4} /\ calls \in 0 .. 3
  /\ end \in {"open", "ok", "limited", "raised"}
  /\ fate \in {"open", "acked", "retry"}
  /\ record \in {None, "mine", "other"}
  /\ rejected \in {None, "limited", "raised"}
  /\ cache \in {None, "rows", "empty"} /\ faults \in 0 .. MaxFaults

FlagsOK ==
  /\ refused \in BOOLEAN /\ found \in BOOLEAN
  /\ indexed \in BOOLEAN /\ written \in BOOLEAN

TypeOK == ValuesOK /\ FlagsOK

Init ==
  /\ op = None /\ step = None /\ attempt = 0 /\ calls = 0
  /\ end = "open" /\ refused = FALSE /\ found = FALSE /\ fate = "open"
  /\ record = None /\ indexed = FALSE /\ written = FALSE
  /\ rejected = None /\ cache = None /\ faults = MaxFaults

-----------------------------------------------------------------------------
(* The callers                                                             *)

First == [upsert |-> "lookup", venue |-> "venuePatch", lines |-> "linesPatch",
          customer |-> "customerGet", subsidiaries |-> "subsidiaryGet",
          mapping |-> "skuQuery", contact |-> "contactGet"]

\* What the caller does next when the request was answered.
OnOk == [lookup |-> IF found THEN "patch" ELSE "post",
         patch |-> "number", post |-> "number", number |-> "stamp",
         reread |-> IF found THEN "number" ELSE "retry",
         recover |-> IF found THEN "patch" ELSE "retry",
         venuePatch |-> "stamp", linesPatch |-> "acked", stamp |-> "acked",
         customerGet |-> "acked", subsidiaryGet |-> "acked",
         skuQuery |-> "acked", contactGet |-> "acked"]

\* Mutant: create_or_update_invoice returns the id it knows at any status.
OnLimitedIdKept ==
  [lookup |-> "post", patch |-> "number", post |-> "retry", number |-> "retry",
   reread |-> "retry", recover |-> "retry", venuePatch |-> "stamp",
   linesPatch |-> "acked", customerGet |-> "stamp", subsidiaryGet |-> "stamp",
   skuQuery |-> IF record # None THEN "venuePatch" ELSE "stamp"]

\* ... and when it holds the last 429, which has no items, no tranId and no
\* status of success.  A search finds nothing; an upsert returns None, and a
\* missing tranId is a KeyError.  A customer, its subsidiaries and the SKUs
\* look absent, which is told to the deal; with no SKU found, an invoice that
\* exists gets its venue only.  Nobody looks at the status of the PATCHes.
OnLimited ==
  [lookup |-> "post", patch |-> "retry", post |-> "retry", number |-> "retry",
   reread |-> "retry", recover |-> "retry", venuePatch |-> "stamp",
   linesPatch |-> "acked", customerGet |-> "stamp", subsidiaryGet |-> "stamp",
   skuQuery |-> IF record # None THEN "venuePatch" ELSE "stamp"]

\* A failed create may have lost a race: look for the winner.  The mapping
\* turns every exception into False, a rejection; nobody else does.
OnRaised ==
  IF step = "post" /\ refused THEN "recover"
  ELSE IF step = "skuQuery" THEN "stamp" ELSE "retry"

Request(s) ==
  /\ step' = s
  /\ attempt' = 0 /\ calls' = 0 /\ end' = "open" /\ refused' = FALSE

\* The invoice is there when the handlers with an id patch it.
Begin(o) ==
  /\ op = None \/ fate # "open"
  /\ o \in {"venue", "lines"} => record # None
  /\ o = "subsidiaries" => cache = None
  /\ op' = o /\ fate' = "open" /\ found' = FALSE /\ written' = FALSE
  /\ rejected' = None
  /\ Request(First[o])
  /\ UNCHANGED <<record, indexed, cache, faults>>

\* get_or_compute finds an entry that is not None.
BeginCached ==
  /\ op = None \/ fate # "open"
  /\ "subsidiaries" \in Ops /\ cache # None
  /\ op' = "subsidiaries" /\ found' = FALSE /\ written' = FALSE
  /\ IF cache = "rows"
     THEN /\ fate' = "acked" /\ rejected' = None
          /\ step' = None /\ UNCHANGED loop
     ELSE /\ fate' = "open" /\ rejected' = "limited"
          /\ Request("stamp")
  /\ UNCHANGED <<record, indexed, cache, faults>>

Goes(next) ==
  IF next \in {"acked", "retry"}
  THEN fate' = next /\ UNCHANGED <<step, loop>>
  ELSE Request(next) /\ UNCHANGED fate

\* The requests whose empty answer rejects the deal.
Judging == {"customerGet", "subsidiaryGet", "skuQuery"}

Conclude ==
  /\ fate = "open" /\ end # "open"
  /\ CASE end = "ok"      -> \E s \in {OnOk[step]} \cup
                                  IF step = "post" THEN {"reread"} ELSE {} : Goes(s)
       [] end = "limited" -> Goes(OnLimited[step])
       [] end = "raised"  -> Goes(OnRaised)
  /\ cache' = IF step # "subsidiaryGet" \/ end = "raised" THEN cache
              ELSE IF end = "ok" THEN "rows" ELSE "empty"
  /\ rejected' = IF step \in Judging /\ step' = "stamp" THEN end ELSE rejected
  /\ UNCHANGED <<op, found, remote, faults>>

-----------------------------------------------------------------------------
(* The retry loop, one call at a time                                      *)

Calling == fate = "open" /\ step # None /\ end = "open" /\ attempt < 3

\* NetSuite takes the payload of a write.
Takes ==
  /\ record' = "mine" /\ written' = TRUE
  /\ indexed' = (indexed /\ step \notin Creates)

Refuses == step \in Creates /\ record # None
Writing == step \in Creates \cup Updates

Served ==
  /\ Calling /\ ~Refuses
  /\ calls' = calls + 1 /\ end' = "ok"
  /\ found' = IF step \in Searches THEN record # None /\ indexed ELSE found
  /\ IF Writing THEN Takes ELSE UNCHANGED remote
  /\ UNCHANGED <<op, step, attempt, refused, fate, rejected, cache, faults>>

\* Mutant: the last attempt is taken for one too early.
GivesUpEarly == attempt = 1

\* Mutant: the last attempt is not told from the others.
GivesUpNever == FALSE

\* except RequestException: the last attempt re-raises.
GivesUp == attempt = 2

\* Mutant: the except branch does not count the attempt.
CountedNot == attempt

Counted == attempt + 1

Fails(answered) ==
  /\ calls' = IF calls < 3 THEN calls + 1 ELSE calls  \* no fourth: RetriesExhausted
  /\ IF GivesUp
     THEN end' = "raised" /\ refused' = answered /\ UNCHANGED attempt
     ELSE attempt' = Counted /\ UNCHANGED <<end, refused>>
  /\ UNCHANGED <<op, step, found, fate, rejected, cache>>

Fault == faults > 0 /\ faults' = faults - 1

\* The externalId is taken.
Rejected == Calling /\ Refuses /\ Fails(TRUE) /\ UNCHANGED <<remote, faults>>

\* Any other status of 400 and up.
Errs == Calling /\ Fault /\ Fails(TRUE) /\ UNCHANGED remote

\* Timeout or broken connection, before or after a write was applied.
Lost ==
  /\ Calling /\ Fault /\ Fails(FALSE)
  /\ \/ UNCHANGED remote
     \/ Writing /\ ~Refuses /\ Takes

\* 429.  The third one raises inside the try, where attempt is 3 and not
\* the 2 that would re-raise, so it is counted once more and swallowed.
Limited ==
  /\ Calling /\ Fault
  /\ calls' = calls + 1
  /\ IF attempt + 1 < 3
     THEN attempt' = attempt + 1 /\ UNCHANGED <<end, refused>>
     ELSE /\ attempt' = 4
          /\ \/ step \in Hubspot /\ end' = "raised" /\ refused' = TRUE
             \/ step \notin Hubspot /\ end' = "limited" /\ UNCHANGED refused
  /\ UNCHANGED <<op, step, found, fate, rejected, remote, cache>>

-----------------------------------------------------------------------------
(* Around the worker                                                       *)

\* Another worker creates the invoice.
OtherCreates ==
  /\ record = None
  /\ record' = "other" /\ indexed' = FALSE
  /\ UNCHANGED <<op, step, loop, found, fate, rejected, written, cache, faults>>

Index ==
  /\ record # None /\ ~indexed
  /\ indexed' = TRUE
  /\ UNCHANGED <<op, step, loop, found, fate, record, written, rejected, cache, faults>>

Expire ==
  /\ cache # None
  /\ cache' = None
  /\ UNCHANGED <<op, step, loop, found, fate, rejected, remote, faults>>

Proceed == \/ \E o \in Ops : Begin(o)
           \/ BeginCached \/ Conclude \/ Served \/ Rejected

Next == Proceed \/ Errs \/ Lost \/ Limited \/ OtherCreates \/ Index \/ Expire

Spec == Init /\ [][Next]_vars

\* Messages are delivered and redelivered, calls return, the index catches up.
FairSpec == Spec /\ WF_vars(Proceed) /\ WF_vars(Index)

-----------------------------------------------------------------------------
(* What is promised                                                        *)

\* "Confirm before stamping" (RELIABILITY.md:290) for the upsert, through
\* lost replies, races and 429s: a message whose invoice was upserted is
\* acked, and its deal stamped, only after NetSuite took its payload; a
\* HubSpot read that is used was answered.
AckMeansDone ==
  fate = "acked" => /\ op = "upsert" => written
                    /\ op = "contact" => end = "ok"

\* A request is given up only after three calls, whatever mix of 429s,
\* errors and lost replies it met: no transient answer costs a redrive.
RetriesExhausted == end \in {"limited", "raised"} => calls = 3

\* "Because every step is idempotent, the retry converges"
\* (docs/failure-scenarios/05-partial-write-hubspot-writeback-fails.md:47):
\* once faults stop, a message is acked, also an upsert whose earlier try
\* created an invoice that it never heard of.
RetryConverges == []<>(fate = "acked")

\* "Transient errors propagate so the caller can retry"
\* (sqs_processor.py:602): no deal is told that something is missing because
\* the request that looked for it failed or the server was busy.
TransientPropagates == rejected \notin {"limited", "raised"}

-----------------------------------------------------------------------------
(* Why it holds: the inductive invariants of ApiRequestProofs              *)

\* One call per attempt, and three when the loop ends without an answer.
LoopInv ==
  /\ end = "open" => attempt \in 0 .. 2 /\ calls = attempt
  /\ end \in {"limited", "raised"} => calls = 3
  /\ end = "limited" => step \notin Hubspot
  /\ step = None => end = "open" \/ fate = "acked"

\* An upsert is past its write, or has written.
Commits == {"lookup", "post", "patch", "reread", "recover", "number", "stamp"}

UpsertInv ==
  op = "upsert" =>
    /\ step \in Commits
    /\ step \in {"number", "stamp", "reread"} => written
    /\ step \in {"post", "patch"} /\ end = "ok" => written
    /\ fate = "acked" => written

ContactInv ==
  op = "contact" =>
    /\ step = "contactGet" /\ end # "limited"
    /\ fate = "acked" => end = "ok"

RequestInv == TypeOK /\ LoopInv /\ UpsertInv /\ ContactInv
=============================================================================
