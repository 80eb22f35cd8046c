---------------------------- MODULE CoalescedSync ----------------------------
(***************************************************************************)
(* The pipeline of one installation: edits in HubSpot become messages, the *)
(* processor's workers take them from SQS, serialise on the lock row of    *)
(* the parent deal, and write the deal's NetSuite invoice.  A worker that  *)
(* finds the row taken sets pending_resync on it and acks; the holder runs *)
(* a follow-up reconcile for each pending_resync it consumes.              *)
(*                                                                         *)
(* Data are versions: an edit makes a new version of a deal's properties   *)
(* (fields) or of its line items (lines), and an invoice carries the       *)
(* versions it was written from.  Every remote read and write of a handler *)
(* that another worker or an edit can come between is a step of its own.   *)
(*                                                                         *)
(* There is no clock: SyncLock proves that a live worker's row does not    *)
(* lapse, so here a row may lapse only once no worker holds it.            *)
(***************************************************************************)
EXTENDS LockTable, Sequences

CONSTANTS
  Deal, LineItem, Worker,
  Stages,        \* the stage modes a deal may have: "create", "update", "off"
  Faults,        \* the faults that happen, see Fault
  MaxEdits,      \* bound of the model: edits in HubSpot
  MaxReceives    \* maxReceiveCount of the queue

\* crash      the worker dies anywhere (timeout, out of memory)
\* raise      a handler step, a lookup or a lock call raises
\* release    delete_item raises and the row stays
\* reply      DynamoDB applies a write whose reply is lost
\* search     NetSuite's index lags: a search misses an invoice that exists
\* limited    make_request returns its third 429, or get_or_compute the empty
\*            list cached from one, as if NetSuite had answered
\* reject     the deal lacks what an invoice needs (a contact, its email, a
\*            customer, a venue, ...) or has no eligible line
\* orphan     HubSpot does not name a line item's deal, not yet or no longer
\* duplicate  SQS delivers a message again after its ack
\* move       a line item's first associated deal changes
Fault == {"crash", "raise", "release", "reply", "search", "limited", "reject",
          "orphan", "duplicate", "move"}

ASSUME BoundAssumption ==
  /\ MaxEdits \in Nat /\ MaxReceives \in Nat \ {0}
  /\ Faults \subseteq Fault
  /\ Stages \subseteq {"create", "update", "off"} /\ Stages # {}
  /\ None \notin Deal /\ Deal \cap LineItem = {}
  /\ None \notin [fields : Nat, lines : Nat]

\* uuid4 does not repeat: whatever tokens rows and other workers hold, there
\* is another one for a worker that has none.
ASSUME TokenAssumption ==
  \A held \in [Worker -> Token \cup {None}], owner \in [Deal -> Token \cup {None}] :
    (\E w \in Worker : held[w] = None) =>
      \E t \in Token : (\A w \in Worker : held[w] # t) /\ (\A d \in Deal : owner[d] # t)

VARIABLES
  crm,       \* crm[d]: versions of the deal's fields and lines, stage mode
  parent,    \* parent[l]: the deal of line item l
  invoice,   \* invoice[d]: the versions NetSuite shows, or None
  msgs,      \* every message: what it is about, where it is, receives
  table,     \* table[d]: the lock row of deal d
  pc, job,   \* each worker's step and what it knows
  lost       \* lost[d]: versions of d when a wake-up for it was destroyed, or
             \* spent on a pass that was acked without a write

vars == <<crm, parent, invoice, msgs, table, pc, job, lost>>

Versions(d) == [fields |-> crm[d].fields, lines |-> crm[d].lines]
Never       == [fields |-> 0, lines |-> 0]

NoJob == [msg |-> 0, key |-> None, token |-> None, deal |-> None,
          full |-> FALSE, seen |-> Never, stage |-> "off", raised |-> FALSE]

PassPC == {"loading", "finding", "fetching", "writing"}
HoldPC == PassPC \cup {"draining", "releasing"}
EarlyPC == {"keying", "acquiring", "marking"}

InCS(w) == pc[w] \in HoldPC

Version  == [fields : 0 .. MaxEdits + 1, lines : 0 .. MaxEdits + 1]
Message  == [about : Deal \cup LineItem,
             at : {"queued", "taken", "acked", "dlq"}, receives : 0 .. MaxReceives]

TypeOK ==
  /\ crm \in [Deal -> [fields : 1 .. MaxEdits + 1, lines : 1 .. MaxEdits + 1,
                       stage : Stages]]
  /\ parent \in [LineItem -> Deal]
  /\ invoice \in [Deal -> Version \cup {None}]
  /\ Len(msgs) <= MaxEdits /\ \A i \in DOMAIN msgs : msgs[i] \in Message
  /\ \A d \in Deal : table[d] # None =>
       table[d].owner \in Token /\ table[d].pending \in BOOLEAN
  /\ pc \in [Worker -> {"idle"} \cup EarlyPC \cup HoldPC]
  /\ \A w \in Worker :
       /\ pc[w] = "idle" <=> job[w] = NoJob
       /\ pc[w] # "idle" => msgs[job[w].msg].at = "taken"
       /\ InCS(w) => job[w].key \in Deal /\ job[w].token \in Token
  /\ \A v, w \in Worker : v # w /\ pc[v] # "idle" => job[v].msg # job[w].msg
  /\ lost \in [Deal -> Version]

\* A deal starts without an invoice or with one that is up to date.
Init ==
  /\ crm \in [Deal -> [fields : {1}, lines : {1}, stage : Stages]]
  /\ parent \in [LineItem -> Deal]
  /\ invoice \in [Deal -> {None, [fields |-> 1, lines |-> 1]}]
  /\ \A d \in Deal : crm[d].stage = "create" => invoice[d] # None
  /\ msgs = <<>>
  /\ table = [d \in Deal |-> None]
  /\ pc = [w \in Worker |-> "idle"]
  /\ job = [w \in Worker |-> NoJob]
  /\ lost = [d \in Deal |-> Never]

-----------------------------------------------------------------------------
(* HubSpot: an edit, and the webhook that puts its event on the queue      *)

Emit(about) ==
  /\ Len(msgs) < MaxEdits
  /\ msgs' = Append(msgs, [about |-> about, at |-> "queued", receives |-> 0])
  /\ UNCHANGED <<invoice, table, pc, job, lost>>

EditDeal(d, stage) ==
  /\ Emit(d)
  /\ crm' = [crm EXCEPT ![d].fields = @ + 1, ![d].stage = stage]
  /\ UNCHANGED parent

EditLine(l) ==
  /\ Emit(l)
  /\ crm' = [crm EXCEPT ![parent[l]].lines = @ + 1]
  /\ UNCHANGED parent

MoveLine(l, d) ==
  /\ "move" \in Faults /\ d # parent[l]
  /\ Emit(l)
  /\ crm' = [crm EXCEPT ![parent[l]].lines = @ + 1, ![d].lines = @ + 1]
  /\ parent' = [parent EXCEPT ![l] = d]

-----------------------------------------------------------------------------
(* SQS                                                                     *)

About(i) == msgs[i].about
IsDeal(i) == About(i) \in Deal
DealOf(i) == IF IsDeal(i) THEN About(i) ELSE parent[About(i)]

Acked(i) == [msgs EXCEPT ![i].at = "acked"]

\* Mutant: no redrive policy.
FailedForEver(i) == [msgs EXCEPT ![i].at = "queued"]

\* Reported in batchItemFailures, or never answered: visible again, or in
\* the dead-letter queue after maxReceiveCount receives.
Failed(i) ==
  [msgs EXCEPT ![i].at =
     IF msgs[i].receives < MaxReceives THEN "queued" ELSE "dlq"]

IsLast(i) == msgs[i].receives = MaxReceives

Receive(w, i) ==
  /\ pc[w] = "idle" /\ msgs[i].at = "queued"
  /\ msgs' = [msgs EXCEPT ![i] =
       [about |-> @.about, at |-> "taken", receives |-> @.receives + 1]]
  /\ pc' = [pc EXCEPT ![w] = "keying"]
  /\ job' = [job EXCEPT ![w].msg = i]
  /\ UNCHANGED <<crm, parent, invoice, table, lost>>

Duplicate(i) ==
  /\ "duplicate" \in Faults
  /\ msgs[i].at = "acked" /\ msgs[i].receives < MaxReceives
  /\ msgs' = [msgs EXCEPT ![i].at = "queued"]
  /\ UNCHANGED <<crm, parent, invoice, table, pc, job, lost>>

-----------------------------------------------------------------------------
(* process_webhook_message                                                 *)

Go(w, here, there) == pc[w] = here /\ pc' = [pc EXCEPT ![w] = there]
Leave(w) == pc' = [pc EXCEPT ![w] = "idle"] /\ job' = [job EXCEPT ![w] = NoJob]

\* A wake-up is gone: nobody will act for it on the fields of the deals in
\* fs and the lines of those in ls, as they are now.
Lose(fs, ls) ==
  lost' = [d \in Deal |->
             [fields |-> IF d \in fs THEN crm[d].fields ELSE lost[d].fields,
              lines  |-> IF d \in ls THEN crm[d].lines ELSE lost[d].lines]]

\* What a message takes with it when it fails: nothing before its last time.
LastFields(i) == IF IsLast(i) /\ IsDeal(i) THEN {DealOf(i)} ELSE {}
LastLines(i)  == IF IsLast(i) THEN {DealOf(i)} ELSE {}

ResolveKey(w) ==
  /\ Go(w, "keying", "acquiring")
  /\ job' = [job EXCEPT ![w].key = DealOf(job[w].msg)]
  /\ UNCHANGED <<crm, parent, invoice, msgs, table, lost>>

\* "No parent deal resolved": acked before the lock is asked for.
NoParent(w) ==
  LET i == job[w].msg
  IN  /\ "orphan" \in Faults /\ pc[w] = "keying" /\ ~IsDeal(i)
      /\ msgs' = Acked(i)
      /\ Leave(w)
      /\ Lose({}, {DealOf(i)})
      /\ UNCHANGED <<crm, parent, invoice, table>>

\* The conditional put.  Time stands still: a row expires at 2 when put and
\* at 0 once Lapse has made it look expired, and every clock shows 1.
FreshToken ==
  CHOOSE t \in Token : /\ \A v \in Worker : job[v].token # t
                       /\ \A d \in Deal : ~OwnedBy(table[d], t)

\* A put over a lapsed row erases its pending_resync.  A worker with a deal
\* event reads everything anew; one with a line-item event does not.
Put(w) ==
  LET key == job[w].key
      row == table[key]
  IN  /\ pc[w] = "acquiring"
      /\ Acquirable(row, 1)
      /\ table' = [table EXCEPT ![key] = HeldRow(FreshToken, 1, 1)]

Overwrites(w) ==
  LET row == table[job[w].key]
  IN  IF row # None /\ row.pending /\ ~IsDeal(job[w].msg) THEN {job[w].key} ELSE {}

Acquire(w) ==
  /\ Put(w)
  /\ Go(w, "acquiring", "loading")
  /\ job' = [job EXCEPT ![w].token = FreshToken, ![w].full = IsDeal(job[w].msg)]
  /\ Lose(Overwrites(w), Overwrites(w))
  /\ UNCHANGED <<crm, parent, invoice, msgs>>

\* The reply is lost and the resend fails the condition on the own row.
AcquireUnseen(w) ==
  /\ "reply" \in Faults
  /\ Put(w)
  /\ Go(w, "acquiring", "marking")
  /\ Lose(Overwrites(w), Overwrites(w))
  /\ UNCHANGED <<crm, parent, invoice, msgs, job>>

\* Every reply is lost: try_acquire raises with the row in place.
AcquireRaises(w) ==
  /\ "reply" \in Faults
  /\ Put(w)
  /\ Leave(w)
  /\ msgs' = Failed(job[w].msg)
  /\ Lose(Overwrites(w) \cup LastFields(job[w].msg),
          Overwrites(w) \cup LastLines(job[w].msg))
  /\ UNCHANGED <<crm, parent, invoice>>

\* Mutant: the result of try_acquire is not looked at.
PutIgnored(w) ==
  /\ Go(w, "acquiring", "loading")
  /\ ~Acquirable(table[job[w].key], 1)
  /\ job' = [job EXCEPT ![w].token = FreshToken, ![w].full = IsDeal(job[w].msg)]
  /\ UNCHANGED <<crm, parent, invoice, msgs, table, lost>>

PutRejected(w) ==
  /\ Go(w, "acquiring", "marking")
  /\ ~Acquirable(table[job[w].key], 1)
  /\ UNCHANGED <<crm, parent, invoice, msgs, table, job, lost>>

\* mark_pending_resync on whatever row is there now, and ack.
MarkPending(w) ==
  LET key == job[w].key
  IN  /\ pc[w] = "marking"
      /\ table' = [table EXCEPT ![key] = Marked(@)]
      /\ msgs' = Acked(job[w].msg)
      /\ Leave(w)
      /\ LET missing == IF table[key] = None THEN {key} ELSE {}
         IN  Lose(missing, missing)
      /\ UNCHANGED <<crm, parent, invoice>>

\* The association lookup, the put or the mark raises, before the try.
RaiseEarly(w) ==
  /\ "raise" \in Faults /\ pc[w] \in EarlyPC
  /\ msgs' = Failed(job[w].msg)
  /\ Leave(w)
  /\ Lose(LastFields(job[w].msg), LastLines(job[w].msg))
  /\ UNCHANGED <<crm, parent, invoice, table>>

-----------------------------------------------------------------------------
(* The handlers: a full pass is process_deal_to_invoice or a follow-up's   *)
(* _sync_deal_by_id, with the gate and reconcile_deal_invoice; the other   *)
(* is process_line_item, which is not gated and writes lines only.         *)

EndPass(w) ==
  job' = [job EXCEPT ![w].full = FALSE, ![w].deal = None,
                     ![w].seen = Never, ![w].stage = "off"]

\* get_deal; or the second lookup of the line item's deal, whose answer is
\* the invoice that will be written, whatever key is locked.
Load(w) ==
  /\ Go(w, "loading", "finding")
  /\ LET d == job[w].key
     IN  job' = IF job[w].full
                THEN [job EXCEPT ![w].deal = d, ![w].stage = crm[d].stage,
                                 ![w].seen.fields = crm[d].fields]
                ELSE [job EXCEPT ![w].deal = DealOf(job[w].msg)]
  /\ UNCHANGED <<crm, parent, invoice, msgs, table, lost>>

\* get_invoice_by_deal_id: its answers.
Found(w) ==
  {invoice[job[w].deal] # None}
    \cup IF {"search", "limited"} \cap Faults # {} THEN {FALSE} ELSE {}

\* _deal_invoice_gate; "no NetSuite invoice yet" for a line item.
Passes(w, found) ==
  IF job[w].full THEN \/ job[w].stage = "create"
                      \/ job[w].stage = "update" /\ found
                 ELSE found

FindAndGo(w) ==
  /\ Go(w, "finding", "fetching")
  /\ \E found \in Found(w) : Passes(w, found)
  /\ UNCHANGED <<crm, parent, invoice, msgs, table, job, lost>>

\* Skipped with True.  When the invoice is there, the wake-up is wasted.
FindAndSkip(w) ==
  LET d == job[w].deal
      missed == Passes(w, invoice[d] # None)
  IN  /\ Go(w, "finding", "draining")
      /\ \E found \in Found(w) : ~Passes(w, found)
      /\ EndPass(w)
      /\ Lose(IF missed /\ job[w].full THEN {d} ELSE {},
              IF missed THEN {d} ELSE {})
      /\ UNCHANGED <<crm, parent, invoice, msgs, table>>

\* _fetch_deal_line_item_details
Fetch(w) ==
  /\ Go(w, "fetching", "writing")
  /\ job' = [job EXCEPT ![w].seen.lines = crm[job[w].deal].lines]
  /\ UNCHANGED <<crm, parent, invoice, msgs, table, lost>>

\* Mutant: a line-item event writes the whole invoice.
WriteWhole(w) ==
  /\ Go(w, "writing", "draining")
  /\ invoice' = [invoice EXCEPT ![job[w].deal] = job[w].seen]
  /\ EndPass(w)
  /\ UNCHANGED <<crm, parent, msgs, table, lost>>

\* create_or_update_invoice, or update_invoice_line_items, from a mapping that
\* has lines; which ones it has is LineItems'.
Write(w) ==
  LET d == job[w].deal
  IN  /\ Go(w, "writing", "draining")
      /\ invoice' = [invoice EXCEPT ![d] =
           IF job[w].full THEN job[w].seen ELSE [@ EXCEPT !.lines = job[w].seen.lines]]
      /\ EndPass(w)
      /\ UNCHANGED <<crm, parent, msgs, table, lost>>

\* The handler returns, and so acks, without having written the versions:
\*   loading   no parent at the second lookup;
\*   fetching  no contact, customer or subsidiary, or a limited answer for one;
\*   writing   no venue; a mapping that raised, which is answered with False;
\*             no eligible line, or a limited SKU query that leaves none (then
\*             an invoice gets its venue at most); a limited PATCH of lines,
\*             whose result nobody looks at.
MayEndUnwritten(w) ==
  \/ pc[w] = "loading" /\ ~job[w].full /\ "orphan" \in Faults
  \/ pc[w] = "fetching" /\ job[w].full /\ {"limited", "reject"} \cap Faults # {}
  \/ pc[w] = "writing" /\ {"limited", "reject", "raise"} \cap Faults # {}

\* What goes unwritten is lost as far as the pass had it to write: an edit
\* after its reads has its own wake-up.  A follow-up's answer is ignored too.
EndUnwritten(w) ==
  LET d      == IF pc[w] = "loading" THEN DealOf(job[w].msg) ELSE job[w].deal
      fields == job[w].full /\ job[w].seen.fields = crm[d].fields
      lines  == pc[w] = "writing" => job[w].seen.lines = crm[d].lines
  IN  /\ MayEndUnwritten(w)
      /\ pc' = [pc EXCEPT ![w] = "draining"]
      /\ EndPass(w)
      /\ Lose(IF fields THEN {d} ELSE {}, IF lines THEN {d} ELSE {})
      /\ UNCHANGED <<crm, parent, invoice, msgs, table>>

Consume(w) ==
  LET key == job[w].key
  IN  /\ pc[w] = "draining"
      /\ Consumable(table[key], job[w].token)
      /\ table' = [table EXCEPT ![key] = Consumed(@)]
      /\ UNCHANGED <<crm, parent, invoice, msgs>>

\* Mutant: the flag is consumed and no follow-up runs.
ConsumeOnly(w) ==
  /\ Consume(w)
  /\ Go(w, "draining", "releasing")
  /\ UNCHANGED <<job, lost>>

\* The follow-up is a full pass whatever event it stands for.
ConsumePending(w) ==
  /\ Consume(w)
  /\ Go(w, "draining", "loading")
  /\ job' = [job EXCEPT ![w].full = TRUE]
  /\ UNCHANGED lost

\* Does the holder's own retry do all that a follow-up would do?
RetryCovers(w) == IsDeal(job[w].msg) /\ ~IsLast(job[w].msg)

\* Applied, but consume_pending_resync returns False or raises.
ConsumeUnseen(w) ==
  /\ "reply" \in Faults
  /\ Consume(w)
  /\ Go(w, "draining", "releasing")
  /\ \E raised \in BOOLEAN :
       /\ job' = [job EXCEPT ![w].raised = raised]
       /\ LET gone == IF raised /\ RetryCovers(w) THEN {} ELSE {job[w].key}
          IN  Lose(gone, gone)

DrainDone(w) ==
  /\ Go(w, "draining", "releasing")
  /\ ~Consumable(table[job[w].key], job[w].token)
  /\ UNCHANGED <<crm, parent, invoice, msgs, table, job, lost>>

\* A worker that stops in a follow-up pass leaves its own message to retry.
\* A line-item event's retry does not do what the follow-up was for.
FollowUpLost(w) ==
  IF pc[w] \in PassPC /\ job[w].full /\ ~IsDeal(job[w].msg)
  THEN {job[w].key} ELSE {}

\* Every exception of a pass or of the drain loop is redriven but that of the
\* mapping, which does not get out of it: see MayEndUnwritten.
RaiseInHandler(w) ==
  /\ "raise" \in Faults /\ pc[w] \in PassPC \cup {"draining"}
  /\ pc' = [pc EXCEPT ![w] = "releasing"]
  /\ job' = [job EXCEPT ![w] =
       [@ EXCEPT !.raised = TRUE, !.full = FALSE, !.deal = None,
                 !.seen = Never, !.stage = "off"]]
  /\ Lose(FollowUpLost(w), FollowUpLost(w))
  /\ UNCHANGED <<crm, parent, invoice, msgs, table>>

\* The finally, and the message's fate.
Return(w) ==
  LET i == job[w].msg
  IN  /\ pc[w] = "releasing"
      /\ msgs' = IF job[w].raised THEN Failed(i) ELSE Acked(i)
      /\ Leave(w)
      /\ UNCHANGED <<crm, parent, invoice>>

\* A pending_resync set since the last consume goes with the row, unless
\* the holder's own retry is a full pass.
Release(w) ==
  LET key  == job[w].key
      i    == job[w].msg
      gone == IF /\ Consumable(table[key], job[w].token)
                 /\ ~(job[w].raised /\ RetryCovers(w))
              THEN {key} ELSE {}
  IN  /\ Return(w)
      /\ table' = [table EXCEPT ![key] = Released(@, job[w].token)]
      /\ Lose(gone \cup IF job[w].raised THEN LastFields(i) ELSE {},
              gone \cup IF job[w].raised THEN LastLines(i) ELSE {})

ReleaseFails(w) ==
  LET i == job[w].msg
  IN  /\ "release" \in Faults
      /\ Return(w)
      /\ Lose(IF job[w].raised THEN LastFields(i) ELSE {},
              IF job[w].raised THEN LastLines(i) ELSE {})
      /\ UNCHANGED table

-----------------------------------------------------------------------------
(* Lambda and DynamoDB                                                     *)

Crash(w) ==
  LET i == job[w].msg
  IN  /\ "crash" \in Faults /\ pc[w] # "idle"
      /\ msgs' = Failed(i)
      /\ Leave(w)
      /\ Lose(FollowUpLost(w) \cup LastFields(i), FollowUpLost(w) \cup LastLines(i))
      /\ UNCHANGED <<crm, parent, invoice, table>>

Held(d) == \E w \in Worker : InCS(w) /\ OwnedBy(table[d], job[w].token)

\* TTL seconds have passed since the put.
Lapse(d) ==
  /\ table[d] # None /\ ~Acquirable(table[d], 1) /\ ~Held(d)
  /\ table' = [table EXCEPT ![d].expiresAt = 0]
  /\ UNCHANGED <<crm, parent, invoice, msgs, pc, job, lost>>

\* DynamoDB deletes an expired row.
Sweep(d) ==
  LET gone == IF table[d].pending THEN {d} ELSE {}
  IN  /\ table[d] # None /\ Acquirable(table[d], 1)
      /\ table' = [table EXCEPT ![d] = None]
      /\ Lose(gone, gone)
      /\ UNCHANGED <<crm, parent, invoice, msgs, pc, job>>

-----------------------------------------------------------------------------

Edit ==
  \/ \E d \in Deal, stage \in Stages : EditDeal(d, stage)
  \/ \E l \in LineItem : EditLine(l)
  \/ \E l \in LineItem, d \in Deal : MoveLine(l, d)

\* What a worker does next when nothing goes wrong.
Work(w) ==
  \/ ResolveKey(w) \/ Acquire(w) \/ PutRejected(w) \/ MarkPending(w)
  \/ Load(w) \/ FindAndGo(w) \/ FindAndSkip(w) \/ Fetch(w) \/ Write(w)
  \/ ConsumePending(w) \/ DrainDone(w) \/ Release(w)

Mishap(w) ==
  \/ NoParent(w) \/ AcquireUnseen(w) \/ AcquireRaises(w) \/ RaiseEarly(w)
  \/ EndUnwritten(w) \/ RaiseInHandler(w)
  \/ ConsumeUnseen(w) \/ ReleaseFails(w) \/ Crash(w)

Take == \E w \in Worker, i \in DOMAIN msgs : Receive(w, i)

Next ==
  \/ Edit \/ Take
  \/ \E w \in Worker : Work(w) \/ Mishap(w)
  \/ \E d \in Deal : Lapse(d) \/ Sweep(d)
  \/ \E i \in DOMAIN msgs : Duplicate(i)

Spec == Init /\ [][Next]_vars

\* The queue delivers what it holds, an invocation goes on, and rows expire.
Fairness ==
  /\ WF_vars(Take)
  /\ \A w \in Worker : WF_vars(Work(w))
  /\ \A d \in Deal : WF_vars(Lapse(d) \/ Sweep(d))

FairSpec == Spec /\ Fairness

-----------------------------------------------------------------------------
(* What is promised                                                        *)

\* Two events that touch the same NetSuite invoice never run concurrently
\* (locks.py:3): no two workers are at work on the invoice of one deal.
SingleWriter ==
  \A v, w \in Worker :
    v # w /\ job[v].deal # None /\ job[w].deal # None => job[v].deal # job[w].deal

\* The lock serialises keys even where two lookups of a line item's deal
\* disagree: whoever is past its put owns the row of its key until it leaves.
HolderOwnsRow ==
  \A w \in Worker : InCS(w) =>
    /\ OwnedBy(table[job[w].key], job[w].token)
    /\ ~Acquirable(table[job[w].key], 1)

\* Invoices only move towards the deal, never back, and show only what the
\* deal has had: the whole pipeline implements InvoiceRegister.
Register == INSTANCE InvoiceRegister
  WITH version <- [d \in Deal |-> Versions(d)], Absent <- None

ImplementsRegister == Register!Spec

\* What the integration owes a deal.  An enabled stage owes the fields and
\* the lines of a full reconcile; "update" owes nothing before an invoice
\* exists; "off" owes nothing.
Wanted(d) == \/ crm[d].stage = "create"
             \/ crm[d].stage = "update" /\ invoice[d] # None

\* An invoice still to be created is owed by the deal's events, not by its
\* line items'.
FieldsOld(d) == invoice[d] # None => invoice[d].fields < crm[d].fields
LinesOld(d)  == invoice[d] # None /\ invoice[d].lines < crm[d].lines

FieldsDue(d) == Wanted(d) /\ FieldsOld(d) /\ lost[d].fields < crm[d].fields
LinesDue(d)  == Wanted(d) /\ LinesOld(d) /\ lost[d].lines < crm[d].lines

\* Somebody still has to start a full pass, or any pass, on d.
Waiting(i) == \/ msgs[i].at = "queued"
              \/ \E w \in Worker : pc[w] \in EarlyPC /\ job[w].msg = i

\* A raise, with the message still to be failed at the release.
Retrying(i) == \E w \in Worker :
  pc[w] = "releasing" /\ job[w].raised /\ job[w].msg = i

ToDo(i) == Waiting(i) \/ Retrying(i)

FollowUpDue(d) == table[d] # None /\ table[d].pending

FieldsCarried(d) ==
  \/ FollowUpDue(d)
  \/ \E i \in DOMAIN msgs : About(i) = d /\ ToDo(i)
  \/ \E w \in Worker : job[w].key = d /\ job[w].full /\
        \/ pc[w] = "loading"
        \/ pc[w] \in PassPC /\ job[w].seen.fields = crm[d].fields

LinesCarried(d) ==
  \/ FollowUpDue(d)
  \/ \E i \in DOMAIN msgs : DealOf(i) = d /\ ToDo(i)
  \/ \E w \in Worker : job[w].key = d /\
        \/ pc[w] \in PassPC \ {"writing"}
        \/ pc[w] = "writing" /\ job[w].seen.lines = crm[d].lines

\* No edit is forgotten: while an invoice owes a deal's fields or lines, a
\* message, a pending_resync or a pass that has read them is on its way,
\* unless that wake-up was destroyed, or acked without a write, in one of the
\* ways that "lost" records.
EditsAccounted ==
  \A d \in Deal : /\ FieldsDue(d) => FieldsCarried(d)
                  /\ LinesDue(d) => LinesCarried(d)

\* Every edit is synced in the end, or its wake-up was lost.
EventuallyAccounted == \A d \in Deal : <>[](~FieldsDue(d) /\ ~LinesDue(d))

Settled(i) == i \in DOMAIN msgs => msgs[i].at \in {"acked", "dlq"}

\* Every message is acked or dead-lettered: no event waits for ever on a
\* held, orphaned or contended row.
MessagesSettle == \A i \in 1 .. MaxEdits : []<>Settled(i)

\* "Whichever event runs last reads current state and writes it, so the
\* invoice converges" (RELIABILITY.md:38-39).
Converges ==
  \A d \in Deal : <>[](Wanted(d) => ~FieldsOld(d) /\ ~LinesOld(d))

\* A worker that dies holding the lock costs its event no more than a retry:
\* "the contending message is redriven anyway, so it simply succeeds on a
\* later attempt" (docs/failure-scenarios/08-worker-crash-stuck-lock.md:64-65),
\* or it reaches the dead-letter queue.
RedriveSucceeds ==
  \A d \in Deal :
    <>[](\/ Wanted(d) => ~FieldsOld(d) /\ ~LinesOld(d)
         \/ \E i \in DOMAIN msgs : DealOf(i) = d /\ msgs[i].at = "dlq")
=============================================================================
