---------------------------- MODULE EventDelivery ----------------------------
(***************************************************************************)
(* One delivery of HubSpot, from the POST to the outcome of each of its    *)
(* events: the webhook function parses the batch and enqueues one message  *)
(* per valid event in chunks, HubSpot posts the whole batch again when it  *)
(* was not told 2xx, and the processor takes the messages one by one.      *)
(*                                                                         *)
(* Deliveries do not interact here (the webhook keeps no state and each    *)
(* message is handled by itself), so one is modelled; what the events of   *)
(* one deal do to each other is CoalescedSync.                             *)
(***************************************************************************)
EXTENDS EventRouting, Naturals, Sequences, FiniteSets

CONSTANTS
  Body,         \* request bodies, records [form, items]
  Junk, Invalid,  \* items that are not events, see below
  Config,       \* deployments, records [url, verify, filter]
  Chunk,        \* entries in a SendMessageBatch call (10)
  MaxPosts,     \* how often HubSpot posts a delivery
  MaxReceives,  \* maxReceiveCount of the queue
  MaxFaults     \* bound of the model: requests that fail

\* url: SQS_QUEUE_URL is set; verify: signatures are checked; filter: only
\* events whose objectId is on the allowlist are processed.
\* form: "array" and "object" are JSON; "scalar" is JSON of another type;
\* "malformed" is not JSON, nor is a base64 body, which only the signature
\* check decodes.
\* items: Junk is no JSON object, Invalid lacks objectId or
\* subscriptionType, all others are events.
Forms == {"array", "object", "scalar", "malformed"}

ASSUME DeliveryAssumption ==
  /\ Chunk \in Nat \ {0} /\ MaxPosts \in Nat
  /\ MaxReceives \in Nat \ {0} /\ MaxFaults \in Nat
  /\ Junk \notin Event /\ Invalid \notin Event
  /\ Config \subseteq [url : BOOLEAN, verify : BOOLEAN, filter : BOOLEAN]
  /\ \A b \in Body : /\ b.form \in Forms
                     /\ b.items \in Seq({Junk, Invalid} \cup Event)

VARIABLES
  body, config,  \* the delivery, and how the functions are deployed
  conn,          \* the request: "idle", "open", "checked" or "closed"
  code,          \* the last status HubSpot saw; 0 before and when it saw none
  posts,         \* requests made
  sent,          \* the events this request has handed to SQS
  queued,        \* history: <<event, post>> for each message SQS took
  msgs,          \* the messages on the queue or with a worker
  outcome,       \* history: what became of each event's messages
  faults

request   == <<conn, code, posts, sent>>
delivered == <<queued, msgs, outcome>>
vars == <<body, config, request, delivered, faults>>

\* The valid events, named by their places in the body, and one of them.
Ids        == {i \in DOMAIN body.items : body.items[i] \in Event}
EventOf(m) == body.items[m.ev]

\* "acked" stands for synced, skipped, coalesced and rejected.
Outcomes == {"acked", "dead"}
Message  == [ev : Nat, post : Nat, receives : Nat,
             at : {"queue", "routing", "handler"}]

\* A message is received at most MaxReceives times.
Received(m) == IF m.at = "queue" THEN m.receives < MaxReceives
               ELSE m.receives <= MaxReceives

TypeOK ==
  /\ body \in Body
  /\ config \in Config
  /\ conn \in {"idle", "open", "checked", "closed"}
  /\ code \in {0, 204, 400, 401, 500}
  /\ posts \in 0 .. MaxPosts /\ faults \in 0 .. MaxFaults
  /\ sent \subseteq Ids
  /\ queued \subseteq Ids \X (1 .. MaxPosts)
  /\ msgs \subseteq Message
  /\ \A m \in msgs : m.ev \in Ids /\ Received(m)
  /\ outcome \in [Ids -> SUBSET Outcomes]

Init ==
  /\ body \in Body
  /\ config \in Config
  /\ conn = "idle" /\ code = 0 /\ posts = 0 /\ sent = {}
  /\ queued = {} /\ msgs = {}
  /\ outcome = [i \in Ids |-> {}]
  /\ faults = 0

Fault == faults < MaxFaults /\ faults' = faults + 1

-----------------------------------------------------------------------------
(* The webhook function                                                    *)

\* HubSpot posts the delivery, and again until it was told 2xx or 4xx.
Post ==
  /\ conn = "idle" /\ posts < MaxPosts
  /\ conn' = "open" /\ posts' = posts + 1 /\ sent' = {} /\ code' = 0
  /\ UNCHANGED <<body, config, delivered, faults>>

\* HubSpot is answered; it stops posting after anything but a 5xx.
Answer(status) ==
  /\ code' = status
  /\ conn' = IF status = 500 THEN "idle" ELSE "closed"
  /\ UNCHANGED <<body, config, posts, sent>>

\* Mutant: the signature is checked after the first chunks.
LateUnordered ==
  /\ conn \in {"open", "checked"} /\ config.url /\ config.verify /\ Fault
  /\ Answer(401) /\ UNCHANGED delivered

\* The request got too old on its way for the signature window.
Late ==
  /\ conn = "open" /\ config.url /\ config.verify /\ Fault
  /\ Answer(401) /\ UNCHANGED delivered

\* The status of a request that is turned away unsent, or 0: JSONDecodeError
\* becomes a 400, the ValueError of JSON of another type a 500.
Refusal ==
  CASE ~config.url \/ body.form = "scalar"       -> 500
    [] config.url /\ body.form = "malformed"     -> 400
    [] OTHER -> IF Ids = {} THEN 400 ELSE 0

Check ==
  /\ conn = "open" /\ UNCHANGED <<delivered, faults>>
  /\ IF Refusal # 0
     THEN Answer(Refusal)
     ELSE conn' = "checked" /\ UNCHANGED <<body, config, code, posts, sent>>

\* What is left of the batch, and its next chunk.
Remaining == Ids \ sent
Batch     == {i \in Remaining : Cardinality({j \in Remaining : j < i}) < Chunk}

\* SQS takes the entries S of the batch.
Take(S) ==
  /\ queued' = queued \cup {<<i, posts>> : i \in S}
  /\ msgs' = msgs \cup
       {[ev |-> i, post |-> posts, receives |-> 0, at |-> "queue"] : i \in S}
  /\ UNCHANGED outcome

SendBatch ==
  /\ conn = "checked" /\ Remaining # {}
  /\ Take(Batch)
  /\ sent' = sent \cup Batch
  /\ UNCHANGED <<body, config, conn, code, posts, faults>>

\* Mutants: Failed is not looked at; the answer is a 400.
SendFailsIgnored ==
  /\ conn = "checked" /\ Remaining # {} /\ Fault
  /\ \E S \in SUBSET Batch : Take(S)
  /\ sent' = sent \cup Batch
  /\ UNCHANGED <<body, config, conn, code, posts>>

SendFailsAs400 ==
  /\ conn = "checked" /\ Remaining # {} /\ Fault
  /\ \E S \in SUBSET Batch : Take(S)
  /\ Answer(400)

\* Some entries are reported Failed, or the call raises and none or all were
\* taken: the answer is 500 and the later chunks are not sent.
SendFails ==
  /\ conn = "checked" /\ Remaining # {} /\ Fault
  /\ \E S \in SUBSET Batch : Take(S)
  /\ Answer(500)

Finish ==
  /\ conn = "checked" /\ Remaining = {}
  /\ Answer(204) /\ UNCHANGED <<delivered, faults>>

\* The function times out or its answer is lost: HubSpot sees none.
Unanswered ==
  /\ conn \in {"open", "checked"} /\ Fault
  /\ conn' = "idle" /\ code' = 0
  /\ UNCHANGED <<body, config, posts, sent, delivered>>

-----------------------------------------------------------------------------
(* The processor                                                           *)

Move(m, at) == msgs' = (msgs \ {m}) \cup {[m EXCEPT !.at = at]}
Settle(m, o) ==
  /\ msgs' = msgs \ {m}
  /\ outcome' = [outcome EXCEPT ![m.ev] = @ \cup {o}]

Worker == UNCHANGED <<body, config, request, queued>>

Receive(m) ==
  /\ m.at = "queue"
  /\ msgs' = (msgs \ {m}) \cup
       {[ev |-> m.ev, post |-> m.post, receives |-> m.receives + 1, at |-> "routing"]}
  /\ Worker /\ UNCHANGED <<outcome, faults>>

\* What process_webhook_message does up to the handler: a payment or filtered
\* event, one without a parent deal and one whose lock is busy are acked.
Route(m) == LET e == EventOf(m)
                stops == IsPayment(e) \/ Filtered(e, config.filter) IN
  /\ m.at = "routing" /\ Worker /\ UNCHANGED faults
  /\ \/ Settle(m, "acked")
     \/ ~stops /\ Move(m, "handler") /\ UNCHANGED outcome

\* True, False and an unsupported type all end in an ack.
Handle(m) ==
  m.at = "handler" /\ Settle(m, "acked") /\ Worker /\ UNCHANGED faults

\* Mutants: the message is deleted all the same; there is no redrive limit.
RedriveSwallowed(m) ==
  /\ m.at # "queue" /\ Worker /\ UNCHANGED <<faults, outcome>>
  /\ msgs' = msgs \ {m}

RedriveForEver(m) ==
  /\ m.at # "queue" /\ Worker /\ UNCHANGED <<faults, outcome>>
  /\ Move(m, "queue")

\* The processing raises or the worker dies: SQS shows the message again, or
\* moves it to the dead-letter queue.
Redrive(m) ==
  /\ m.at # "queue" /\ Worker /\ UNCHANGED faults
  /\ IF m.receives < MaxReceives
     THEN Move(m, "queue") /\ UNCHANGED outcome
     ELSE Settle(m, "dead")

Process == \E m \in msgs : Receive(m) \/ Route(m) \/ Handle(m)

Next ==
  \/ Post \/ Late \/ Check \/ SendBatch \/ SendFails \/ Finish \/ Unanswered
  \/ Process
  \/ \E m \in msgs : Redrive(m)

Spec == Init /\ [][Next]_vars

\* HubSpot posts again as long as it may, the function runs on once called,
\* SQS hands out what it holds and the worker goes on.  Nothing is assumed of
\* the faults.
FairSpec ==
  /\ Spec
  /\ WF_vars(Post) /\ WF_vars(Check \/ SendBatch \/ Finish)
  /\ WF_vars(Process)

-----------------------------------------------------------------------------
(* Properties                                                              *)

\* A delivery answered 204 is on the queue with every one of its valid
\* events, however many chunks and earlier, partly failed posts it took
\* (lambda_function.py:181-195).
AnsweredMeansQueued ==
  code = 204 => \A i \in Ids : \E p \in 1 .. posts : <<i, p>> \in queued

\* A delivery refused for its signature or its body has put nothing of that
\* request on the queue (lambda_function.py:146-172 before 176).
RefusedMeansUntouched ==
  code \in {400, 401} => \A i \in Ids : <<i, posts>> \notin queued

\* An event SQS took stays on the queue or with a worker until it has an
\* outcome: nothing but an ack or the dead-letter queue takes a message away
\* (sqs_processor.py:1120-1157).
NothingVanishes ==
  \A x \in queued :
    outcome[x[1]] # {} \/ \E m \in msgs : m.ev = x[1]

\* A message that reaches its handler is not refused there for its type, and
\* runs under the lock that a follow-up for it would use
\* (sqs_processor.py:586, 998-1031, 1068-1092 and hubspot.py:555-589).
RoutesAgree ==
  \A m \in msgs : m.at = "handler" => Agree(EventOf(m))

\* A delivery that can be parsed and holds valid events ends with an outcome
\* for each of them, when HubSpot may post more often than calls fail; only a
\* request refused as too old ends otherwise (lambda_function.py:186-193).
Deliverable ==
  config.url /\ body.form \in {"array", "object"} /\ Ids # {}
Arrives ==
  (Deliverable /\ MaxPosts > MaxFaults) =>
    <>(code = 401 \/ \A i \in Ids : outcome[i] # {})

-----------------------------------------------------------------------------
(* Why it holds: the inductive invariant of EventDeliveryProofs            *)

\* What an open request has done with its own messages, and what the answer
\* of a closed one leaves open.
RequestInv ==
  /\ queued \subseteq Ids \X (1 .. posts)
  /\ conn = "idle" => code \in {0, 500}
  /\ conn \in {"open", "checked"} => code = 0 /\ posts \in 1 .. MaxPosts
  /\ conn = "open" => sent = {} /\ \A i \in Ids : <<i, posts>> \notin queued
  /\ conn = "checked" => \A i \in sent : <<i, posts>> \in queued

\* A payment has never got as far as a handler, so what one is given is an
\* event that the tables know, and they agree on those.
HandlerInv == \A m \in msgs : m.at = "handler" => ~IsPayment(EventOf(m))

DeliveryInv == /\ TypeOK /\ RequestInv /\ HandlerInv
               /\ AnsweredMeansQueued /\ RefusedMeansUntouched /\ NothingVanishes
=============================================================================
