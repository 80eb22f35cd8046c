------------------------- MODULE EventDeliveryProofs -------------------------
(* That a 204 means enqueued, a 4xx means untouched, and nothing taken from *)
(* the queue vanishes: one inductive invariant, one lemma per action.       *)
EXTENDS EventDelivery, TLAPS

LEMMA IdsStay == ASSUME UNCHANGED body PROVE Ids' = Ids
BY DEF Ids

LEMMA IdsAreNumbers == ASSUME body \in Body PROVE Ids \subseteq Nat
BY DeliveryAssumption DEF Ids

\* The types of an event decide its handler, key and follow-up alike, unless
\* it is a payment, whose handler does not take it as an object.
LEMMA TablesAgree == ASSUME NEW e \in Event, ~IsPayment(e) PROVE Agree(e)
<1> USE DEF Event, DealSub, VenueSub, LineSub, ObjectSub, PaymentSub
<1>1. e.sub \in Sub /\ e.obj \in Obj
  OBVIOUS
<1>2. CASE e.sub \in ObjectSub
  <2>1. e.obj \in {"venue", "line", "other"}
    BY <1>1 DEF IsPayment, Obj
  <2>2. CASE e.obj = "venue"
    BY <1>2, <2>2 DEF Agree, Handler, KeyKind, FollowUp, ValidPayload, IsVenue
  <2>3. CASE e.obj = "line"
    BY <1>2, <2>3 DEF Agree, Handler, KeyKind, FollowUp, ValidPayload, IsVenue
  <2>4. CASE e.obj = "other"
    BY <1>2, <2>4 DEF Agree, Handler
  <2> QED BY <2>1, <2>2, <2>3, <2>4
<1>3. CASE e.sub \in DealSub
  BY <1>3 DEF Agree, Handler, KeyKind, FollowUp, ValidPayload, IsVenue
<1>4. CASE e.sub \in VenueSub
  BY <1>4 DEF Agree, Handler, KeyKind, FollowUp, ValidPayload, IsVenue
<1>5. CASE e.sub \in LineSub
  BY <1>5 DEF Agree, Handler, KeyKind, FollowUp, ValidPayload, IsVenue
<1>6. CASE e.sub = "contact.creation"
  BY <1>6 DEF Agree, Handler
<1> QED BY <1>1, <1>2, <1>3, <1>4, <1>5, <1>6 DEF Sub, IsPayment

\* What the handlers hold, for actions that only add or keep messages.
LEMMA HandlerStays ==
  ASSUME HandlerInv, UNCHANGED body, \A m \in msgs' : m \in msgs \/ m.at # "handler"
  PROVE  HandlerInv'
BY DEF HandlerInv, EventOf

\* The requests' part of the state, for actions of the processor.
LEMMA ProcessorKeeps ==
  ASSUME DeliveryInv, Worker
  PROVE  /\ RequestInv' /\ AnsweredMeansQueued' /\ RefusedMeansUntouched'
         /\ Ids' = Ids /\ UNCHANGED body
<1>1. Ids' = Ids /\ UNCHANGED <<body, request, queued>>
  BY IdsStay DEF Worker
<1>2. RequestInv'
  BY <1>1 DEF DeliveryInv, RequestInv, request
<1>3. AnsweredMeansQueued' /\ RefusedMeansUntouched'
  BY <1>1 DEF DeliveryInv, AnsweredMeansQueued, RefusedMeansUntouched, request
<1> QED BY <1>1, <1>2, <1>3

\* The messages' part, for actions that only answer a request.
LEMMA UntouchedKeeps ==
  ASSUME NothingVanishes, UNCHANGED delivered
  PROVE  NothingVanishes'
BY DEF NothingVanishes, delivered

LEMMA PostKeeps == ASSUME DeliveryInv, Post PROVE DeliveryInv'
<1> USE DeliveryAssumption DEF DeliveryInv
<1>1. Ids' = Ids
  BY IdsStay DEF Post
<1>2. TypeOK'
  BY <1>1 DEF Post, TypeOK, delivered
<1>3. RequestInv'
  BY <1>1 DEF Post, RequestInv, TypeOK, delivered
<1>4. AnsweredMeansQueued' /\ RefusedMeansUntouched'
  BY DEF Post, AnsweredMeansQueued, RefusedMeansUntouched
<1>5. NothingVanishes'
  BY UntouchedKeeps DEF Post
<1>6. HandlerInv'
  BY HandlerStays DEF Post, delivered
<1> QED BY <1>2, <1>3, <1>4, <1>5, <1>6

LEMMA LateKeeps == ASSUME DeliveryInv, Late PROVE DeliveryInv'
<1> USE DeliveryAssumption DEF DeliveryInv
<1>1. Ids' = Ids
  BY IdsStay DEF Late, Answer
<1>2. TypeOK'
  BY <1>1 DEF Late, Answer, Fault, TypeOK, delivered
<1>3. RequestInv'
  BY <1>1 DEF Late, Answer, RequestInv, delivered
<1>4. AnsweredMeansQueued' /\ RefusedMeansUntouched'
  BY <1>1 DEF Late, Answer, AnsweredMeansQueued, RefusedMeansUntouched,
              RequestInv, delivered
<1>5. NothingVanishes'
  BY UntouchedKeeps DEF Late
<1>6. HandlerInv'
  BY HandlerStays DEF Late, Answer, delivered
<1> QED BY <1>2, <1>3, <1>4, <1>5, <1>6

LEMMA CheckKeeps == ASSUME DeliveryInv, Check PROVE DeliveryInv'
<1> USE DeliveryAssumption DEF DeliveryInv
<1>1. Ids' = Ids
  BY IdsStay DEF Check, Answer
<1>2. UNCHANGED delivered /\ UNCHANGED <<body, config, posts, faults>>
  BY DEF Check, Answer
<1>3. NothingVanishes' /\ HandlerInv'
  BY <1>2, UntouchedKeeps, HandlerStays DEF delivered
<1>4. CASE Refusal # 0
  <2>1. Refusal \in {400, 500}
    BY <1>4 DEF Refusal
  <2>2. code' \in {400, 500} /\ conn' \in {"idle", "closed"} /\ sent' = sent
        /\ (code' = 400 => conn' = "closed") /\ (code' = 500 => conn' = "idle")
    BY <1>4, <2>1 DEF Check, Answer
  <2>3. TypeOK'
    BY <1>1, <1>2, <2>2 DEF TypeOK, delivered
  <2>4. RequestInv'
    BY <1>1, <1>2, <2>2 DEF RequestInv, delivered
  <2>5. AnsweredMeansQueued' /\ RefusedMeansUntouched'
    BY <1>1, <1>2, <2>2 DEF Check, AnsweredMeansQueued, RefusedMeansUntouched,
       RequestInv, delivered
  <2> QED BY <1>3, <2>3, <2>4, <2>5
<1>5. CASE Refusal = 0
  <2>1. conn = "open" /\ conn' = "checked" /\ UNCHANGED <<code, sent>>
    BY <1>5 DEF Check
  <2>2. TypeOK'
    BY <1>1, <1>2, <2>1 DEF TypeOK, delivered
  <2>3. code = 0
    BY <2>1 DEF RequestInv
  <2>4. AnsweredMeansQueued' /\ RefusedMeansUntouched'
    BY <2>1, <2>3 DEF AnsweredMeansQueued, RefusedMeansUntouched
  <2>6. RequestInv'
    BY <1>1, <1>2, <2>1 DEF RequestInv, delivered
  <2> QED BY <1>3, <2>2, <2>4, <2>6
<1> QED BY <1>4, <1>5

\* Taking entries of the chunk, whatever becomes of the request.
LEMMA TakeKeeps ==
  ASSUME DeliveryInv, conn = "checked", NEW S \in SUBSET Batch, Take(S),
         UNCHANGED <<body, posts>>
  PROVE  /\ queued \subseteq queued'
         /\ queued' \subseteq Ids \X (1 .. posts)
         /\ queued' \subseteq Ids \X (1 .. MaxPosts)
         /\ msgs' \subseteq Message
         /\ \A m \in msgs' : m.ev \in Ids /\ Received(m)
         /\ outcome' = outcome
         /\ NothingVanishes' /\ HandlerInv'
<1> USE DeliveryAssumption DEF DeliveryInv
<1>1. S \subseteq Ids /\ posts \in 1 .. MaxPosts
  BY DEF Batch, Remaining, RequestInv
<1>2. Ids \subseteq Nat
  BY IdsAreNumbers DEF TypeOK
<1> DEFINE New(i) == [ev |-> i, post |-> posts, receives |-> 0, at |-> "queue"]
<1>3. \A i \in S : New(i) \in Message
  BY <1>1, <1>2 DEF Message
<1>4. msgs' = msgs \cup {New(i) : i \in S}
  BY DEF Take
<1>5. queued' = queued \cup {<<i, posts>> : i \in S} /\ outcome' = outcome
  BY DEF Take
<1>6. queued \subseteq queued' /\ queued' \subseteq Ids \X (1 .. posts)
      /\ queued' \subseteq Ids \X (1 .. MaxPosts)
  BY <1>1, <1>5 DEF RequestInv, TypeOK
<1>7. msgs' \subseteq Message
  BY <1>3, <1>4 DEF TypeOK
<1>8. \A m \in msgs' : m.ev \in Ids /\ Received(m)
  BY <1>1, <1>4 DEF TypeOK, Received
<1>9. NothingVanishes'
  <2>1. SUFFICES ASSUME NEW x \in queued'
                 PROVE  outcome'[x[1]] # {} \/ \E m \in msgs' : m.ev = x[1]
    BY DEF NothingVanishes
  <2>2. CASE x \in queued
    BY <2>2, <1>4, <1>5 DEF NothingVanishes
  <2>3. ASSUME NEW i \in S, x = <<i, posts>>
        PROVE  \E m \in msgs' : m.ev = x[1]
    <3>1. New(i) \in msgs' /\ New(i).ev = x[1]
      BY <2>3, <1>4
    <3> QED BY <3>1
  <2> QED BY <2>2, <2>3, <1>5
<1>10. HandlerInv'
  BY <1>4, HandlerStays
<1> QED BY <1>5, <1>6, <1>7, <1>8, <1>9, <1>10

LEMMA SendBatchKeeps == ASSUME DeliveryInv, SendBatch PROVE DeliveryInv'
<1> USE DeliveryAssumption DEF DeliveryInv
<1>1. Ids' = Ids
  BY IdsStay DEF SendBatch
<1>2. conn = "checked" /\ Take(Batch) /\ sent' = sent \cup Batch
      /\ UNCHANGED <<body, config, conn, code, posts, faults>>
  BY DEF SendBatch
<1>3. /\ queued \subseteq queued'
      /\ queued' \subseteq Ids \X (1 .. posts)
      /\ queued' \subseteq Ids \X (1 .. MaxPosts)
      /\ msgs' \subseteq Message
      /\ \A m \in msgs' : m.ev \in Ids /\ Received(m)
      /\ outcome' = outcome
      /\ NothingVanishes' /\ HandlerInv'
  BY <1>2, TakeKeeps
<1>4. TypeOK'
  BY <1>1, <1>2, <1>3 DEF TypeOK, Batch, Remaining
<1>5. \A i \in sent' : <<i, posts>> \in queued'
  <2>1. SUFFICES ASSUME NEW i \in sent' PROVE <<i, posts>> \in queued'
    OBVIOUS
  <2>2. CASE i \in sent
    BY <2>2, <1>2, <1>3 DEF RequestInv
  <2>3. CASE i \in Batch
    BY <2>3, <1>2 DEF Take
  <2> QED BY <1>2, <2>1, <2>2, <2>3
<1>6. RequestInv'
  BY <1>1, <1>2, <1>3, <1>5 DEF RequestInv
<1>7. AnsweredMeansQueued' /\ RefusedMeansUntouched'
  BY <1>2 DEF RequestInv, AnsweredMeansQueued, RefusedMeansUntouched
<1> QED BY <1>3, <1>4, <1>6, <1>7

LEMMA SendFailsKeeps == ASSUME DeliveryInv, SendFails PROVE DeliveryInv'
<1> USE DeliveryAssumption DEF DeliveryInv
<1>1. Ids' = Ids
  BY IdsStay DEF SendFails, Answer
<1>2. conn = "checked" /\ code' = 500 /\ conn' = "idle" /\ Fault
      /\ UNCHANGED <<body, config, posts, sent>>
  BY DEF SendFails, Answer
<1>3. PICK S \in SUBSET Batch : Take(S)
  BY DEF SendFails
<1>4. /\ queued' \subseteq Ids \X (1 .. posts)
      /\ queued' \subseteq Ids \X (1 .. MaxPosts)
      /\ msgs' \subseteq Message
      /\ \A m \in msgs' : m.ev \in Ids /\ Received(m)
      /\ outcome' = outcome
      /\ NothingVanishes' /\ HandlerInv'
  BY <1>2, <1>3, TakeKeeps
<1>5. TypeOK'
  BY <1>1, <1>2, <1>4 DEF TypeOK, Fault
<1>6. RequestInv'
  BY <1>1, <1>2, <1>4 DEF RequestInv
<1>7. AnsweredMeansQueued' /\ RefusedMeansUntouched'
  BY <1>2 DEF AnsweredMeansQueued, RefusedMeansUntouched
<1> QED BY <1>4, <1>5, <1>6, <1>7

LEMMA FinishKeeps == ASSUME DeliveryInv, Finish PROVE DeliveryInv'
<1> USE DeliveryAssumption DEF DeliveryInv
<1>1. Ids' = Ids
  BY IdsStay DEF Finish, Answer
<1>2. conn = "checked" /\ code' = 204 /\ conn' = "closed"
      /\ UNCHANGED <<body, config, posts, sent, delivered, faults>>
  BY DEF Finish, Answer
<1>3. \A i \in Ids : <<i, posts>> \in queued
  BY <1>2 DEF Finish, Remaining, RequestInv
<1>4. TypeOK'
  BY <1>1, <1>2 DEF TypeOK, delivered
<1>5. RequestInv'
  BY <1>1, <1>2 DEF RequestInv, delivered
<1>6. posts \in 1 .. posts
  BY <1>2 DEF RequestInv
<1>7. AnsweredMeansQueued'
  BY <1>1, <1>2, <1>3, <1>6 DEF AnsweredMeansQueued, delivered
<1>8. RefusedMeansUntouched'
  BY <1>2 DEF RefusedMeansUntouched
<1>9. NothingVanishes' /\ HandlerInv'
  BY <1>2, UntouchedKeeps, HandlerStays DEF delivered
<1> QED BY <1>4, <1>5, <1>7, <1>8, <1>9

LEMMA UnansweredKeeps == ASSUME DeliveryInv, Unanswered PROVE DeliveryInv'
<1> USE DeliveryAssumption DEF DeliveryInv
<1>1. Ids' = Ids
  BY IdsStay DEF Unanswered
<1>2. TypeOK'
  BY <1>1 DEF Unanswered, Fault, TypeOK, delivered
<1>3. RequestInv'
  BY <1>1 DEF Unanswered, RequestInv, delivered
<1>4. AnsweredMeansQueued' /\ RefusedMeansUntouched'
  BY DEF Unanswered, AnsweredMeansQueued, RefusedMeansUntouched
<1>5. NothingVanishes'
  BY UntouchedKeeps DEF Unanswered
<1>6. HandlerInv'
  BY HandlerStays DEF Unanswered, delivered
<1> QED BY <1>2, <1>3, <1>4, <1>5, <1>6

\* A message that goes on, or is settled, with nothing else touched.
LEMMA MovedKeeps ==
  ASSUME DeliveryInv, NEW m \in msgs, NEW n \in Message, n.ev = m.ev,
         Received(n), n.at = "handler" => ~IsPayment(EventOf(m)), msgs' = (msgs \ {m}) \cup {n},
         Worker, UNCHANGED <<outcome, faults>>
  PROVE  DeliveryInv'
<1> USE DEF DeliveryInv
<1>1. RequestInv' /\ AnsweredMeansQueued' /\ RefusedMeansUntouched'
      /\ Ids' = Ids /\ UNCHANGED body
  BY ProcessorKeeps
<1>2. TypeOK'
  BY <1>1 DEF TypeOK, Worker, request
<1>3. NothingVanishes'
  BY DEF NothingVanishes, Worker
<1>4. HandlerInv'
  BY <1>1 DEF HandlerInv, EventOf
<1> QED BY <1>1, <1>2, <1>3, <1>4

LEMMA SettledKeeps ==
  ASSUME DeliveryInv, NEW m \in msgs, NEW o \in Outcomes, Settle(m, o),
         Worker, UNCHANGED faults
  PROVE  DeliveryInv'
<1> USE DEF DeliveryInv
<1>1. RequestInv' /\ AnsweredMeansQueued' /\ RefusedMeansUntouched'
      /\ Ids' = Ids /\ UNCHANGED body
  BY ProcessorKeeps
<1>2. m.ev \in Ids /\ outcome \in [Ids -> SUBSET Outcomes]
  BY DEF TypeOK
<1>3. msgs' = msgs \ {m} /\ outcome' = [outcome EXCEPT ![m.ev] = @ \cup {o}]
  BY DEF Settle
<1>4. outcome' \in [Ids -> SUBSET Outcomes]
  BY <1>2, <1>3
<1>5. TypeOK'
  BY <1>1, <1>3, <1>4 DEF TypeOK, Worker, request
<1>6. NothingVanishes'
  <2>1. SUFFICES ASSUME NEW x \in queued
                 PROVE  outcome'[x[1]] # {} \/ \E n \in msgs' : n.ev = x[1]
    BY DEF NothingVanishes, Worker
  <2>2. x[1] \in Ids
    BY DEF TypeOK
  <2>3. CASE x[1] = m.ev
    BY <2>3, <1>2, <1>3
  <2>4. CASE x[1] # m.ev
    BY <2>2, <2>4, <1>2, <1>3 DEF NothingVanishes
  <2> QED BY <2>3, <2>4
<1>7. HandlerInv'
  BY <1>1, <1>3, HandlerStays
<1> QED BY <1>1, <1>5, <1>6, <1>7

LEMMA ProcessKeeps == ASSUME DeliveryInv, Process PROVE DeliveryInv'
<1> USE DeliveryAssumption DEF DeliveryInv
<1>1. PICK m \in msgs : Receive(m) \/ Route(m) \/ Handle(m)
  BY DEF Process
<1>2. m \in Message /\ Received(m)
  BY DEF TypeOK
<1>3. "acked" \in Outcomes
  BY DEF Outcomes
<1>4. CASE Receive(m)
  <2> DEFINE n == [ev |-> m.ev, post |-> m.post, receives |-> m.receives + 1,
                   at |-> "routing"]
  <2>1. n \in Message /\ n.ev = m.ev
    <3>1. m.ev \in Nat /\ m.post \in Nat /\ m.receives + 1 \in Nat
      BY <1>2 DEF Message
    <3> QED BY <3>1 DEF Message
  <2>2. Received(n) /\ n.at # "handler"
    BY <1>2, <1>4 DEF Message, Receive, Received
  <2>3. msgs' = (msgs \ {m}) \cup {n} /\ Worker /\ UNCHANGED <<outcome, faults>>
    BY <1>4 DEF Receive
  <2> HIDE DEF n
  <2> QED BY <2>1, <2>2, <2>3, MovedKeeps
<1>5. CASE Route(m)
  <2>1. CASE Settle(m, "acked")
    BY <1>3, <1>5, <2>1, SettledKeeps DEF Route
  <2>2. CASE Move(m, "handler") /\ UNCHANGED outcome /\ ~IsPayment(EventOf(m))
    <3> DEFINE n == [m EXCEPT !.at = "handler"]
    <3>1. n \in Message /\ n.ev = m.ev /\ Received(n)
      BY <1>2, <1>5 DEF Message, Route, Received
    <3>2. msgs' = (msgs \ {m}) \cup {n} /\ Worker /\ UNCHANGED <<outcome, faults>>
      BY <1>5, <2>2 DEF Route, Move
    <3> HIDE DEF n
    <3> QED BY <2>2, <3>1, <3>2, MovedKeeps
  <2> QED BY <1>5, <2>1, <2>2 DEF Route
<1>6. CASE Handle(m)
  BY <1>3, <1>6, SettledKeeps DEF Handle
<1> QED BY <1>1, <1>4, <1>5, <1>6

LEMMA RedriveKeeps ==
  ASSUME DeliveryInv, NEW m \in msgs, Redrive(m) PROVE DeliveryInv'
<1> USE DeliveryAssumption DEF DeliveryInv
<1>1. m \in Message /\ Received(m) /\ "dead" \in Outcomes
  BY DEF TypeOK, Outcomes
<1>2. CASE m.receives < MaxReceives
  <2> DEFINE n == [m EXCEPT !.at = "queue"]
  <2>1. n \in Message /\ n.ev = m.ev /\ Received(n) /\ n.at # "handler"
    BY <1>1, <1>2 DEF Message, Received
  <2>2. msgs' = (msgs \ {m}) \cup {n} /\ Worker /\ UNCHANGED <<outcome, faults>>
    BY <1>2 DEF Redrive, Move
  <2> HIDE DEF n
  <2> QED BY <2>1, <2>2, MovedKeeps
<1>3. CASE ~(m.receives < MaxReceives)
  BY <1>1, <1>3, SettledKeeps DEF Redrive
<1> QED BY <1>2, <1>3

LEMMA InitHolds == ASSUME Init PROVE DeliveryInv
<1> USE DeliveryAssumption DEF Init
<1>1. TypeOK /\ HandlerInv
  BY DEF TypeOK, HandlerInv
<1>2. RequestInv /\ AnsweredMeansQueued /\ RefusedMeansUntouched /\ NothingVanishes
  BY DEF RequestInv, AnsweredMeansQueued, RefusedMeansUntouched, NothingVanishes
<1> QED BY <1>1, <1>2 DEF DeliveryInv

LEMMA StutterKeeps == ASSUME DeliveryInv, UNCHANGED vars PROVE DeliveryInv'
<1>1. Ids' = Ids
  BY IdsStay DEF vars
<1> QED BY <1>1 DEF DeliveryInv, vars, request, delivered, TypeOK, RequestInv,
     AnsweredMeansQueued, RefusedMeansUntouched, NothingVanishes, HandlerInv, EventOf

\* The invariant of one delivery: what each request has enqueued, and that
\* what was enqueued is still there or settled.
THEOREM DeliveryInvariant == Spec => []DeliveryInv
<1>1. DeliveryInv /\ [Next]_vars => DeliveryInv'
  BY PostKeeps, LateKeeps, CheckKeeps, SendBatchKeeps, SendFailsKeeps, FinishKeeps,
     UnansweredKeeps, ProcessKeeps, RedriveKeeps, StutterKeeps DEF Next
<1> QED BY <1>1, InitHolds, PTL DEF Spec

\* The webhook's, the queue's and the messages' variables keep their types.
THEOREM TypeCorrect == Spec => []TypeOK
<1>1. DeliveryInv => TypeOK
  BY DEF DeliveryInv
<1> QED BY <1>1, DeliveryInvariant, PTL

\* For every batch, chunk size and number of posts and faults, a 204 is only
\* answered with every valid event enqueued.
THEOREM AnsweredHolds == Spec => []AnsweredMeansQueued
<1>1. DeliveryInv => AnsweredMeansQueued
  BY DEF DeliveryInv
<1> QED BY <1>1, DeliveryInvariant, PTL

\* And a 400 or 401 only with none of that request's.
THEOREM RefusedHolds == Spec => []RefusedMeansUntouched
<1>1. DeliveryInv => RefusedMeansUntouched
  BY DEF DeliveryInv
<1> QED BY <1>1, DeliveryInvariant, PTL

\* And what SQS took is never without a message or an outcome.
THEOREM NothingVanishesHolds == Spec => []NothingVanishes
<1>1. DeliveryInv => NothingVanishes
  BY DEF DeliveryInv
<1> QED BY <1>1, DeliveryInvariant, PTL

\* Whatever events a body holds and however its messages are redriven, what a
\* handler is given it accepts, under the key of the record it writes.
THEOREM RoutesAgreeHolds == Spec => []RoutesAgree
<1>1. DeliveryInv => RoutesAgree
  <2>1. SUFFICES ASSUME DeliveryInv, NEW m \in msgs, m.at = "handler"
                 PROVE  Agree(EventOf(m))
    BY DEF RoutesAgree
  <2>2. EventOf(m) \in Event
    BY <2>1 DEF DeliveryInv, TypeOK, Ids, EventOf
  <2>3. ~IsPayment(EventOf(m))
    BY <2>1 DEF DeliveryInv, HandlerInv
  <2> QED BY <2>2, <2>3, TablesAgree
<1> QED BY <1>1, DeliveryInvariant, PTL
=============================================================================
