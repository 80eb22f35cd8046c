--------------------------- MODULE ApiRequestProofs ---------------------------
(***************************************************************************)
(* Proofs about ApiRequest for any set of operations and any number of     *)
(* faults: types, three calls before a request is given up, and no upsert  *)
(* acked before NetSuite took its payload.                                 *)
(***************************************************************************)
EXTENDS ApiRequest, TLAPS

USE OpAssumption, NoneAssumption

LEMMA InitRequestInv == Init => RequestInv
<1> SUFFICES ASSUME Init PROVE RequestInv
  OBVIOUS
<1>1. ValuesOK
  BY DEF Init, ValuesOK
<1>4. FlagsOK
  BY DEF Init, FlagsOK
<1>2. LoopInv
  BY DEF Init, LoopInv
<1>3. UpsertInv /\ ContactInv
  BY DEF Init, UpsertInv, ContactInv, Op
<1> QED BY <1>1, <1>2, <1>3, <1>4 DEF RequestInv, TypeOK

LEMMA BeginKeeps ==
  ASSUME RequestInv, NEW o \in Ops, Begin(o)
  PROVE  RequestInv'
<1>1. o \in Op
  OBVIOUS
<1>2. step' = First[o] /\ First[o] \in Steps
  BY <1>1 DEF Begin, Request, First, Op, Steps, Searches, Creates, Updates, Hubspot
<1>3. ValuesOK'
  BY <1>2 DEF Begin, Request, RequestInv, TypeOK, ValuesOK
<1>7. FlagsOK'
  BY DEF Begin, Request, RequestInv, TypeOK, FlagsOK
<1>4. LoopInv'
  BY DEF Begin, Request, LoopInv
<1>5. UpsertInv'
  BY <1>2 DEF Begin, Request, UpsertInv, Commits, First
<1>6. ContactInv'
  BY <1>2 DEF Begin, Request, ContactInv, First
<1> QED BY <1>3, <1>4, <1>5, <1>6, <1>7 DEF RequestInv, TypeOK

LEMMA BeginCachedKeeps ==
  ASSUME RequestInv, BeginCached
  PROVE  RequestInv'
<1>1. ValuesOK'
  <2>1. CASE cache = "rows"
    BY <2>1 DEF BeginCached, loop, RequestInv, TypeOK, ValuesOK
  <2>2. CASE cache # "rows"
    BY <2>2 DEF BeginCached, Request, RequestInv, TypeOK, ValuesOK, Steps, Hubspot
  <2> QED BY <2>1, <2>2
<1>4. FlagsOK'
  BY DEF BeginCached, Request, loop, RequestInv, TypeOK, FlagsOK
<1>2. LoopInv'
  <2>1. CASE cache = "rows"
    BY <2>1 DEF BeginCached, loop, RequestInv, LoopInv, Steps, Hubspot
  <2>2. CASE cache # "rows"
    BY <2>2 DEF BeginCached, Request, LoopInv
  <2> QED BY <2>1, <2>2
<1>3. UpsertInv' /\ ContactInv'
  BY DEF BeginCached, UpsertInv, ContactInv
<1> QED BY <1>1, <1>2, <1>3, <1>4 DEF RequestInv, TypeOK

\* What a caller does next with an answer, a 429 or a failure.
LEMMA NextRequest ==
  ASSUME RequestInv, fate = "open", NEW s,
         step \in Steps,
         \/ end = "ok" /\ s \in {OnOk[step]} \cup IF step = "post" THEN {"reread"} ELSE {}
         \/ end = "limited" /\ step \notin Hubspot /\ s = OnLimited[step]
         \/ end = "raised" /\ s = OnRaised
  PROVE  /\ s \in Steps \cup {"acked", "retry"}
         /\ op = "upsert" =>
              /\ s \in Commits \cup {"acked", "retry"}
              /\ s \in {"number", "stamp", "reread", "acked"} => written
         /\ op = "contact" =>
              /\ s \in {"acked", "retry"}
              /\ s = "acked" => end = "ok"
         /\ step \in Judging /\ s = "stamp" => end # "ok"
<1>1. CASE end = "ok"
  BY <1>1 DEF RequestInv, UpsertInv, ContactInv, Judging, OnOk,
     Steps, Searches, Creates, Updates, Hubspot, Commits
<1>2. CASE end = "limited"
  BY <1>2 DEF RequestInv, UpsertInv, ContactInv, Judging, OnLimited,
     Steps, Searches, Creates, Updates, Hubspot, Commits
<1>3. CASE end = "raised"
  BY <1>3 DEF RequestInv, UpsertInv, ContactInv, Judging, OnRaised,
     Steps, Searches, Creates, Updates, Hubspot, Commits
<1> QED BY <1>1, <1>2, <1>3

LEMMA ConcludeKeeps ==
  ASSUME RequestInv, Conclude
  PROVE  RequestInv'
<1>1. step \in Steps
  BY DEF Conclude, RequestInv, TypeOK, ValuesOK, LoopInv
<1>2. PICK s : Goes(s) /\
        \/ end = "ok" /\ s \in {OnOk[step]} \cup IF step = "post" THEN {"reread"} ELSE {}
        \/ end = "limited" /\ step \notin Hubspot /\ s = OnLimited[step]
        \/ end = "raised" /\ s = OnRaised
  BY DEF Conclude, RequestInv, TypeOK, ValuesOK, LoopInv
<1>3. /\ s \in Steps \cup {"acked", "retry"}
      /\ op = "upsert" =>
           /\ s \in Commits \cup {"acked", "retry"}
           /\ s \in {"number", "stamp", "reread", "acked"} => written
      /\ op = "contact" =>
           /\ s \in {"acked", "retry"}
           /\ s = "acked" => end = "ok"
      /\ step \in Judging /\ s = "stamp" => end # "ok"
  BY <1>1, <1>2, NextRequest DEF Conclude
<1>4. CASE s \in {"acked", "retry"}
  <2>1. fate' = s /\ UNCHANGED <<step, attempt, calls, end, refused>>
    BY <1>2, <1>4 DEF Goes, loop
  <2>2. ValuesOK'
    <3>1. rejected' = rejected
      BY <2>1 DEF Conclude, Judging
    <3> QED BY <1>4, <2>1, <3>1 DEF Conclude, remote, RequestInv, TypeOK, ValuesOK
  <2>3. FlagsOK'
    BY <2>1 DEF Conclude, remote, RequestInv, TypeOK, FlagsOK
  <2>4. LoopInv'
    BY <1>1, <2>1 DEF RequestInv, LoopInv
  <2>5. UpsertInv'
    BY <1>3, <1>4, <2>1 DEF Conclude, remote, RequestInv, UpsertInv
  <2>6. ContactInv'
    BY <1>3, <1>4, <2>1 DEF Conclude, RequestInv, ContactInv
  <2> QED BY <2>2, <2>3, <2>4, <2>5, <2>6 DEF RequestInv, TypeOK
<1>5. CASE s \notin {"acked", "retry"}
  <2>1. /\ step' = s /\ attempt' = 0 /\ calls' = 0 /\ end' = "open"
        /\ refused' = FALSE /\ fate' = fate
    BY <1>2, <1>5 DEF Goes, Request
  <2>2. ValuesOK'
    <3>1. rejected' \in {None, "limited", "raised"}
      BY <1>3, <2>1 DEF Conclude, RequestInv, TypeOK, ValuesOK
    <3> QED BY <1>3, <1>5, <2>1, <3>1 DEF Conclude, remote, RequestInv, TypeOK, ValuesOK
  <2>3. FlagsOK'
    BY <2>1 DEF Conclude, remote, RequestInv, TypeOK, FlagsOK
  <2>4. LoopInv'
    BY <2>1 DEF LoopInv
  <2>5. UpsertInv'
    BY <1>3, <1>5, <2>1 DEF Conclude, remote, UpsertInv
  <2>6. ContactInv'
    BY <1>3, <1>5, <2>1 DEF Conclude, ContactInv
  <2> QED BY <2>2, <2>3, <2>4, <2>5, <2>6 DEF RequestInv, TypeOK
<1> QED BY <1>4, <1>5

-----------------------------------------------------------------------------
(* The loop                                                                *)

\* A call that fails leaves the loop open with one more attempt counted, or
\* ends it after the third.
LEMMA FailsKeeps ==
  ASSUME RequestInv, Calling, NEW answered \in BOOLEAN, Fails(answered),
         written' = written \/ written' = TRUE,
         record' \in {None, "mine", "other"}, indexed' \in BOOLEAN,
         faults' \in 0 .. MaxFaults
  PROVE  RequestInv'
<1>1. end = "open" /\ attempt \in 0 .. 2 /\ calls = attempt
  BY DEF Calling, RequestInv, LoopInv
<1>2. /\ UNCHANGED <<op, step, found, fate, rejected, cache>>
      /\ calls' = calls + 1
      /\ \/ attempt = 2 /\ end' = "raised" /\ UNCHANGED attempt
         \/ attempt < 2 /\ attempt' = attempt + 1 /\ UNCHANGED end
  BY <1>1 DEF Fails, GivesUp, Counted
<1>3. ValuesOK'
  BY <1>1, <1>2 DEF RequestInv, TypeOK, ValuesOK
<1>4. FlagsOK'
  BY DEF Fails, GivesUp, RequestInv, TypeOK, FlagsOK
<1>5. LoopInv'
  BY <1>1, <1>2 DEF Calling, LoopInv
<1>6. UpsertInv' /\ ContactInv'
  BY <1>1, <1>2 DEF Calling, RequestInv, UpsertInv, ContactInv
<1> QED BY <1>3, <1>4, <1>5, <1>6 DEF RequestInv, TypeOK

LEMMA ServedKeeps ==
  ASSUME RequestInv, Served
  PROVE  RequestInv'
<1>1. end = "open" /\ attempt \in 0 .. 2 /\ calls = attempt
  BY DEF Served, Calling, RequestInv, LoopInv
<1>2. /\ UNCHANGED <<op, step, attempt, refused, fate, rejected, cache, faults>>
      /\ fate = "open" /\ step # None
      /\ calls' = calls + 1 /\ end' = "ok"
  BY DEF Served, Calling
<1>3. ValuesOK'
  BY <1>1, <1>2 DEF Served, Takes, remote, RequestInv, TypeOK, ValuesOK
<1>4. FlagsOK'
  BY DEF Served, Takes, remote, RequestInv, TypeOK, FlagsOK
<1>5. LoopInv'
  BY <1>1, <1>2 DEF LoopInv
<1>6. UpsertInv'
  BY <1>2 DEF Served, Takes, remote, Writing, Creates, Updates, RequestInv, UpsertInv
<1>7. ContactInv'
  BY <1>2 DEF RequestInv, ContactInv
<1> QED BY <1>3, <1>4, <1>5, <1>6, <1>7 DEF RequestInv, TypeOK

LEMMA RejectedKeeps == RequestInv /\ Rejected => RequestInv'
<1> SUFFICES ASSUME RequestInv, Rejected PROVE RequestInv'
  OBVIOUS
<1>1. /\ record' \in {None, "mine", "other"} /\ faults' \in 0 .. MaxFaults
      /\ UNCHANGED <<written, indexed>>
  BY DEF Rejected, remote, RequestInv, TypeOK, ValuesOK
<1>2. indexed' \in BOOLEAN
  BY <1>1 DEF RequestInv, TypeOK, FlagsOK
<1>3. Calling /\ Fails(TRUE)
  BY DEF Rejected
<1> QED BY <1>1, <1>2, <1>3, FailsKeeps

LEMMA FaultBound == RequestInv /\ Fault => faults' \in 0 .. MaxFaults
  BY DEF Fault, RequestInv, TypeOK, ValuesOK

LEMMA ErrsKeeps == RequestInv /\ Errs => RequestInv'
<1> SUFFICES ASSUME RequestInv, Errs PROVE RequestInv'
  OBVIOUS
<1>1. record' \in {None, "mine", "other"} /\ UNCHANGED <<written, indexed>>
  BY DEF Errs, remote, RequestInv, TypeOK, ValuesOK
<1>2. indexed' \in BOOLEAN
  BY <1>1 DEF RequestInv, TypeOK, FlagsOK
<1>3. Calling /\ Fails(TRUE) /\ faults' \in 0 .. MaxFaults
  BY FaultBound DEF Errs
<1> QED BY <1>1, <1>2, <1>3, FailsKeeps

LEMMA LostKeeps == RequestInv /\ Lost => RequestInv'
<1> SUFFICES ASSUME RequestInv, Lost PROVE RequestInv'
  OBVIOUS
<1>1. record' \in {None, "mine", "other"}
  BY DEF Lost, Takes, remote, RequestInv, TypeOK, ValuesOK
<1>2. indexed' \in BOOLEAN
  BY DEF Lost, Takes, remote, RequestInv, TypeOK, FlagsOK
<1>3. written' = written \/ written' = TRUE
  BY DEF Lost, Takes, remote
<1>4. Calling /\ Fails(FALSE) /\ faults' \in 0 .. MaxFaults
  BY FaultBound DEF Lost
<1> QED BY <1>1, <1>2, <1>3, <1>4, FailsKeeps

\* The third 429 ends the loop after three calls, HubSpot's as a failure.
LEMMA LimitedKeeps ==
  ASSUME RequestInv, Limited
  PROVE  RequestInv'
<1>1. end = "open" /\ attempt \in 0 .. 2 /\ calls = attempt
  BY DEF Limited, Calling, RequestInv, LoopInv
<1>2. /\ UNCHANGED <<op, step, found, fate, rejected, record, cache>>
      /\ fate = "open" /\ step # None
      /\ calls' = calls + 1 /\ faults' \in 0 .. MaxFaults
      /\ \/ attempt < 2 /\ attempt' = attempt + 1 /\ UNCHANGED end
         \/ /\ attempt = 2 /\ attempt' = 4
            /\ end' = IF step \in Hubspot THEN "raised" ELSE "limited"
  BY <1>1, FaultBound DEF Limited, Calling, remote
<1>3. ValuesOK'
  BY <1>1, <1>2 DEF RequestInv, TypeOK, ValuesOK
<1>4. FlagsOK'
  <2>1. refused' \in BOOLEAN
    <3>1. refused' = refused \/ refused' = TRUE \/ refused' = FALSE
      BY DEF Limited
    <3> QED BY <3>1 DEF RequestInv, TypeOK, FlagsOK
  <2>2. UNCHANGED <<found, indexed, written>>
    BY DEF Limited, remote
  <2> QED BY <2>1, <2>2 DEF RequestInv, TypeOK, FlagsOK
<1>5. LoopInv'
  BY <1>1, <1>2 DEF LoopInv
<1>6. UpsertInv'
  BY <1>1, <1>2 DEF Limited, remote, RequestInv, UpsertInv
<1>7. ContactInv'
  BY <1>1, <1>2 DEF RequestInv, ContactInv, Hubspot
<1> QED BY <1>3, <1>4, <1>5, <1>6, <1>7 DEF RequestInv, TypeOK

LEMMA AroundKeeps == RequestInv /\ (OtherCreates \/ Index \/ Expire) => RequestInv'
<1> SUFFICES ASSUME RequestInv, OtherCreates \/ Index \/ Expire
             PROVE  RequestInv'
  OBVIOUS
<1>1. UNCHANGED <<op, step, attempt, calls, end, fate, rejected, written, faults>>
  BY DEF OtherCreates, Index, Expire, loop, remote
<1>2. ValuesOK'
  BY <1>1 DEF OtherCreates, Index, Expire, remote, RequestInv, TypeOK, ValuesOK
<1>3. FlagsOK'
  BY DEF OtherCreates, Index, Expire, loop, remote, RequestInv, TypeOK, FlagsOK
<1>4. LoopInv' /\ UpsertInv' /\ ContactInv'
  BY <1>1 DEF RequestInv, LoopInv, UpsertInv, ContactInv
<1> QED BY <1>2, <1>3, <1>4 DEF RequestInv, TypeOK

-----------------------------------------------------------------------------

\* The inductive invariant, for any operations and any number of faults.
THEOREM RequestInvariant == Spec => []RequestInv
<1>1. RequestInv /\ [Next]_vars => RequestInv'
  <2> SUFFICES ASSUME RequestInv, [Next]_vars PROVE RequestInv'
    OBVIOUS
  <2>1. CASE \E o \in Ops : Begin(o)
    BY <2>1, BeginKeeps
  <2>2. CASE BeginCached
    BY <2>2, BeginCachedKeeps
  <2>3. CASE Conclude
    BY <2>3, ConcludeKeeps
  <2>4. CASE Served
    BY <2>4, ServedKeeps
  <2>5. CASE Rejected \/ Errs \/ Lost
    BY <2>5, RejectedKeeps, ErrsKeeps, LostKeeps
  <2>6. CASE Limited
    BY <2>6, LimitedKeeps
  <2>7. CASE OtherCreates \/ Index \/ Expire
    BY <2>7, AroundKeeps
  <2>8. CASE UNCHANGED vars
    <3>1. ValuesOK' /\ LoopInv' /\ UpsertInv' /\ ContactInv'
      BY <2>8 DEF vars, loop, remote, RequestInv, TypeOK, ValuesOK, LoopInv,
         UpsertInv, ContactInv
    <3>2. FlagsOK'
      BY <2>8 DEF vars, loop, remote, RequestInv, TypeOK, FlagsOK
    <3> QED BY <3>1, <3>2 DEF RequestInv, TypeOK
  <2> QED BY <2>1, <2>2, <2>3, <2>4, <2>5, <2>6, <2>7, <2>8 DEF Next, Proceed
<1> QED BY <1>1, InitRequestInv, PTL DEF Spec

\* No request is given up, raised or returned as a 429, before three calls.
THEOREM GivenUpLate == Spec => []RetriesExhausted
<1>1. RequestInv => RetriesExhausted
  BY DEF RequestInv, LoopInv, RetriesExhausted
<1> QED BY <1>1, RequestInvariant, PTL

\* An upsert is acked only after NetSuite took its payload, and a HubSpot
\* read only after an answer.
THEOREM AckConfirmed == Spec => []AckMeansDone
<1>1. RequestInv => AckMeansDone
  BY DEF RequestInv, UpsertInv, ContactInv, AckMeansDone
<1> QED BY <1>1, RequestInvariant, PTL

\* The retry loop and its callers keep the types of their variables.
THEOREM TypeCorrect == Spec => []TypeOK
<1>1. RequestInv => TypeOK
  BY DEF RequestInv
<1> QED BY <1>1, RequestInvariant, PTL
=============================================================================
