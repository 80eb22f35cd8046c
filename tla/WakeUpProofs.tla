---------------------------- MODULE WakeUpProofs ----------------------------
(***************************************************************************)
(* EditsAccounted for every instance of CoalescedSync: under crashes,      *)
(* raises, failed releases, lost replies, missed searches, limited answers,*)
(* rejections, missing parents and duplicates, every edit that an invoice  *)
(* still owes is carried by a message, by a pending_resync or by a pass    *)
(* that has read it, until its wake-up is destroyed in one of the ways     *)
(* that "lost" records.                                                    *)
(*                                                                         *)
(* EditsAccounted is not inductive: it says nothing of a deal that owes    *)
(* nothing yet, and a pass that writes what it read before a later edit    *)
(* makes the deal owe that edit.  AccountInv says of every pass that what  *)
(* it has not read is carried elsewhere.                                   *)
(***************************************************************************)
EXTENDS CoalescedSyncProofs

\* Somebody else than the pass at work will act on d, or it is known lost.
FieldsWake(d) ==
  \/ FollowUpDue(d)
  \/ \E i \in DOMAIN msgs : About(i) = d /\ ToDo(i)
  \/ lost[d].fields >= crm[d].fields

LinesWake(d) ==
  \/ FollowUpDue(d)
  \/ \E i \in DOMAIN msgs : DealOf(i) = d /\ ToDo(i)
  \/ lost[d].lines >= crm[d].lines

\* The pass of w brings d what d has now.
FieldsPass(w, d) ==
  /\ job[w].key = d /\ job[w].full
  /\ \/ pc[w] = "loading"
     \/ pc[w] \in PassPC /\ job[w].seen.fields = crm[d].fields

LinesPass(w, d) ==
  /\ job[w].key = d
  /\ \/ pc[w] = "loading"
     \/ /\ pc[w] \in {"finding", "fetching"}
        /\ job[w].full => job[w].stage \in {"create", crm[d].stage}
     \/ pc[w] = "writing" /\ job[w].seen.lines = crm[d].lines

FieldsKnown(d) == FieldsWake(d) \/ \E w \in Worker : FieldsPass(w, d)
LinesKnown(d)  == LinesWake(d) \/ \E w \in Worker : LinesPass(w, d)

FieldsOwed(d) == Wanted(d) /\ FieldsOld(d)
LinesOwed(d)  == Wanted(d) /\ LinesOld(d)

\* What a pass has read is the deal's, or somebody else knows.
PassKnows(w) ==
  LET d == job[w].key
  IN  pc[w] \in PassPC =>
        /\ job[w].full /\ pc[w] # "loading" =>
             \/ job[w].seen.fields = crm[d].fields /\ job[w].stage = crm[d].stage
             \/ FieldsWake(d)
        /\ pc[w] = "writing" => job[w].seen.lines = crm[d].lines \/ LinesWake(d)

\* Only a pass is a full one.
FullPass(w) == job[w].full => pc[w] \in PassPC

AccountInv ==
  /\ \A w \in Worker : PassKnows(w) /\ FullPass(w)
  /\ \A d \in Deal : /\ FieldsOwed(d) => FieldsKnown(d)
                     /\ LinesOwed(d) => LinesKnown(d)

-----------------------------------------------------------------------------
(* What is lost stays lost                                                 *)

\* The invariants the steps are taken from.
Base == HoldInv /\ KeyInv /\ VersionInv /\ MessageInv /\ BoundInv

\* Versions recorded as lost are the deal's of now, and earlier records stand.
LEMMA LoseKeeps ==
  ASSUME Base, NEW fs, NEW ls, Lose(fs, ls), crm' = crm, NEW d \in Deal
  PROVE  /\ lost[d].fields >= crm[d].fields => lost'[d].fields >= crm'[d].fields
         /\ lost[d].lines >= crm[d].lines => lost'[d].lines >= crm'[d].lines
         /\ d \in fs => lost'[d].fields >= crm'[d].fields
         /\ d \in ls => lost'[d].lines >= crm'[d].lines
<1>1. crm[d].fields \in Nat /\ crm[d].lines \in Nat
  BY ShownTypes DEF Base
<1>2. /\ lost'[d].fields = IF d \in fs THEN crm[d].fields ELSE lost[d].fields
      /\ lost'[d].lines = IF d \in ls THEN crm[d].lines ELSE lost[d].lines
  BY DEF Lose
<1> QED BY <1>1, <1>2

\* Every step of a worker loses something or nothing, and edits nothing.
LEMMA WorkerLoses ==
  ASSUME NEW w \in Worker, Work(w) \/ Mishap(w)
  PROVE  crm' = crm /\ (lost' = lost \/ \E fs, ls : Lose(fs, ls))
  BY DEF Work, Mishap, ResolveKey, Acquire, PutRejected, MarkPending, Load,
     FindAndGo, FindAndSkip, Fetch, Write, ConsumePending, DrainDone, Release,
     Return, Consume, AcquireUnseen, AcquireRaises, NoParent, RaiseEarly,
     EndUnwritten, RaiseInHandler,
     ConsumeUnseen, ReleaseFails, Crash

\* What was lost up to now stays recorded through a worker's step.
LEMMA LostKept ==
  ASSUME Base, NEW w \in Worker, Work(w) \/ Mishap(w), NEW d \in Deal
  PROVE  /\ lost[d].fields >= crm[d].fields => lost'[d].fields >= crm'[d].fields
         /\ lost[d].lines >= crm[d].lines => lost'[d].lines >= crm'[d].lines
  BY WorkerLoses, LoseKeeps

-----------------------------------------------------------------------------
(* A message to do stays one, or what it is about is taken over            *)

\* The other messages keep their place and their worker.
LEMMA OtherMessages ==
  ASSUME Base, NEW w \in Worker, Work(w) \/ Mishap(w),
         NEW i \in DOMAIN msgs, i # job[w].msg, ToDo(i)
  PROVE  ToDo(i)'
<1>1. Hands(w) /\ \A v \in Worker : v # w => pc'[v] = pc[v] /\ job'[v] = job[v]
  BY WorkerHands, WorkerGoes DEF Base
<1>2. Data /\ job[w].msg \in DOMAIN msgs
  BY <1>1 DEF Base, HoldInv, WorkInv, Knows, Hands
<1>3. msgs'[i] = msgs[i]
  <2>1. CASE msgs' = msgs
    BY <2>1
  <2>2. CASE msgs' = Failed(job[w].msg)
    BY <1>2, <2>2 DEF Failed
  <2>3. CASE msgs' = Acked(job[w].msg)
    BY <1>2, <2>3 DEF Acked
  <2> QED BY <1>1, <2>1, <2>2, <2>3 DEF Hands
<1> QED BY <1>1, <1>3 DEF ToDo, Waiting, Retrying

\* A step of w, where line items stay with their deals.
Acts(w) ==
  /\ Base /\ "move" \notin Faults
  /\ [Next]_vars /\ (Work(w) \/ Mishap(w))

\* What a worker at work has in hand.
LEMMA InHand ==
  ASSUME Base, NEW w \in Worker, pc[w] # "idle"
  PROVE  /\ job[w] \in Job /\ job \in [Worker -> Job]
         /\ pc \in [Worker -> {"idle"} \cup EarlyPC \cup HoldPC]
         /\ job[w].msg \in DOMAIN msgs
         /\ pc[w] \in KeyedPC => job[w].key \in Deal /\ job[w].key = DealOf(job[w].msg)
         /\ pc[w] \in PassPC \ {"loading"} => job[w].deal = job[w].key
<1>1. WorkInv /\ Knows(w) /\ KeyInv
  BY DEF Base, HoldInv, WorkInv
<1>2. pc[w] \in PassPC \ {"loading"} => job[w].deal # None
  BY <1>1, BoundAssumption DEF Knows
<1> QED BY <1>1, <1>2 DEF WorkInv, Knows, KeyInv

\* A failed message is visible again, or it was its last receive.
LEMMA FailedAgain ==
  ASSUME Base, NEW i \in DOMAIN msgs, msgs' = Failed(i), ~IsLast(i)
  PROVE  ToDo(i)'
<1>1. msgs[i] \in Letter /\ msgs[i].receives <= MaxReceives /\ MaxReceives \in Nat
  BY LetterType, BoundAssumption DEF Base, HoldInv, MessageInv
<1>2. msgs[i].receives \in Nat
  BY <1>1 DEF Letter
<1>3. msgs[i].receives < MaxReceives
  BY <1>1, <1>2 DEF IsLast
<1>4. msgs' = [msgs EXCEPT ![i].at = "queued"]
  BY <1>3 DEF Failed
<1>5. msgs'[i].at = "queued"
  BY <1>1, <1>4 DEF Letter
<1> QED BY <1>5 DEF ToDo, Waiting

\* What message i is about, of deal d, is in somebody's hands after the step.
Settles(i, d) == LinesWake(d)' /\ (IsDeal(i) => FieldsWake(d)')

\* A message that is still to do carries the deal it is about.
LEMMA ToDoSettles ==
  ASSUME NEW w \in Worker, Acts(w), NEW i \in DOMAIN msgs,
         NEW d, d = DealOf(i), ToDo(i)'
  PROVE  Settles(i, d)
<1>1. /\ i \in DOMAIN msgs' /\ About(i)' = About(i)
      /\ DealOf(i)' = DealOf(i) /\ IsDeal(i)' = IsDeal(i)
  BY DealsStay DEF Acts, Base
<1>2. IsDeal(i) => About(i) = DealOf(i)
  BY DEF DealOf
<1> QED BY <1>1, <1>2 DEF Settles, LinesWake, FieldsWake

\* The wake-ups of the deals in fs and ls are accounted for once lost.
LEMMA LostSettles ==
  ASSUME Base, NEW fs, NEW ls, Lose(fs, ls), crm' = crm, NEW d \in Deal
  PROVE  (d \in fs => FieldsWake(d)') /\ (d \in ls => LinesWake(d)')
  BY LoseKeeps DEF FieldsWake, LinesWake

\* A message that fails is to do again, or was received for the last time,
\* and its wake-up is recorded as lost.
LEMMA FailedSettles ==
  ASSUME NEW w \in Worker, Acts(w), NEW i \in DOMAIN msgs,
         NEW d, d = DealOf(i), msgs' = Failed(i),
         NEW fs, NEW ls, LastFields(i) \subseteq fs, LastLines(i) \subseteq ls, Lose(fs, ls)
  PROVE  Settles(i, d)
<1>0. crm' = crm /\ Base
  BY WorkerLoses DEF Acts
<1>1. d \in Deal
  <2>1. msgs[i] \in Letter
    BY <1>0, LetterType DEF Base, HoldInv
  <2> QED BY <1>0, <2>1 DEF DealOf, IsDeal, About, Letter, Base, HoldInv, Data
<1>2. CASE ~IsLast(i)
  BY <1>0, <1>2, FailedAgain, ToDoSettles
<1>3. CASE IsLast(i)
  <2>1. (IsDeal(i) => d \in fs) /\ d \in ls
    BY <1>3 DEF LastFields, LastLines
  <2> QED BY <1>0, <1>1, <2>1, LostSettles DEF Settles
<1> QED BY <1>2, <1>3

\* Only who has not acquired yet, or has raised, leaves its message to do.
LEMMA OwnToDo ==
  ASSUME Base, NEW w \in Worker, pc[w] # "idle", ToDo(job[w].msg)
  PROVE  pc[w] \in EarlyPC \/ (pc[w] = "releasing" /\ job[w].raised)
<1>1. msgs[job[w].msg].at # "queued"
  BY DEF Base, MessageInv
<1>2. \A v \in Worker : pc[v] # "idle" /\ job[v].msg = job[w].msg => v = w
  BY DEF Base, MessageInv
<1> QED BY <1>1, <1>2 DEF ToDo, Waiting, Retrying, EarlyPC

\* w begins a pass on d.
Loads(w, d, full) == pc'[w] = "loading" /\ job'[w].key = d /\ job'[w].full = full

\* What becomes of the message that w has in hand and that is to do.
LEMMA OwnMessage ==
  ASSUME NEW w \in Worker, Acts(w), NEW i \in DOMAIN msgs,
         NEW d, d = DealOf(i), i = job[w].msg, ToDo(i)
  PROVE  Settles(i, d) \/ IF IsDeal(i) THEN Loads(w, d, TRUE) ELSE Loads(w, d, FALSE)
<1>0. /\ pc[w] # "idle" /\ Base /\ crm' = crm
      /\ job[w] \in Job /\ job \in [Worker -> Job]
      /\ pc \in [Worker -> {"idle"} \cup EarlyPC \cup HoldPC]
      /\ pc[w] \in KeyedPC => job[w].key \in Deal /\ job[w].key = DealOf(i)
  BY WorkerHands, WorkerLoses, InHand DEF Acts, Base, Hands
<1>1. pc[w] \in EarlyPC \/ (pc[w] = "releasing" /\ job[w].raised)
  BY <1>0, OwnToDo
<1>2. CASE ResolveKey(w) \/ AcquireUnseen(w) \/ PutRejected(w)
  <2>1. pc'[w] \in EarlyPC /\ job'[w].msg = i
    BY <1>0, <1>2 DEF ResolveKey, AcquireUnseen, PutRejected, Go, EarlyPC, Job
  <2> QED BY <2>1, ToDoSettles DEF ToDo, Waiting
<1>3. CASE Acquire(w)
  <2>1. pc[w] = "acquiring" /\ pc'[w] = "loading"
    BY <1>0, <1>3 DEF Acquire, Go
  <2>2. job'[w].key = job[w].key /\ (job'[w].full <=> IsDeal(i)) /\ job'[w].full \in BOOLEAN
    BY <1>0, <1>3 DEF Acquire, Job, IsDeal
  <2> QED BY <1>0, <2>1, <2>2 DEF Loads, KeyedPC
<1>4. CASE AcquireRaises(w)
  <2> DEFINE fs == Overwrites(w) \cup LastFields(i)
             ls == Overwrites(w) \cup LastLines(i)
  <2>1. Lose(fs, ls) /\ msgs' = Failed(i)
    BY <1>4 DEF AcquireRaises
  <2>2. LastFields(i) \subseteq fs /\ LastLines(i) \subseteq ls
    OBVIOUS
  <2> HIDE DEF fs, ls
  <2> QED BY <2>1, <2>2, FailedSettles
<1>5. CASE RaiseEarly(w)
  BY <1>5, FailedSettles DEF RaiseEarly
<1>6. CASE Crash(w)
  <2> DEFINE fs == FollowUpLost(w) \cup LastFields(i)
             ls == FollowUpLost(w) \cup LastLines(i)
  <2>1. Lose(fs, ls) /\ msgs' = Failed(i)
    BY <1>6 DEF Crash
  <2>2. LastFields(i) \subseteq fs /\ LastLines(i) \subseteq ls
    OBVIOUS
  <2> HIDE DEF fs, ls
  <2> QED BY <2>1, <2>2, FailedSettles
<1>7. CASE Release(w) \/ ReleaseFails(w)
  <2>1. job[w].raised /\ msgs' = Failed(i)
    BY <1>1, <1>7 DEF Release, ReleaseFails, Return, EarlyPC
  <2>2. CASE Release(w)
    <3> DEFINE gone == IF /\ Consumable(table[job[w].key], job[w].token)
                          /\ ~(job[w].raised /\ RetryCovers(w))
                       THEN {job[w].key} ELSE {}
               fs == gone \cup LastFields(i)
               ls == gone \cup LastLines(i)
    <3>1. Lose(fs, ls) /\ msgs' = Failed(i)
      BY <2>1, <2>2 DEF Release
    <3>2. LastFields(i) \subseteq fs /\ LastLines(i) \subseteq ls
      OBVIOUS
    <3> HIDE DEF gone, fs, ls
    <3> QED BY <3>1, <3>2, FailedSettles
  <2>3. CASE ReleaseFails(w)
    BY <2>1, <2>3, FailedSettles DEF ReleaseFails
  <2> QED BY <1>7, <2>2, <2>3
<1>8. CASE MarkPending(w)
  <2> DEFINE missing == IF table[d] = None THEN {d} ELSE {}
  <2>1. /\ job[w].key = d /\ d \in Deal
        /\ table' = [table EXCEPT ![d] = Marked(@)] /\ Lose(missing, missing)
    BY <1>0, <1>8 DEF MarkPending, KeyedPC
  <2>2. CASE table[d] = None
    BY <1>0, <2>1, <2>2, LostSettles DEF Settles
  <2>3. CASE table[d] # None
    <3>1. table \in [Deal -> Row \cup {None}] /\ table[d] \in Row
      BY <1>0, <2>1, <2>3 DEF Base, HoldInv, Data
    <3>2. table'[d] = [table[d] EXCEPT !.pending = TRUE] /\ table'[d] \in Row
      BY <2>1, <2>3, <3>1 DEF Marked, Row
    <3>3. table'[d].pending /\ table'[d] # None
      BY <3>1, <3>2, NoneAssumption DEF Row
    <3> QED BY <3>3 DEF Settles, FieldsWake, LinesWake, FollowUpDue
  <2> QED BY <2>2, <2>3
<1>9. CASE NoParent(w)
  <2>1. ~IsDeal(i) /\ Lose({}, {d})
    BY <1>9 DEF NoParent
  <2>2. d \in Deal
    <3>1. msgs[i] \in Letter
      BY <1>0, LetterType DEF Base, HoldInv
    <3> QED BY <1>0, <3>1 DEF DealOf, IsDeal, About, Letter, Base, HoldInv, Data
  <2> QED BY <1>0, <2>1, <2>2, LostSettles DEF Settles
<1>10. ~(Load(w) \/ FindAndGo(w) \/ FindAndSkip(w) \/ Fetch(w) \/ Write(w)
         \/ EndUnwritten(w) \/ ConsumePending(w) \/ DrainDone(w) \/ ConsumeUnseen(w)
         \/ RaiseInHandler(w))
  BY <1>1 DEF Load, FindAndGo, FindAndSkip, Fetch, Write, EndUnwritten, MayEndUnwritten,
     ConsumePending, DrainDone, ConsumeUnseen, RaiseInHandler, Consume, Go, EarlyPC, PassPC
<1> QED BY <1>2, <1>3, <1>4, <1>5, <1>6, <1>7, <1>8, <1>9, <1>10 DEF Acts, Work, Mishap

\* A put over the row erases its flag: a deal event reads all anew, and what a
\* line-item event does not read is recorded as lost.
LEMMA PutErases ==
  ASSUME NEW w \in Worker, Acts(w), NEW d \in Deal, d = job[w].key, FollowUpDue(d),
         Acquire(w) \/ AcquireUnseen(w) \/ AcquireRaises(w)
  PROVE  Loads(w, d, TRUE) \/ (FieldsWake(d)' /\ LinesWake(d)')
<1> DEFINE i == job[w].msg
<1>0. /\ Base /\ crm' = crm /\ pc[w] = "acquiring"
      /\ job[w] \in Job /\ job \in [Worker -> Job]
      /\ pc \in [Worker -> {"idle"} \cup EarlyPC \cup HoldPC]
      /\ i \in DOMAIN msgs /\ d = DealOf(i)
  <2>1. pc[w] = "acquiring" /\ Base /\ crm' = crm
    BY WorkerLoses DEF Acts, Acquire, AcquireUnseen, AcquireRaises, Put
  <2> QED BY <2>1, InHand DEF KeyedPC
<1>1. CASE ~IsDeal(i)
  <2>1. d \in Overwrites(w)
    BY <1>1 DEF Overwrites, FollowUpDue
  <2>2. \E fs, ls : Lose(fs, ls) /\ d \in fs /\ d \in ls
    <3>1. CASE Acquire(w) \/ AcquireUnseen(w)
      BY <2>1, <3>1 DEF Acquire, AcquireUnseen
    <3>2. CASE AcquireRaises(w)
      <4> DEFINE fs == Overwrites(w) \cup LastFields(i)
                 ls == Overwrites(w) \cup LastLines(i)
      <4>1. Lose(fs, ls)
        BY <3>2 DEF AcquireRaises
      <4>2. d \in fs /\ d \in ls
        BY <2>1
      <4> QED BY <4>1, <4>2
    <3> QED BY <3>1, <3>2
  <2> QED BY <1>0, <2>2, LostSettles
<1>2. CASE IsDeal(i)
  <2>1. CASE Acquire(w)
    <3>1. pc'[w] = "loading" /\ job'[w].key = d /\ job'[w].full = TRUE
      BY <1>0, <1>2, <2>1 DEF Acquire, Go, Job
    <3> QED BY <3>1 DEF Loads
  <2>2. PICK k : k = i
    OBVIOUS
  <2>3. CASE AcquireUnseen(w)
    <3>1. pc'[w] = "marking" /\ job' = job
      BY <1>0, <2>3 DEF AcquireUnseen, Go
    <3>2. ToDo(k)'
      BY <2>2, <3>1 DEF ToDo, Waiting, EarlyPC
    <3> QED BY <1>0, <1>2, <2>2, <3>2, ToDoSettles DEF Settles
  <2>4. CASE AcquireRaises(w)
    <3> DEFINE fs == Overwrites(w) \cup LastFields(k)
               ls == Overwrites(w) \cup LastLines(k)
    <3>1. Lose(fs, ls) /\ msgs' = Failed(k)
      BY <2>2, <2>4 DEF AcquireRaises
    <3>2. LastFields(k) \subseteq fs /\ LastLines(k) \subseteq ls
      OBVIOUS
    <3> HIDE DEF fs, ls
    <3> QED BY <1>0, <1>2, <2>2, <3>1, <3>2, FailedSettles DEF Settles
  <2> QED BY <2>1, <2>3, <2>4
<1> QED BY <1>1, <1>2

\* A flag is consumed for a follow-up, or with the holder's retry or the loss
\* recorded.
LEMMA ConsumeErases ==
  ASSUME NEW w \in Worker, Acts(w), NEW d \in Deal, d = job[w].key,
         ConsumePending(w) \/ ConsumeUnseen(w)
  PROVE  Loads(w, d, TRUE) \/ (FieldsWake(d)' /\ LinesWake(d)')
<1>0. /\ Base /\ crm' = crm /\ pc[w] = "draining"
      /\ job[w] \in Job /\ job \in [Worker -> Job]
      /\ pc \in [Worker -> {"idle"} \cup EarlyPC \cup HoldPC]
      /\ job[w].msg \in DOMAIN msgs /\ d = DealOf(job[w].msg)
  <2>1. pc[w] = "draining" /\ Base /\ crm' = crm
    BY WorkerLoses DEF Acts, ConsumePending, ConsumeUnseen, Consume
  <2> QED BY <2>1, InHand DEF KeyedPC, HoldPC
<1>1. CASE ConsumePending(w)
  <2>1. pc'[w] = "loading" /\ job'[w].key = d /\ job'[w].full = TRUE
    BY <1>0, <1>1 DEF ConsumePending, Go, Job
  <2> QED BY <2>1 DEF Loads
<1>2. CASE ConsumeUnseen(w)
  <2>1. PICK raised \in BOOLEAN :
          /\ job' = [job EXCEPT ![w].raised = raised]
          /\ LET gone == IF raised /\ RetryCovers(w) THEN {} ELSE {job[w].key}
             IN  Lose(gone, gone)
    BY <1>2 DEF ConsumeUnseen
  <2>2. CASE raised /\ RetryCovers(w)
    <3>1. PICK k : k = job[w].msg
      OBVIOUS
    <3>2. /\ pc'[w] = "releasing" /\ job'[w].msg = k /\ job'[w].raised
      BY <1>0, <1>2, <2>1, <2>2, <3>1 DEF ConsumeUnseen, Go, Job
    <3>3. ToDo(k)'
      BY <3>2 DEF ToDo, Retrying
    <3>4. IsDeal(k)
      BY <2>2, <3>1 DEF RetryCovers
    <3> QED BY <1>0, <3>1, <3>3, <3>4, ToDoSettles DEF Settles
  <2>3. CASE ~(raised /\ RetryCovers(w))
    <3>1. Lose({d}, {d})
      BY <2>1, <2>3
    <3> QED BY <1>0, <3>1, LostSettles
  <2> QED BY <2>2, <2>3
<1> QED BY <1>1, <1>2

\* A flag that goes with its row is covered by the holder's retry, or lost.
LEMMA ReleaseErases ==
  ASSUME NEW w \in Worker, Acts(w), NEW d \in Deal, d = job[w].key, FollowUpDue(d),
         Release(w)
  PROVE  FieldsWake(d)' /\ LinesWake(d)'
<1>0. /\ Base /\ crm' = crm /\ pc[w] = "releasing"
      /\ job[w].msg \in DOMAIN msgs /\ d = DealOf(job[w].msg)
  <2>1. pc[w] = "releasing" /\ Base /\ crm' = crm
    BY WorkerLoses DEF Acts, Release, Return
  <2> QED BY <2>1, InHand DEF KeyedPC, HoldPC
<1>1. Consumable(table[d], job[w].token)
  BY <1>0 DEF Base, HoldInv, HolderOwnsRow, InCS, HoldPC, Consumable, FollowUpDue
<1>2. PICK k : k = job[w].msg
  OBVIOUS
<1>3. CASE job[w].raised /\ RetryCovers(w)
  <2>1. IsDeal(k) /\ ~IsLast(k) /\ msgs' = Failed(k)
    BY <1>2, <1>3 DEF RetryCovers, Release, Return
  <2> QED BY <1>0, <1>2, <2>1, FailedAgain, ToDoSettles DEF Settles
<1>4. CASE ~(job[w].raised /\ RetryCovers(w))
  <2> DEFINE fs == {d} \cup IF job[w].raised THEN LastFields(k) ELSE {}
             ls == {d} \cup IF job[w].raised THEN LastLines(k) ELSE {}
  <2>1. Lose(fs, ls)
    BY <1>1, <1>2, <1>4 DEF Release
  <2>2. d \in fs /\ d \in ls
    OBVIOUS
  <2> HIDE DEF fs, ls
  <2> QED BY <1>0, <2>1, <2>2, LostSettles
<1> QED BY <1>3, <1>4

\* A pending_resync stays, or becomes a full pass, a retry or a loss.
LEMMA FollowUpKept ==
  ASSUME NEW w \in Worker, Acts(w), NEW d \in Deal, FollowUpDue(d)
  PROVE  Loads(w, d, TRUE) \/ (FieldsWake(d)' /\ LinesWake(d)')
<1>0. table \in [Deal -> Row \cup {None}] /\ table[d] \in Row
  BY DEF Acts, Base, HoldInv, Data, FollowUpDue
<1>1. CASE table'[d] = table[d]
  BY <1>1 DEF FollowUpDue, FieldsWake, LinesWake
<1>2. CASE Acquire(w) \/ AcquireUnseen(w) \/ AcquireRaises(w)
  <2>1. d # job[w].key => table'[d] = table[d]
    BY <1>0, <1>2 DEF Acquire, AcquireUnseen, AcquireRaises, Put
  <2> QED BY <1>1, <1>2, <2>1, PutErases
<1>3. CASE ConsumePending(w) \/ ConsumeUnseen(w)
  <2>1. d # job[w].key => table'[d] = table[d]
    BY <1>0, <1>3 DEF ConsumePending, ConsumeUnseen, Consume
  <2> QED BY <1>1, <1>3, <2>1, ConsumeErases
<1>4. CASE Release(w)
  <2>1. d # job[w].key => table'[d] = table[d]
    BY <1>0, <1>4 DEF Release
  <2> QED BY <1>1, <1>4, <2>1, ReleaseErases
<1>5. CASE MarkPending(w)
  <2>1. table'[d] = table[d] \/ table'[d] = [table[d] EXCEPT !.pending = TRUE]
    BY <1>0, <1>5, NoneAssumption DEF MarkPending, Marked
  <2>2. [table[d] EXCEPT !.pending = TRUE] \in Row /\ [table[d] EXCEPT !.pending = TRUE].pending
    BY <1>0 DEF Row
  <2>3. FollowUpDue(d)'
    BY <1>0, <2>1, <2>2, NoneAssumption DEF FollowUpDue
  <2> QED BY <2>3 DEF FieldsWake, LinesWake
<1>6. table' = table \/ Acquire(w) \/ AcquireUnseen(w) \/ AcquireRaises(w) \/ ConsumePending(w)
      \/ ConsumeUnseen(w) \/ Release(w) \/ MarkPending(w)
  BY DEF Acts, Work, Mishap, ResolveKey, PutRejected, Load, FindAndGo, FindAndSkip, Fetch,
     Write, DrainDone, NoParent, RaiseEarly,
     EndUnwritten, RaiseInHandler, ReleaseFails, Crash
<1> QED BY <1>1, <1>2, <1>3, <1>4, <1>5, <1>6

\* A wake-up for the fields of d stays one, or a full pass on d begins.
LEMMA FieldsKept ==
  ASSUME NEW w \in Worker, Acts(w), NEW d \in Deal, FieldsWake(d)
  PROVE  FieldsWake(d)' \/ Loads(w, d, TRUE)
<1>0. Base /\ crm' = crm
  BY WorkerLoses DEF Acts
<1>1. CASE FollowUpDue(d)
  BY <1>1, FollowUpKept
<1>2. CASE lost[d].fields >= crm[d].fields
  BY <1>0, <1>2, LostKept DEF FieldsWake, Acts
<1>3. ASSUME NEW i \in DOMAIN msgs, About(i) = d, ToDo(i)
      PROVE  FieldsWake(d)' \/ Loads(w, d, TRUE)
  <2>1. IsDeal(i) /\ DealOf(i) = d
    BY <1>3 DEF IsDeal, DealOf
  <2>2. CASE i = job[w].msg
    BY <1>3, <2>1, <2>2, OwnMessage DEF Settles
  <2>3. CASE i # job[w].msg
    BY <1>0, <1>3, <2>1, <2>3, OtherMessages, ToDoSettles DEF Settles, Acts
  <2> QED BY <2>2, <2>3
<1> QED BY <1>1, <1>2, <1>3 DEF FieldsWake

\* A wake-up for the lines of d stays one, or a pass on d begins.
LEMMA LinesKept ==
  ASSUME NEW w \in Worker, Acts(w), NEW d \in Deal, LinesWake(d)
  PROVE  LinesWake(d)' \/ Loads(w, d, TRUE) \/ Loads(w, d, FALSE)
<1>0. Base /\ crm' = crm
  BY WorkerLoses DEF Acts
<1>1. CASE FollowUpDue(d)
  BY <1>1, FollowUpKept
<1>2. CASE lost[d].lines >= crm[d].lines
  BY <1>0, <1>2, LostKept DEF LinesWake, Acts
<1>3. ASSUME NEW i \in DOMAIN msgs, DealOf(i) = d, ToDo(i)
      PROVE  LinesWake(d)' \/ Loads(w, d, TRUE) \/ Loads(w, d, FALSE)
  <2>2. CASE i = job[w].msg
    BY <1>3, <2>2, OwnMessage DEF Settles
  <2>3. CASE i # job[w].msg
    BY <1>0, <1>3, <2>3, OtherMessages, ToDoSettles DEF Settles, Acts
  <2> QED BY <2>2, <2>3
<1> QED BY <1>1, <1>2, <1>3 DEF LinesWake

-----------------------------------------------------------------------------
(* A pass goes on, writes, or leaves somebody to come back                 *)

\* Who is in a pass works on the deal of its message, which is its key.
LEMMA PassFacts ==
  ASSUME NEW w \in Worker, Acts(w), pc[w] \in PassPC
  PROVE  /\ Base /\ crm' = crm
         /\ job[w] \in Job /\ job \in [Worker -> Job]
         /\ pc \in [Worker -> {"idle"} \cup EarlyPC \cup HoldPC]
         /\ job[w].msg \in DOMAIN msgs
         /\ job[w].key \in Deal /\ job[w].key = DealOf(job[w].msg)
         /\ pc[w] # "loading" => job[w].deal = job[w].key
  BY WorkerLoses, InHand DEF Acts, PassPC, KeyedPC, HoldPC

\* A pass that stops leaves its message to be received again.  A line item's
\* does not cover the follow-up it stopped in, which is recorded as lost.
LEMMA PassStops ==
  ASSUME NEW w \in Worker, Acts(w), pc[w] \in PassPC, NEW d \in Deal, d = job[w].key,
         RaiseInHandler(w) \/ Crash(w)
  PROVE  LinesWake(d)' /\ (job[w].full => FieldsWake(d)')
<1>0. /\ Base /\ crm' = crm
      /\ job[w] \in Job /\ job \in [Worker -> Job]
      /\ pc \in [Worker -> {"idle"} \cup EarlyPC \cup HoldPC]
      /\ job[w].msg \in DOMAIN msgs /\ d = DealOf(job[w].msg)
  BY PassFacts
<1>1. PICK k : k = job[w].msg
  OBVIOUS
<1>2. CASE job[w].full /\ ~IsDeal(k)
  <2>1. d \in FollowUpLost(w)
    BY <1>1, <1>2 DEF FollowUpLost
  <2>2. CASE RaiseInHandler(w)
    BY <1>0, <2>1, <2>2, LostSettles DEF RaiseInHandler
  <2>3. CASE Crash(w)
    <3> DEFINE fs == FollowUpLost(w) \cup LastFields(k)
               ls == FollowUpLost(w) \cup LastLines(k)
    <3>1. Lose(fs, ls) /\ d \in fs /\ d \in ls
      BY <1>1, <2>1, <2>3 DEF Crash
    <3> HIDE DEF fs, ls
    <3> QED BY <1>0, <3>1, LostSettles
  <2> QED BY <2>2, <2>3
<1>3. CASE ~(job[w].full /\ ~IsDeal(k))
  <2>1. Settles(k, d)
    <3>1. CASE RaiseInHandler(w)
      <4> DEFINE j == [job[w] EXCEPT !.raised = TRUE, !.full = FALSE, !.deal = None,
                                     !.seen = Never, !.stage = "off"]
      <4>1. j.msg = k /\ j.raised
        BY <1>0, <1>1 DEF Job
      <4>2. pc'[w] = "releasing" /\ job'[w] = j
        BY <1>0, <3>1 DEF RaiseInHandler
      <4>3. ToDo(k)'
        BY <4>1, <4>2 DEF ToDo, Retrying
      <4> QED BY <1>0, <1>1, <4>3, ToDoSettles
    <3>2. CASE Crash(w)
      <4> DEFINE fs == FollowUpLost(w) \cup LastFields(k)
                 ls == FollowUpLost(w) \cup LastLines(k)
      <4>1. Lose(fs, ls) /\ msgs' = Failed(k)
        BY <1>1, <3>2 DEF Crash
      <4>2. LastFields(k) \subseteq fs /\ LastLines(k) \subseteq ls
        OBVIOUS
      <4> HIDE DEF fs, ls
      <4> QED BY <1>0, <1>1, <4>1, <4>2, FailedSettles
    <3> QED BY <3>1, <3>2
  <2> QED BY <1>3, <2>1 DEF Settles
<1> QED BY <1>2, <1>3

\* What a worker in a pass does next.
LEMMA PassActs ==
  ASSUME NEW w \in Worker, Acts(w), pc[w] \in PassPC
  PROVE  \/ Load(w) /\ pc[w] = "loading"
         \/ (FindAndGo(w) \/ FindAndSkip(w)) /\ pc[w] = "finding"
         \/ Fetch(w) /\ pc[w] = "fetching"
         \/ Write(w) /\ pc[w] = "writing"
         \/ EndUnwritten(w) \/ RaiseInHandler(w) \/ Crash(w)
  BY DEF Acts, Work, Mishap, PassPC, EarlyPC, Go, ResolveKey, Acquire, PutRejected,
     MarkPending, Load, FindAndGo, FindAndSkip, Fetch, Write, ConsumePending, Consume,
     DrainDone, Release, Return, NoParent, AcquireUnseen, AcquireRaises, Put, RaiseEarly,
     ConsumeUnseen, ReleaseFails

\* A skip: there is nothing to write by what the pass has read, or it is lost.
LEMMA SkipSettles ==
  ASSUME NEW w \in Worker, Acts(w), NEW d \in Deal, d = job[w].key,
         FindAndSkip(w)
  PROVE  \/ (job[w].full => FieldsWake(d)') /\ LinesWake(d)'
         \/ job[w].full /\ job[w].stage # "create" /\ (job[w].stage = "update" => invoice[d] = None)
         \/ ~job[w].full /\ invoice[d] = None
<1>0. pc[w] = "finding"
  BY DEF FindAndSkip, Go
<1>1. /\ Base /\ crm' = crm /\ job[w].deal = d /\ job[w] \in Job
  BY <1>0, PassFacts DEF PassPC
<1> DEFINE missed == Passes(w, invoice[d] # None)
<1>2. CASE missed
  <2> DEFINE fs == IF missed /\ job[w].full THEN {d} ELSE {}
             ls == IF missed THEN {d} ELSE {}
  <2>1. Lose(fs, ls)
    BY <1>1 DEF FindAndSkip
  <2>2. (job[w].full => d \in fs) /\ d \in ls
    BY <1>2
  <2> HIDE DEF fs, ls
  <2> QED BY <1>1, <2>1, <2>2, LostSettles
<1>3. CASE ~missed
  BY <1>3 DEF Passes
<1> QED BY <1>2, <1>3

\* A pass that returns unwritten: what it read as it is now is recorded as
\* lost, and what was edited since its reads has a wake-up of its own.
LEMMA UnwrittenSettles ==
  ASSUME NEW w \in Worker, Acts(w), PassKnows(w), NEW d \in Deal, d = job[w].key,
         EndUnwritten(w)
  PROVE  (job[w].full => FieldsWake(d)') /\ LinesWake(d)'
<1> DEFINE e      == IF pc[w] = "loading" THEN DealOf(job[w].msg) ELSE job[w].deal
           fields == job[w].full /\ job[w].seen.fields = crm[e].fields
           lines  == pc[w] = "writing" => job[w].seen.lines = crm[e].lines
           fs     == IF fields THEN {e} ELSE {}
           ls     == IF lines THEN {e} ELSE {}
<1>1. pc[w] \in PassPC /\ (job[w].full => pc[w] # "loading")
  BY DEF EndUnwritten, MayEndUnwritten, PassPC
<1>2. /\ Base /\ crm' = crm /\ e = d
      /\ pc \in [Worker -> {"idle"} \cup EarlyPC \cup HoldPC]
  BY <1>1, PassFacts
<1>3. Lose(fs, ls) /\ pc'[w] = "draining"
  BY <1>2 DEF EndUnwritten
<1>4. /\ job[w].full => d \in fs \/ FieldsWake(d)
      /\ d \in ls \/ LinesWake(d)
  BY <1>1, <1>2 DEF PassKnows
<1> HIDE DEF e, fields, lines, fs, ls
<1>5. /\ FieldsWake(d) => FieldsWake(d)'
      /\ LinesWake(d) => LinesWake(d)'
  BY <1>3, FieldsKept, LinesKept DEF Loads
<1> QED BY <1>2, <1>3, <1>4, <1>5, LostSettles

\* What the write of a pass leaves owed.
LEMMA WriteSettles ==
  ASSUME NEW w \in Worker, Acts(w), NEW d \in Deal, d = job[w].key, Write(w)
  PROVE  /\ job[w].full /\ job[w].seen.fields = crm[d].fields => ~FieldsOwed(d)'
         /\ ~job[w].full /\ FieldsOwed(d)' => FieldsOwed(d)
         /\ job[w].seen.lines = crm[d].lines => ~LinesOwed(d)'
<1>0. pc[w] = "writing"
  BY DEF Write, Go
<1>1. /\ Base /\ crm' = crm /\ job[w].deal = d /\ job[w] \in Job
  BY <1>0, PassFacts DEF PassPC
<1>2. crm[d].fields \in Nat /\ crm[d].lines \in Nat
  BY <1>1, ShownTypes DEF Base
<1>3. invoice \in [Deal -> [fields : Nat, lines : Nat] \cup {None}]
  BY <1>1 DEF Base, VersionInv
<1>4. ~job[w].full => invoice[d] # None /\ invoice[d] \in [fields : Nat, lines : Nat]
  BY <1>0, <1>1, <1>3 DEF Base, BoundInv
<1>5. invoice'[d] = IF job[w].full THEN job[w].seen
                    ELSE [invoice[d] EXCEPT !.lines = job[w].seen.lines]
  BY <1>1, <1>3 DEF Write
<1>6. /\ job[w].full => invoice'[d].fields = job[w].seen.fields
      /\ invoice'[d].lines = job[w].seen.lines
      /\ ~job[w].full => invoice'[d].fields = invoice[d].fields
  BY <1>1, <1>4, <1>5 DEF Job
<1>7. invoice'[d] # None
  <2>1. job[w].seen \in [fields : Nat, lines : Nat]
    BY <1>1 DEF Job
  <2>2. invoice'[d] \in [fields : Nat, lines : Nat]
    BY <1>4, <1>5, <2>1
  <2> QED BY <2>2, BoundAssumption
<1> QED BY <1>1, <1>2, <1>4, <1>6, <1>7 DEF FieldsOwed, LinesOwed, FieldsOld, LinesOld, Wanted

\* A pass that reads the fields of d as they are goes on with them, hands them
\* over, or finds or leaves nothing owed.
LEMMA FieldsPassKept ==
  ASSUME NEW w \in Worker, Acts(w), PassKnows(w), NEW d \in Deal, FieldsPass(w, d)
  PROVE  FieldsPass(w, d)' \/ FieldsWake(d)' \/ ~FieldsOwed(d)'
<1>0. pc[w] \in PassPC /\ d = job[w].key /\ job[w].full
  BY DEF FieldsPass, PassPC
<1>1. /\ Base /\ crm' = crm
      /\ job[w] \in Job /\ job \in [Worker -> Job]
      /\ pc \in [Worker -> {"idle"} \cup EarlyPC \cup HoldPC]
      /\ pc[w] # "loading" => job[w].deal = d
  BY <1>0, PassFacts
<1>2. CASE Load(w)
  <2>1. /\ pc'[w] = "finding" /\ job'[w].key = d /\ job'[w].full
        /\ job'[w].seen.fields = crm[d].fields
    BY <1>0, <1>1, <1>2 DEF Load, Go, Job
  <2> QED BY <1>1, <2>1 DEF FieldsPass, PassPC
<1>3. CASE FindAndGo(w) \/ Fetch(w)
  <2>1. /\ pc[w] # "loading" /\ pc'[w] \in {"fetching", "writing"}
        /\ job'[w].key = d /\ job'[w].full /\ job'[w].seen.fields = job[w].seen.fields
    BY <1>0, <1>1, <1>3 DEF FindAndGo, Fetch, Go, Job
  <2> QED BY <1>1, <2>1 DEF FieldsPass, PassPC
<1>4. CASE FindAndSkip(w)
  <2>1. /\ FieldsWake(d)' \/ (job[w].stage # "create" /\ (job[w].stage = "update" => invoice[d] = None))
        /\ pc[w] = "finding" /\ pc'[w] = "draining" /\ invoice' = invoice
    BY <1>0, <1>1, <1>4, SkipSettles DEF FindAndSkip, Go
  <2>2. job[w].stage = crm[d].stage \/ FieldsWake(d)
    BY <1>0, <2>1 DEF PassKnows
  <2>3. FieldsWake(d) => FieldsWake(d)'
    BY <2>1, FieldsKept DEF Loads
  <2> QED BY <1>1, <2>1, <2>2, <2>3 DEF FieldsOwed, Wanted
<1>5. CASE Write(w)
  <2>1. job[w].seen.fields = crm[d].fields
    BY <1>5 DEF FieldsPass, Write, Go
  <2> QED BY <1>0, <1>5, <2>1, WriteSettles
<1>6. CASE RaiseInHandler(w) \/ Crash(w)
  BY <1>0, <1>6, PassStops
<1>7. CASE EndUnwritten(w)
  BY <1>0, <1>7, UnwrittenSettles
<1> QED BY <1>0, <1>2, <1>3, <1>4, <1>5, <1>6, <1>7, PassActs

\* The same of a pass that reads the lines of d as they are.
LEMMA LinesPassKept ==
  ASSUME NEW w \in Worker, Acts(w), PassKnows(w), NEW d \in Deal, LinesPass(w, d)
  PROVE  LinesPass(w, d)' \/ LinesWake(d)' \/ ~LinesOwed(d)'
<1>0. pc[w] \in PassPC /\ d = job[w].key
  BY DEF LinesPass, PassPC
<1>1. /\ Base /\ crm' = crm
      /\ job[w] \in Job /\ job \in [Worker -> Job]
      /\ pc \in [Worker -> {"idle"} \cup EarlyPC \cup HoldPC]
      /\ pc[w] # "loading" => job[w].deal = d
  BY <1>0, PassFacts
<1>2. CASE Load(w)
  <2>1. /\ pc'[w] = "finding" /\ job'[w].key = d
        /\ job'[w].full => job'[w].stage = crm[d].stage
    BY <1>0, <1>1, <1>2 DEF Load, Go, Job
  <2> QED BY <1>1, <2>1 DEF LinesPass
<1>3. CASE FindAndGo(w)
  <2>1. pc[w] = "finding" /\ pc'[w] = "fetching" /\ job' = job
    BY <1>1, <1>3 DEF FindAndGo, Go
  <2> QED BY <1>1, <2>1 DEF LinesPass
<1>4. CASE Fetch(w)
  <2>1. pc'[w] = "writing" /\ job'[w].key = d /\ job'[w].seen.lines = crm[d].lines
    BY <1>0, <1>1, <1>4 DEF Fetch, Go, Job
  <2> QED BY <1>1, <2>1 DEF LinesPass
<1>5. CASE FindAndSkip(w)
  <2>1. pc[w] = "finding" /\ invoice' = invoice
    BY <1>5 DEF FindAndSkip, Go
  <2>2. \/ LinesWake(d)'
        \/ job[w].full /\ job[w].stage # "create" /\ (job[w].stage = "update" => invoice[d] = None)
        \/ ~job[w].full /\ invoice[d] = None
    BY <1>0, <1>5, SkipSettles
  <2>3. job[w].full => job[w].stage \in {"create", crm[d].stage}
    BY <2>1 DEF LinesPass
  <2> QED BY <1>1, <2>1, <2>2, <2>3 DEF LinesOwed, LinesOld, Wanted
<1>6. CASE Write(w)
  <2>1. job[w].seen.lines = crm[d].lines
    BY <1>6 DEF LinesPass, Write, Go
  <2> QED BY <1>0, <1>6, <2>1, WriteSettles
<1>7. CASE RaiseInHandler(w) \/ Crash(w)
  BY <1>0, <1>7, PassStops
<1>8. CASE EndUnwritten(w)
  BY <1>0, <1>8, UnwrittenSettles
<1> QED BY <1>0, <1>2, <1>3, <1>4, <1>5, <1>6, <1>7, <1>8, PassActs

\* What w has read in its pass, it has read as it is, or somebody else will.
LEMMA StillKnows ==
  ASSUME NEW w \in Worker, Acts(w), PassKnows(w), FullPass(w)
  PROVE  PassKnows(w)' /\ FullPass(w)'
<1>0. /\ job[w] \in Job /\ job \in [Worker -> Job]
      /\ pc \in [Worker -> {"idle"} \cup EarlyPC \cup HoldPC]
      /\ pc[w] # "idle" /\ crm' = crm
  BY WorkerHands, WorkerLoses DEF Acts, Base, HoldInv, WorkInv, Hands
<1>1. CASE Load(w) \/ FindAndGo(w) \/ Fetch(w)
  <2>1. pc[w] \in PassPC
    BY <1>1 DEF Load, FindAndGo, Fetch, Go, PassPC
  <2>2. PICK d \in Deal : d = job[w].key
    BY <2>1, PassFacts
  <2>3. pc[w] # "loading" => job[w].deal = d
    BY <2>1, <2>2, PassFacts
  <2>4. job'[w].key = d /\ pc'[w] \in {"finding", "fetching", "writing"}
    BY <1>0, <1>1, <2>2 DEF Load, FindAndGo, Fetch, Go, Job
  <2>5. /\ FieldsWake(d) => FieldsWake(d)'
        /\ LinesWake(d) => LinesWake(d)'
    BY <2>4, FieldsKept, LinesKept DEF Loads
  <2>6. CASE Load(w)
    <3>1. /\ pc'[w] = "finding"
          /\ job'[w].full => job'[w].seen.fields = crm[d].fields /\ job'[w].stage = crm[d].stage
      BY <1>0, <2>2, <2>6 DEF Load, Go, Job
    <3> QED BY <1>0, <2>4, <3>1 DEF PassKnows, FullPass, PassPC
  <2>7. CASE FindAndGo(w)
    <3>1. pc'[w] = "fetching" /\ job' = job /\ pc[w] = "finding"
      BY <1>0, <2>7 DEF FindAndGo, Go
    <3> QED BY <1>0, <2>2, <2>5, <3>1 DEF PassKnows, FullPass, PassPC
  <2>8. CASE Fetch(w)
    <3>1. /\ pc'[w] = "writing" /\ pc[w] = "fetching"
          /\ job'[w].full = job[w].full /\ job'[w].seen.fields = job[w].seen.fields
          /\ job'[w].stage = job[w].stage /\ job'[w].seen.lines = crm[d].lines
      BY <1>0, <2>3, <2>8 DEF Fetch, Go, Job
    <3> QED BY <1>0, <2>2, <2>4, <2>5, <3>1 DEF PassKnows, FullPass, PassPC
  <2> QED BY <1>1, <2>6, <2>7, <2>8
<1>2. CASE Acquire(w) \/ ConsumePending(w)
  <2>1. pc'[w] = "loading"
    BY <1>0, <1>2 DEF Acquire, ConsumePending, Go
  <2> QED BY <2>1 DEF PassKnows, FullPass, PassPC
<1>3. ASSUME pc'[w] \notin PassPC, job'[w].full => job[w].full /\ pc[w] \notin PassPC
      PROVE  PassKnows(w)' /\ FullPass(w)'
  BY <1>3 DEF PassKnows, FullPass
<1>4. CASE Leave(w)
  BY <1>0, <1>3, <1>4 DEF Leave, NoJob, PassPC
<1>5. CASE ResolveKey(w) \/ AcquireUnseen(w) \/ PutRejected(w) \/ ConsumeUnseen(w) \/ DrainDone(w)
  <2>1. pc'[w] \notin PassPC /\ pc[w] \notin PassPC /\ job'[w].full = job[w].full
    BY <1>0, <1>5 DEF ResolveKey, AcquireUnseen, PutRejected, ConsumeUnseen, DrainDone,
       Put, Go, PassPC, Job
  <2> QED BY <1>3, <2>1
<1>6. CASE FindAndSkip(w) \/ Write(w) \/ EndUnwritten(w) \/ RaiseInHandler(w)
  <2> DEFINE j == [job[w] EXCEPT !.full = FALSE, !.deal = None,
                                 !.seen = Never, !.stage = "off"]
             k == [job[w] EXCEPT !.raised = TRUE, !.full = FALSE, !.deal = None,
                                 !.seen = Never, !.stage = "off"]
  <2>1. ~j.full /\ ~k.full
    BY <1>0 DEF Job
  <2>2. job' = [job EXCEPT ![w] = j] \/ job' = [job EXCEPT ![w] = k]
    BY <1>6 DEF FindAndSkip, Write, EndUnwritten, EndPass, RaiseInHandler
  <2>3. pc'[w] \notin PassPC
    BY <1>0, <1>6 DEF FindAndSkip, Write, EndUnwritten, RaiseInHandler, Go, PassPC
  <2> HIDE DEF j, k
  <2> QED BY <1>0, <1>3, <2>1, <2>2, <2>3
<1>7. \/ Leave(w) \/ Load(w) \/ FindAndGo(w) \/ Fetch(w) \/ Acquire(w) \/ ConsumePending(w)
      \/ ResolveKey(w) \/ AcquireUnseen(w) \/ PutRejected(w) \/ ConsumeUnseen(w) \/ DrainDone(w)
      \/ FindAndSkip(w) \/ Write(w) \/ EndUnwritten(w) \/ RaiseInHandler(w)
  BY DEF Acts, Work, Mishap, NoParent, MarkPending, Release, Return, AcquireRaises,
     RaiseEarly, ReleaseFails, Crash
<1> QED BY <1>1, <1>2, <1>4, <1>5, <1>6, <1>7

-----------------------------------------------------------------------------
(* The steps of the workers                                                *)

\* The passes of the others see what they saw: no step of w edits, and w does
\* not take a wake-up for a deal that another worker is at.
LEMMA OthersKnow ==
  ASSUME NEW w \in Worker, Acts(w), NEW v \in Worker, v # w, PassKnows(v), FullPass(v)
  PROVE  PassKnows(v)' /\ FullPass(v)'
<1>0. /\ pc'[v] = pc[v] /\ job'[v] = job[v] /\ crm' = crm
      /\ HoldInv' /\ Base
  BY WorkerGoes, WorkerLoses, StepHoldInv DEF Acts, Base
<1>1. CASE pc[v] \in PassPC
  <2>1. PICK d : d = job[v].key
    OBVIOUS
  <2>2. d \in Deal
    BY <1>0, <1>1, <2>1, InHand DEF PassPC, KeyedPC, HoldPC
  <2>3. ~Loads(w, d, TRUE) /\ ~Loads(w, d, FALSE)
    BY <1>0, <1>1, <2>1 DEF HoldInv, KeysDistinct, InCS, HoldPC, PassPC, Loads
  <2>4. /\ FieldsWake(d) => FieldsWake(d)'
        /\ LinesWake(d) => LinesWake(d)'
    BY <2>2, <2>3, FieldsKept, LinesKept
  <2> QED BY <1>0, <2>1, <2>4 DEF PassKnows, FullPass
<1>2. CASE pc[v] \notin PassPC
  BY <1>0, <1>2 DEF PassKnows, FullPass
<1> QED BY <1>1, <1>2

\* Only a write makes an invoice owe anything to a deal that was not edited.
LEMMA NewlyOwed ==
  ASSUME NEW w \in Worker, Acts(w), NEW d \in Deal,
         \/ FieldsOwed(d)' /\ ~FieldsOwed(d)
         \/ LinesOwed(d)' /\ ~LinesOwed(d)
  PROVE  Write(w) /\ d = job[w].key /\ pc[w] = "writing"
<1>0. Base /\ crm' = crm
  BY WorkerLoses DEF Acts
<1>1. invoice'[d] # invoice[d]
  BY <1>0 DEF FieldsOwed, LinesOwed, FieldsOld, LinesOld, Wanted
<1>2. Write(w)
  BY <1>1 DEF Acts, Work, Mishap, ResolveKey, Acquire, PutRejected, MarkPending, Load,
     FindAndGo, FindAndSkip, Fetch, ConsumePending, DrainDone, Release, Return, Consume,
     AcquireUnseen, AcquireRaises, NoParent, RaiseEarly,
     EndUnwritten, RaiseInHandler, ConsumeUnseen,
     ReleaseFails, Crash
<1>3. pc[w] = "writing"
  BY <1>2 DEF Write, Go
<1>4. job[w].deal = job[w].key
  BY <1>3, PassFacts DEF PassPC
<1>5. d = job[w].deal
  <2>1. DOMAIN invoice = Deal
    BY <1>0 DEF Base, VersionInv
  <2> QED BY <1>1, <1>2, <2>1 DEF Write
<1> QED BY <1>2, <1>3, <1>4, <1>5

\* AccountInv through every step of a worker.
LEMMA WorkerAccounts ==
  ASSUME NEW w \in Worker, Acts(w), AccountInv
  PROVE  AccountInv'
<1>0. /\ crm' = crm /\ PassKnows(w)
      /\ \A v \in Worker : v # w => pc'[v] = pc[v] /\ job'[v] = job[v]
  BY WorkerLoses, WorkerGoes DEF Acts, Base, AccountInv
<1>1. \A v \in Worker : PassKnows(v)' /\ FullPass(v)'
  BY OthersKnow, StillKnows DEF AccountInv
<1>2. ASSUME NEW d \in Deal, FieldsOwed(d)' PROVE FieldsKnown(d)'
  <2>1. CASE FieldsWake(d)
    <3>1. Loads(w, d, TRUE) => FieldsPass(w, d)'
      BY DEF Loads, FieldsPass
    <3> QED BY <2>1, <3>1, FieldsKept DEF FieldsKnown
  <2>2. CASE FieldsPass(w, d)
    BY <1>0, <1>2, <2>2, FieldsPassKept DEF FieldsKnown
  <2>3. ASSUME NEW v \in Worker, v # w, FieldsPass(v, d) PROVE FieldsKnown(d)'
    BY <1>0, <2>3 DEF FieldsPass, FieldsKnown
  <2>4. CASE ~FieldsKnown(d)
    <3>1. ~FieldsOwed(d)
      BY <2>4 DEF AccountInv
    <3>2. Write(w) /\ d = job[w].key /\ pc[w] = "writing"
      BY <1>2, <3>1, NewlyOwed
    <3>3. ~FieldsWake(d)
      BY <2>4 DEF FieldsKnown
    <3>4. job[w].full => job[w].seen.fields = crm[d].fields
      BY <1>0, <3>2, <3>3 DEF PassKnows, PassPC
    <3> QED BY <1>2, <3>1, <3>2, <3>4, WriteSettles
  <2> QED BY <2>1, <2>2, <2>3, <2>4 DEF FieldsKnown
<1>3. ASSUME NEW d \in Deal, LinesOwed(d)' PROVE LinesKnown(d)'
  <2>1. CASE LinesWake(d)
    <3>1. Loads(w, d, TRUE) \/ Loads(w, d, FALSE) => LinesPass(w, d)'
      BY DEF Loads, LinesPass
    <3> QED BY <2>1, <3>1, LinesKept DEF LinesKnown
  <2>2. CASE LinesPass(w, d)
    BY <1>0, <1>3, <2>2, LinesPassKept DEF LinesKnown
  <2>3. ASSUME NEW v \in Worker, v # w, LinesPass(v, d) PROVE LinesKnown(d)'
    BY <1>0, <2>3 DEF LinesPass, LinesKnown
  <2>4. CASE ~LinesKnown(d)
    <3>1. ~LinesOwed(d)
      BY <2>4 DEF AccountInv
    <3>2. Write(w) /\ d = job[w].key /\ pc[w] = "writing"
      BY <1>3, <3>1, NewlyOwed
    <3>3. ~LinesWake(d)
      BY <2>4 DEF LinesKnown
    <3>4. job[w].seen.lines = crm[d].lines
      BY <1>0, <3>2, <3>3 DEF PassKnows, PassPC
    <3> QED BY <1>3, <3>2, <3>4, WriteSettles
  <2> QED BY <2>1, <2>2, <2>3, <2>4 DEF LinesKnown
<1> QED BY <1>1, <1>2, <1>3 DEF AccountInv

-----------------------------------------------------------------------------
(* The steps of the others                                                 *)

\* Where the deal was not edited, its wake-ups stay and the workers at it do
\* nothing, all that was accounted for stays so.
Stays(d) ==
  /\ crm'[d] = crm[d] /\ invoice'[d] = invoice[d]
  /\ FieldsWake(d) => FieldsWake(d)'
  /\ LinesWake(d) => LinesWake(d)'

Idles(v) ==
  \/ pc'[v] = pc[v] /\ job'[v] = job[v]
  \/ pc[v] \notin PassPC /\ pc'[v] \notin PassPC /\ ~job'[v].full

\* A deal that stays owes what it owed, to whom it was known.
LEMMA StayKnown ==
  ASSUME AccountInv, NEW d \in Deal, Stays(d), \A v \in Worker : Idles(v)
  PROVE  /\ FieldsOwed(d)' => FieldsKnown(d)'
         /\ LinesOwed(d)' => LinesKnown(d)'
<1>1. /\ FieldsOwed(d)' <=> FieldsOwed(d)
      /\ LinesOwed(d)' <=> LinesOwed(d)
  BY DEF Stays, FieldsOwed, LinesOwed, FieldsOld, LinesOld, Wanted
<1>2. ASSUME NEW v \in Worker
      PROVE  /\ FieldsPass(v, d) => FieldsPass(v, d)'
             /\ LinesPass(v, d) => LinesPass(v, d)'
  <2>1. Idles(v)
    OBVIOUS
  <2> QED BY <2>1 DEF Idles, FieldsPass, LinesPass, Stays, PassPC
<1> QED BY <1>1, <1>2 DEF AccountInv, FieldsKnown, LinesKnown, Stays

\* A worker that does nothing on a deal that stays knows what it knew.
LEMMA StayPasses ==
  ASSUME AccountInv, NEW v \in Worker, Idles(v), NEW d, d = job[v].key,
         pc[v] \in PassPC => Stays(d)
  PROVE  PassKnows(v)' /\ FullPass(v)'
<1>1. CASE pc'[v] = pc[v] /\ job'[v] = job[v]
  BY <1>1 DEF AccountInv, PassKnows, FullPass, Stays
<1>2. CASE pc[v] \notin PassPC /\ pc'[v] \notin PassPC /\ ~job'[v].full
  BY <1>2 DEF PassKnows, FullPass
<1> QED BY <1>1, <1>2 DEF Idles

\* Wake-ups stay where messages to do, flags and records of losses stay.
LEMMA WakesStay ==
  ASSUME HoldInv, [Next]_vars, "move" \notin Faults, NEW d \in Deal,
         \A i \in DOMAIN msgs : ToDo(i) => ToDo(i)',
         FollowUpDue(d) => FollowUpDue(d)', lost' = lost
  PROVE  /\ crm'[d].fields = crm[d].fields /\ FieldsWake(d) => FieldsWake(d)'
         /\ crm'[d].lines = crm[d].lines /\ LinesWake(d) => LinesWake(d)'
<1>1. \A i \in DOMAIN msgs : /\ i \in DOMAIN msgs' /\ About(i)' = About(i)
                             /\ DealOf(i)' = DealOf(i)
  BY DealsStay
<1>2. CASE FollowUpDue(d)
  BY <1>2 DEF FieldsWake, LinesWake
<1>3. ASSUME NEW i \in DOMAIN msgs, ToDo(i)
      PROVE  /\ About(i) = d => FieldsWake(d)'
             /\ DealOf(i) = d => LinesWake(d)'
  BY <1>1, <1>3 DEF FieldsWake, LinesWake
<1>4. ASSUME crm'[d].fields = crm[d].fields, FieldsWake(d) PROVE FieldsWake(d)'
  <2>1. CASE lost[d].fields >= crm[d].fields
    BY <1>4, <2>1 DEF FieldsWake
  <2> QED BY <1>2, <1>3, <1>4, <2>1 DEF FieldsWake
<1>5. ASSUME crm'[d].lines = crm[d].lines, LinesWake(d) PROVE LinesWake(d)'
  <2>1. CASE lost[d].lines >= crm[d].lines
    BY <1>5, <2>1 DEF LinesWake
  <2> QED BY <1>2, <1>3, <1>5, <2>1 DEF LinesWake
<1> QED BY <1>4, <1>5

\* Where all the deals stay, AccountInv does.
LEMMA AllStay ==
  ASSUME Base, AccountInv, \A d \in Deal : Stays(d), \A v \in Worker : Idles(v)
  PROVE  AccountInv'
<1>1. ASSUME NEW v \in Worker PROVE PassKnows(v)' /\ FullPass(v)'
  <2>1. PICK d : d = job[v].key
    OBVIOUS
  <2>2. pc[v] \in PassPC => d \in Deal
    BY <2>1, InHand DEF PassPC, KeyedPC, HoldPC
  <2> QED BY <2>1, <2>2, StayPasses
<1>2. ASSUME NEW d \in Deal
      PROVE  /\ FieldsOwed(d)' => FieldsKnown(d)'
             /\ LinesOwed(d)' => LinesKnown(d)'
  BY StayKnown
<1> QED BY <1>1, <1>2 DEF AccountInv

\* A received message is to do in the hands of its worker.
LEMMA ReceiveAccounts ==
  ASSUME Base, [Next]_vars, "move" \notin Faults, AccountInv,
         NEW w \in Worker, NEW k \in DOMAIN msgs, Receive(w, k)
  PROVE  AccountInv'
<1>1. /\ job[w] = NoJob /\ job \in [Worker -> Job]
      /\ pc \in [Worker -> {"idle"} \cup EarlyPC \cup HoldPC]
      /\ pc[w] = "idle" /\ HoldInv /\ Data
      /\ \A v \in Worker : v # w => pc'[v] = pc[v] /\ job'[v] = job[v]
  BY WorkerGoes DEF Base, HoldInv, BoundInv, WorkInv, Receive
<1>2. pc'[w] = "keying" /\ job'[w].msg = k /\ ~job'[w].full
  BY <1>1 DEF Receive, NoJob, Job
<1>3. \A v \in Worker : Idles(v)
  BY <1>1, <1>2 DEF Idles, PassPC
<1>4. ASSUME NEW i \in DOMAIN msgs, ToDo(i) PROVE ToDo(i)'
  <2>1. CASE i = k
    BY <1>2, <2>1 DEF ToDo, Waiting, EarlyPC
  <2>2. CASE i # k
    <3>1. msgs'[i] = msgs[i]
      BY <2>2 DEF Receive
    <3>2. \A v \in Worker : pc[v] # "idle" => pc'[v] = pc[v] /\ job'[v] = job[v]
      BY <1>1
    <3> QED BY <1>4, <3>1, <3>2 DEF ToDo, Waiting, Retrying, EarlyPC
  <2> QED BY <2>1, <2>2
<1>5. crm' = crm /\ invoice' = invoice /\ table' = table /\ lost' = lost
  BY DEF Receive
<1>6. ASSUME NEW d \in Deal PROVE Stays(d)
  <2>1. FollowUpDue(d) => FollowUpDue(d)'
    BY <1>5 DEF FollowUpDue
  <2> QED BY <1>1, <1>4, <1>5, <2>1, WakesStay DEF Stays
<1> QED BY <1>3, <1>6, AllStay

\* A duplicate is one more message to do.
LEMMA DuplicateAccounts ==
  ASSUME Base, [Next]_vars, "move" \notin Faults, AccountInv,
         NEW k \in DOMAIN msgs, Duplicate(k)
  PROVE  AccountInv'
<1>1. /\ crm' = crm /\ invoice' = invoice /\ table' = table /\ lost' = lost
      /\ pc' = pc /\ job' = job /\ msgs' = [msgs EXCEPT ![k].at = "queued"]
  BY DEF Duplicate
<1>2. HoldInv /\ Data
  BY DEF Base, HoldInv
<1>3. msgs'[k].at = "queued" /\ \A i \in DOMAIN msgs : i # k => msgs'[i] = msgs[i]
  BY <1>1, <1>2, PlacedAt DEF Place
<1>4. ASSUME NEW i \in DOMAIN msgs, ToDo(i) PROVE ToDo(i)'
  BY <1>1, <1>3, <1>4 DEF ToDo, Waiting, Retrying
<1>5. ASSUME NEW d \in Deal PROVE Stays(d)
  <2>1. FollowUpDue(d) => FollowUpDue(d)'
    BY <1>1 DEF FollowUpDue
  <2> QED BY <1>1, <1>2, <1>4, <2>1, WakesStay DEF Stays
<1>6. \A v \in Worker : Idles(v)
  BY <1>1 DEF Idles
<1> QED BY <1>5, <1>6, AllStay

\* A lapsed row keeps its flag; a swept one has it recorded as lost.
LEMMA RowAccounts ==
  ASSUME Base, [Next]_vars, "move" \notin Faults, AccountInv,
         NEW e \in Deal, Lapse(e) \/ Sweep(e)
  PROVE  AccountInv'
<1>1. /\ crm' = crm /\ invoice' = invoice /\ msgs' = msgs /\ parent' = parent
      /\ pc' = pc /\ job' = job
  BY DealsStay DEF Base, Lapse, Sweep
<1>2. table \in [Deal -> Row \cup {None}]
  BY DEF Base, HoldInv, Data
<1>3. \A v \in Worker : Idles(v)
  BY <1>1 DEF Idles
<1>4. ASSUME NEW d \in Deal
      PROVE  /\ FollowUpDue(d) => FieldsWake(d)' /\ LinesWake(d)'
             /\ lost[d].fields >= crm[d].fields => lost'[d].fields >= crm'[d].fields
             /\ lost[d].lines >= crm[d].lines => lost'[d].lines >= crm'[d].lines
  <2>1. CASE Lapse(e)
    <3>1. table[e] \in Row /\ table' = [table EXCEPT ![e].expiresAt = 0] /\ lost' = lost
      BY <1>2, <2>1 DEF Lapse
    <3>2. FollowUpDue(d) => FollowUpDue(d)'
      <4>1. CASE d # e
        BY <1>2, <3>1, <4>1 DEF FollowUpDue
      <4>2. CASE d = e
        <5>1. table'[d] = [table[d] EXCEPT !.expiresAt = 0]
          BY <1>2, <3>1, <4>2
        <5>2. table'[d].pending = table[d].pending /\ table'[d] \in Row
          BY <3>1, <4>2, <5>1 DEF Row
        <5> QED BY <5>2, NoneAssumption DEF FollowUpDue
      <4> QED BY <4>1, <4>2
    <3> QED BY <1>1, <3>1, <3>2 DEF FieldsWake, LinesWake
  <2>2. CASE Sweep(e)
    <3> DEFINE gone == IF table[e].pending THEN {e} ELSE {}
    <3>1. Lose(gone, gone) /\ table' = [table EXCEPT ![e] = None]
      BY <2>2 DEF Sweep
    <3>2. CASE d = e
      <4>1. FollowUpDue(d) => d \in gone
        BY <3>2 DEF FollowUpDue
      <4> HIDE DEF gone
      <4> QED BY <1>1, <3>1, <4>1, LostSettles, LoseKeeps
    <3>3. CASE d # e
      <4>1. FollowUpDue(d) => FollowUpDue(d)'
        BY <1>2, <3>1, <3>3 DEF FollowUpDue
      <4> HIDE DEF gone
      <4> QED BY <1>1, <3>1, <4>1, LoseKeeps DEF FieldsWake, LinesWake
    <3> QED BY <3>2, <3>3
  <2> QED BY <2>1, <2>2
<1>5. ASSUME NEW d \in Deal PROVE Stays(d)
  <2>1. \A i \in DOMAIN msgs : (ToDo(i) => ToDo(i)') /\ DealOf(i)' = DealOf(i) /\ About(i)' = About(i)
    BY <1>1 DEF ToDo, Waiting, Retrying, DealOf, IsDeal, About
  <2>2. FieldsWake(d) => FieldsWake(d)'
    BY <1>1, <1>4, <2>1 DEF FieldsWake
  <2>3. LinesWake(d) => LinesWake(d)'
    BY <1>1, <1>4, <2>1 DEF LinesWake
  <2> QED BY <1>1, <2>2, <2>3 DEF Stays
<1> QED BY <1>3, <1>5, AllStay

\* The message that an edit sends, beside the others.
LEMMA EmitWakes ==
  ASSUME Base, NEW about \in Deal \cup LineItem, Emit(about)
  PROVE  \E n \in DOMAIN msgs' :
           /\ About(n)' = about /\ ToDo(n)'
           /\ \A i \in DOMAIN msgs : ToDo(i) => ToDo(i)'
<1> DEFINE x == [about |-> about, at |-> "queued", receives |-> 0]
<1>1. x \in Letter /\ msgs' = Append(msgs, x) /\ x.about = about /\ x.at = "queued"
  BY DEF Emit, Letter, Place
<1> HIDE DEF x
<1>2. msgs \in Seq(Letter) /\ DOMAIN msgs = 1 .. Len(msgs) /\ Len(msgs) \in Nat
  BY LenProperties DEF Base, HoldInv, Data
<1>3. /\ Len(msgs') = Len(msgs) + 1 /\ msgs'[Len(msgs) + 1] = x
      /\ \A i \in 1 .. Len(msgs) : msgs'[i] = msgs[i]
      /\ msgs' \in Seq(Letter)
  BY <1>1, <1>2, AppendProperties
<1>4. DOMAIN msgs' = 1 .. Len(msgs) + 1
  BY <1>3, LenProperties
<1>5. pc' = pc /\ job' = job
  BY DEF Emit
<1>6. PICK n : n = Len(msgs) + 1
  OBVIOUS
<1>7. n \in DOMAIN msgs' /\ msgs'[n] = x
  BY <1>2, <1>3, <1>4, <1>6
<1>8. About(n)' = about /\ ToDo(n)'
  BY <1>1, <1>7 DEF About, ToDo, Waiting
<1>9. ASSUME NEW i \in DOMAIN msgs, ToDo(i) PROVE ToDo(i)'
  <2>1. msgs'[i] = msgs[i]
    BY <1>2, <1>3
  <2> QED BY <1>5, <1>9, <2>1 DEF ToDo, Waiting, Retrying
<1> QED BY <1>7, <1>8, <1>9

\* An edit of e: nothing changes for the others, and e is carried by the
\* message of the edit as far as the edit reaches.
LEMMA EditReaches ==
  ASSUME Base, [Next]_vars, "move" \notin Faults, Edit
  PROVE  \E e \in Deal :
           /\ crm' = [crm EXCEPT ![e] = crm'[e]] /\ LinesWake(e)'
           /\ \/ FieldsWake(e)'
              \/ crm'[e].fields = crm[e].fields /\ crm'[e].stage = crm[e].stage
<1>0. crm \in [Deal -> HubSpotDeal] /\ parent \in [LineItem -> Deal] /\ parent' = parent
  BY DealsStay DEF Base, HoldInv, Data, HubSpotDeal
<1>1. ASSUME NEW e \in Deal, NEW stage \in Stages, EditDeal(e, stage)
      PROVE  /\ crm' = [crm EXCEPT ![e] = crm'[e]]
             /\ FieldsWake(e)' /\ LinesWake(e)'
  <2>1. Emit(e) /\ e \in Deal \cup LineItem
    BY <1>1 DEF EditDeal
  <2>2. PICK n \in DOMAIN msgs' : About(n)' = e /\ ToDo(n)'
    BY <2>1, EmitWakes
  <2>3. DealOf(n)' = e
    BY <2>2 DEF DealOf, IsDeal
  <2>4. crm' = [crm EXCEPT ![e] = crm'[e]]
    BY <1>0, <1>1 DEF EditDeal
  <2> QED BY <2>2, <2>3, <2>4 DEF FieldsWake, LinesWake
<1>2. ASSUME NEW l \in LineItem, NEW e \in Deal, e = parent[l], EditLine(l)
      PROVE  /\ crm' = [crm EXCEPT ![e] = crm'[e]] /\ LinesWake(e)'
             /\ crm'[e].fields = crm[e].fields /\ crm'[e].stage = crm[e].stage
  <2>1. Emit(l) /\ l \in Deal \cup LineItem
    BY <1>2 DEF EditLine
  <2>2. PICK n \in DOMAIN msgs' : About(n)' = l /\ ToDo(n)'
    BY <2>1, EmitWakes
  <2>3. DealOf(n)' = e
    BY <1>0, <1>2, <2>2, BoundAssumption DEF DealOf, IsDeal
  <2>4. crm' = [crm EXCEPT ![e].lines = @ + 1]
    BY <1>2 DEF EditLine
  <2>5. crm' = [crm EXCEPT ![e] = crm'[e]]
    BY <1>0, <2>4
  <2>6. crm'[e].fields = crm[e].fields /\ crm'[e].stage = crm[e].stage
    BY <1>0, <2>4 DEF HubSpotDeal
  <2> QED BY <2>2, <2>3, <2>5, <2>6 DEF LinesWake
<1>3. (\E e \in Deal, stage \in Stages : EditDeal(e, stage)) \/ \E l \in LineItem : EditLine(l)
  BY DEF Edit, MoveLine
<1> QED BY <1>0, <1>1, <1>2, <1>3

\* AccountInv through an edit.
LEMMA EditAccounts ==
  ASSUME Base, [Next]_vars, "move" \notin Faults, AccountInv, Edit
  PROVE  AccountInv'
<1>1. PICK e \in Deal :
        /\ crm' = [crm EXCEPT ![e] = crm'[e]] /\ LinesWake(e)'
        /\ \/ FieldsWake(e)'
           \/ crm'[e].fields = crm[e].fields /\ crm'[e].stage = crm[e].stage
  BY EditReaches
<1>2. /\ invoice' = invoice /\ table' = table /\ lost' = lost /\ pc' = pc /\ job' = job
      /\ DOMAIN crm = Deal /\ HoldInv
  BY DEF Edit, EditDeal, EditLine, MoveLine, Emit, Base, HoldInv, Data
<1>3. \A i \in DOMAIN msgs : ToDo(i) => ToDo(i)'
  <2>1. PICK about \in Deal \cup LineItem : Emit(about)
    BY DEF Edit, EditDeal, EditLine, MoveLine
  <2> QED BY <2>1, EmitWakes
<1>4. \A d \in Deal : FollowUpDue(d) => FollowUpDue(d)'
  BY <1>2 DEF FollowUpDue
<1>5. ASSUME NEW d \in Deal, d # e PROVE Stays(d)
  <2>1. crm'[d] = crm[d] /\ invoice'[d] = invoice[d]
    BY <1>1, <1>2, <1>5
  <2> QED BY <1>2, <1>3, <1>4, <2>1, WakesStay DEF Stays
<1>6. \A v \in Worker : Idles(v)
  BY <1>2 DEF Idles
<1>7. crm'[e].fields = crm[e].fields /\ FieldsWake(e) => FieldsWake(e)'
  BY <1>2, <1>3, <1>4, WakesStay
<1>8. FieldsOwed(e)' => FieldsKnown(e)'
  <2>1. CASE FieldsWake(e)'
    BY <2>1 DEF FieldsKnown
  <2>2. CASE crm'[e].fields = crm[e].fields /\ crm'[e].stage = crm[e].stage
    <3>1. FieldsOwed(e)' <=> FieldsOwed(e)
      BY <1>2, <2>2 DEF FieldsOwed, FieldsOld, Wanted
    <3>2. \A v \in Worker : FieldsPass(v, e) => FieldsPass(v, e)'
      BY <1>2, <2>2 DEF FieldsPass
    <3> QED BY <1>7, <2>2, <3>1, <3>2 DEF AccountInv, FieldsKnown
  <2> QED BY <1>1, <2>1, <2>2
<1>9. LinesKnown(e)'
  BY <1>1 DEF LinesKnown
<1>10. ASSUME NEW v \in Worker PROVE PassKnows(v)' /\ FullPass(v)'
  <2>1. PICK d : d = job[v].key
    OBVIOUS
  <2>2. pc[v] \in PassPC => d \in Deal
    BY <2>1, InHand DEF PassPC, KeyedPC, HoldPC
  <2>3. CASE d # e
    <3>1. pc[v] \in PassPC => Stays(d)
      BY <1>5, <2>2, <2>3
    <3> QED BY <1>6, <2>1, <3>1, StayPasses
  <2>4. CASE d = e
    BY <1>1, <1>2, <1>7, <2>1, <2>4 DEF AccountInv, PassKnows, FullPass
  <2> QED BY <2>3, <2>4
<1>11. ASSUME NEW d \in Deal, d # e
       PROVE  /\ FieldsOwed(d)' => FieldsKnown(d)'
              /\ LinesOwed(d)' => LinesKnown(d)'
  BY <1>5, <1>6, <1>11, StayKnown
<1> QED BY <1>8, <1>9, <1>10, <1>11 DEF AccountInv

-----------------------------------------------------------------------------
(* EditsAccounted                                                          *)

\* Every step keeps what is accounted for accounted for.
LEMMA StepAccountInv ==
  ASSUME "move" \notin Faults
  PROVE  Base /\ AccountInv /\ [Next]_vars => AccountInv'
<1> SUFFICES ASSUME Base, AccountInv, [Next]_vars PROVE AccountInv'
  OBVIOUS
<1>1. ASSUME NEW w \in Worker, Work(w) \/ Mishap(w) PROVE AccountInv'
  BY <1>1, WorkerAccounts DEF Acts
<1>2. CASE Take
  BY <1>2, ReceiveAccounts DEF Take
<1>3. CASE \E i \in DOMAIN msgs : Duplicate(i)
  BY <1>3, DuplicateAccounts
<1>4. CASE \E d \in Deal : Lapse(d) \/ Sweep(d)
  BY <1>4, RowAccounts
<1>5. CASE Edit
  BY <1>5, EditAccounts
<1>6. CASE UNCHANGED vars
  BY <1>6 DEF vars, AccountInv, PassKnows, FullPass, FieldsOwed, LinesOwed, FieldsOld,
     LinesOld, Wanted, FieldsKnown, LinesKnown, FieldsPass, LinesPass, FieldsWake,
     LinesWake, FollowUpDue, ToDo, Waiting, Retrying, DealOf, IsDeal, About
<1> QED BY <1>1, <1>2, <1>3, <1>4, <1>5, <1>6 DEF Next

\* At the start an invoice is up to date, or none and not to be created.
LEMMA InitAccountInv == Init => AccountInv
<1> SUFFICES ASSUME Init PROVE AccountInv
  OBVIOUS
<1>1. \A w \in Worker : pc[w] = "idle" /\ ~job[w].full
  BY DEF Init, NoJob
<1>2. ASSUME NEW d \in Deal PROVE ~FieldsOwed(d) /\ ~LinesOwed(d)
  <2>1. crm[d].fields = 1 /\ crm[d].lines = 1 /\ (crm[d].stage = "create" => invoice[d] # None)
    BY DEF Init
  <2>2. invoice[d] # None => invoice[d].fields = 1 /\ invoice[d].lines = 1
    BY DEF Init
  <2> QED BY <2>1, <2>2 DEF FieldsOwed, LinesOwed, FieldsOld, LinesOld, Wanted
<1>3. \A w \in Worker : PassKnows(w) /\ FullPass(w)
  BY <1>1 DEF PassKnows, FullPass, PassPC
<1> QED BY <1>2, <1>3 DEF AccountInv

\* What is accounted for and not lost is carried.
LEMMA AccountedIsCarried == Base /\ AccountInv => EditsAccounted
<1> SUFFICES ASSUME Base, AccountInv, NEW d \in Deal
             PROVE  (FieldsDue(d) => FieldsCarried(d)) /\ (LinesDue(d) => LinesCarried(d))
  BY DEF EditsAccounted
<1>1. /\ crm[d].fields \in Nat /\ crm[d].lines \in Nat
      /\ lost[d].fields \in Int /\ lost[d].lines \in Int
  BY ShownTypes DEF Base, BoundInv, Version
<1>2. ASSUME FieldsDue(d) PROVE FieldsCarried(d)
  BY <1>1, <1>2 DEF FieldsDue, FieldsCarried, AccountInv, FieldsOwed, FieldsKnown,
     FieldsWake, FieldsPass
<1>3. ASSUME LinesDue(d) PROVE LinesCarried(d)
  BY <1>1, <1>3 DEF LinesDue, LinesCarried, AccountInv, LinesOwed, LinesKnown,
     LinesWake, LinesPass, PassPC
<1> QED BY <1>2, <1>3

\* No edit is forgotten, for any deals, line items, workers and bounds and
\* every fault but a line item that moves to another deal: what an invoice owes
\* is on its way until one of the recorded losses.
THEOREM EditsAccountedHolds ==
  ASSUME "move" \notin Faults
  PROVE  Spec => []EditsAccounted
<1>1. Init => Base /\ AccountInv
  BY InitHoldInv, InitKeyInv, InitVersionInv, InitMessageInv, InitBoundInv,
     InitAccountInv DEF Base
<1>2. Base /\ AccountInv /\ [Next]_vars => (Base /\ AccountInv)'
  BY StepHoldInv, StepKeyInv, StepVersionInv, StepMessageInv, StepBoundInv,
     StepAccountInv DEF Base
<1> QED BY <1>1, <1>2, AccountedIsCarried, PTL DEF Spec
=============================================================================
