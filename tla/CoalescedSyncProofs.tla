------------------------- MODULE CoalescedSyncProofs -------------------------
(***************************************************************************)
(* Proofs about CoalescedSync for every set of deals, line items and       *)
(* workers, every bound and every subset of the faults: who owns which     *)
(* row, who writes which invoice, and what an invoice may show.            *)
(*                                                                         *)
(* HolderOwnsRow and TypeOK hold under every fault.  SingleWriter and the  *)
(* refinement of InvoiceRegister need line items that stay with their      *)
(* deals: "move" is the one fault they exclude, and the run two_writers    *)
(* shows why.                                                              *)
(***************************************************************************)
EXTENDS CoalescedSync, LockTableProofs, SequenceTheorems

USE BoundAssumption

-----------------------------------------------------------------------------
(* The inductive invariants                                                *)

\* Where a worker has the key of its message.
KeyedPC == HoldPC \cup {"acquiring", "marking"}

Place   == {"queued", "taken", "acked", "dlq"}
Letter  == [about : Deal \cup LineItem, at : Place, receives : Nat]

Data ==
  /\ crm \in [Deal -> [fields : Nat, lines : Nat, stage : Stages]]
  /\ parent \in [LineItem -> Deal]
  /\ msgs \in Seq(Letter)
  /\ table \in [Deal -> Row \cup {None}]

Job == [msg : Nat, key : Deal \cup {None}, token : Token \cup {None},
        deal : Deal \cup {None}, full : BOOLEAN,
        seen : [fields : Nat, lines : Nat], stage : Stages \cup {"off"},
        raised : BOOLEAN]

\* What a worker knows at which step.
Knows(w) ==
  /\ pc[w] # "idle" => job[w].msg \in DOMAIN msgs
  /\ pc[w] \in KeyedPC => job[w].key \in Deal
  /\ InCS(w) <=> job[w].token \in Token
  /\ job[w].deal # None => pc[w] \in PassPC
  /\ pc[w] \in PassPC \ {"loading"} => job[w].deal \in Deal

WorkInv ==
  /\ pc \in [Worker -> {"idle"} \cup EarlyPC \cup HoldPC]
  /\ job \in [Worker -> Job]
  /\ \A w \in Worker : Knows(w)

\* Two workers in their critical sections have different keys.
KeysDistinct ==
  \A v, w \in Worker :
    v # w /\ InCS(v) /\ InCS(w) => job[v].key # job[w].key

HoldInv == Data /\ WorkInv /\ HolderOwnsRow /\ KeysDistinct

\* Where line items stay with their deals, the key is the deal of the event
\* and the invoice at work is that of the key.
KeyInv ==
  \A w \in Worker :
    /\ pc[w] \in KeyedPC => job[w].key = DealOf(job[w].msg)
    /\ job[w].deal # None => job[w].deal = job[w].key

\* There, what a worker has read of a deal is no older than the invoice that
\* it is about to write, and nothing that the deal has not had.
Between(old, seen, new) == old <= seen /\ seen <= new /\ 1 <= seen

Sees(w) ==
  LET d == job[w].deal
      shown == Register!Shown(d)
  IN  d # None =>
        /\ job[w].full =>
             Between(shown.fields, job[w].seen.fields, crm[d].fields)
        /\ pc[w] = "writing" =>
             Between(shown.lines, job[w].seen.lines, crm[d].lines)
        /\ pc[w] \in {"fetching", "writing"} /\ ~job[w].full => invoice[d] # None

VersionInv ==
  /\ invoice \in [Deal -> [fields : Nat, lines : Nat] \cup {None}]
  /\ \A d \in Deal :
       /\ 1 <= crm[d].fields /\ 1 <= crm[d].lines
       /\ invoice[d] # None =>
            /\ Between(1, invoice[d].fields, crm[d].fields)
            /\ Between(1, invoice[d].lines, crm[d].lines)
  /\ \A w \in Worker : Sees(w)

\* A message is in one place, with one worker at most, and never visible
\* with its receives used up.
MessageInv ==
  /\ Len(msgs) <= MaxEdits
  /\ \A i \in DOMAIN msgs :
       /\ msgs[i].receives <= MaxReceives
       /\ msgs[i].at = "queued" => msgs[i].receives < MaxReceives
  /\ \A w \in Worker : pc[w] # "idle" => msgs[job[w].msg].at = "taken"
  /\ \A v, w \in Worker :
       v # w /\ pc[v] # "idle" /\ pc[w] # "idle" => job[v].msg # job[w].msg

\* Versions count edits, of which each has its message.
BoundInv ==
  /\ \A d \in Deal : /\ crm[d].fields \in 1 .. Len(msgs) + 1
                     /\ crm[d].lines \in 1 .. Len(msgs) + 1
  /\ invoice \in [Deal -> Version \cup {None}]
  /\ lost \in [Deal -> Version]
  /\ \A w \in Worker :
       /\ job[w].seen \in Version
       /\ pc[w] = "idle" <=> job[w] = NoJob
       /\ pc[w] \in {"fetching", "writing"} /\ ~job[w].full =>
            invoice[job[w].deal] # None

-----------------------------------------------------------------------------
(* HoldInv: rows and the workers that own them                             *)

\* At the start no worker holds anything.
LEMMA InitHoldInv == Init => HoldInv
<1> SUFFICES ASSUME Init PROVE HoldInv
  OBVIOUS
<1>1. NoJob \in Job
  BY DEF NoJob, Job, Never
<1>2. Data
  BY DEF Init, Data
<1>3. WorkInv
  <2>1. job \in [Worker -> Job] /\ pc \in [Worker -> {"idle"} \cup EarlyPC \cup HoldPC]
    BY <1>1 DEF Init
  <2>2. ASSUME NEW w \in Worker PROVE Knows(w)
    <3>1. pc[w] = "idle" /\ job[w] = NoJob
      BY DEF Init
    <3> QED BY <3>1, NoneAssumption DEF Knows, InCS, HoldPC, PassPC, KeyedPC, NoJob
  <2> QED BY <2>1, <2>2 DEF WorkInv
<1>4. \A w \in Worker : ~InCS(w)
  BY DEF Init, InCS, HoldPC, PassPC
<1> QED BY <1>2, <1>3, <1>4 DEF HoldInv, HolderOwnsRow, KeysDistinct

\* uuid4: the token of a put is no worker's.
LEMMA FreshTokenIsNew ==
  ASSUME HoldInv, NEW w \in Worker, ~InCS(w)
  PROVE  /\ FreshToken \in Token
         /\ \A v \in Worker : job[v].token # FreshToken
<1> DEFINE held == [v \in Worker |-> job[v].token]
           owner == [d \in Deal |-> IF table[d] = None THEN None ELSE table[d].owner]
<1>1. held \in [Worker -> Token \cup {None}]
  BY DEF HoldInv, WorkInv, Job
<1>2. owner \in [Deal -> Token \cup {None}]
  BY DEF HoldInv, Data, Row
<1>3. held[w] = None
  BY <1>1 DEF HoldInv, WorkInv, Knows
<1> HIDE DEF held, owner
<1>4. PICK t \in Token : /\ \A v \in Worker : held[v] # t
                         /\ \A d \in Deal : owner[d] # t
  BY <1>1, <1>2, <1>3, TokenAssumption
<1>5. \A v \in Worker : job[v].token # t
  BY <1>4 DEF held
<1>6. \A d \in Deal : ~OwnedBy(table[d], t)
  BY <1>4 DEF owner, OwnedBy
<1>7. \E x \in Token : /\ \A v \in Worker : job[v].token # x
                       /\ \A d \in Deal : ~OwnedBy(table[d], x)
  BY <1>5, <1>6
<1> QED BY <1>7 DEF FreshToken

\* Every message is a letter.
LEMMA LetterType ==
  ASSUME Data, NEW i \in DOMAIN msgs
  PROVE  msgs[i] \in Letter
<1> QED BY ElementOfSeq, LenProperties DEF Data

\* A message put into another place stays the message it was.
LEMMA LetterChanged ==
  ASSUME Data, NEW i \in DOMAIN msgs, NEW x \in Letter, x.about = msgs[i].about
  PROVE  LET m == [msgs EXCEPT ![i] = x]
         IN  /\ m \in Seq(Letter)
             /\ DOMAIN m = DOMAIN msgs
             /\ \A j \in DOMAIN msgs : m[j].about = msgs[j].about
<1> DEFINE m == [msgs EXCEPT ![i] = x]
<1>1. msgs \in Seq(Letter)
  BY DEF Data
<1>2. m \in Seq(Letter)
  BY <1>1, ExceptSeq
<1> QED BY <1>2

\* The same where only its place changes.
LEMMA PlaceChanged ==
  ASSUME Data, NEW i \in DOMAIN msgs, NEW place \in Place
  PROVE  LET m == [msgs EXCEPT ![i].at = place]
         IN  /\ m \in Seq(Letter)
             /\ DOMAIN m = DOMAIN msgs
             /\ \A j \in DOMAIN msgs : m[j].about = msgs[j].about
<1> DEFINE x == [msgs[i] EXCEPT !.at = place]
<1>1. msgs[i] \in Letter
  BY LetterType
<1>2. x \in Letter /\ x.about = msgs[i].about
  BY <1>1 DEF Letter
<1>3. [msgs EXCEPT ![i].at = place] = [msgs EXCEPT ![i] = x]
  OBVIOUS
<1> HIDE DEF x
<1> QED BY <1>2, <1>3, LetterChanged

\* SQS may move messages and HubSpot add some; each stays about what it was.
MessagesKept ==
  /\ msgs' \in Seq(Letter)
  /\ DOMAIN msgs \subseteq DOMAIN msgs'
  /\ \A i \in DOMAIN msgs : msgs'[i].about = msgs[i].about

\* Acking and failing a message change its place only.
LEMMA FailedKeeps ==
  ASSUME Data, NEW i \in DOMAIN msgs, msgs' \in {msgs, Failed(i), Acked(i)}
  PROVE  MessagesKept
<1>1. CASE msgs' = msgs
  BY <1>1 DEF Data, MessagesKept
<1>2. CASE msgs' = Failed(i)
  <2> DEFINE place == IF msgs[i].receives < MaxReceives THEN "queued" ELSE "dlq"
  <2>1. place \in Place /\ msgs' = [msgs EXCEPT ![i].at = place]
    BY <1>2 DEF Failed, Place
  <2> HIDE DEF place
  <2> QED BY <2>1, PlaceChanged DEF MessagesKept
<1>3. CASE msgs' = Acked(i)
  <2>1. "acked" \in Place /\ msgs' = [msgs EXCEPT ![i].at = "acked"]
    BY <1>3 DEF Acked, Place
  <2> QED BY <2>1, PlaceChanged DEF MessagesKept
<1> QED BY <1>1, <1>2, <1>3

\* A new message leaves the others as they are.
LEMMA EmitKeeps ==
  ASSUME Data, NEW about \in Deal \cup LineItem, Emit(about)
  PROVE  MessagesKept
<1> DEFINE x == [about |-> about, at |-> "queued", receives |-> 0]
<1>1. msgs \in Seq(Letter) /\ x \in Letter /\ msgs' = Append(msgs, x)
  BY DEF Data, Emit, Letter, Place
<1> HIDE DEF x
<1>2. /\ msgs' \in Seq(Letter) /\ Len(msgs') = Len(msgs) + 1
      /\ \A i \in 1 .. Len(msgs) : msgs'[i] = msgs[i]
  BY <1>1, AppendProperties
<1>3. DOMAIN msgs = 1 .. Len(msgs) /\ DOMAIN msgs' = 1 .. Len(msgs') /\ Len(msgs) \in Nat
  BY <1>1, <1>2, LenProperties
<1> QED BY <1>2, <1>3 DEF MessagesKept

\* No step changes what a message is about, or loses one.
LEMMA StepMessages ==
  ASSUME HoldInv, [Next]_vars
  PROVE  MessagesKept
<1> USE DEF HoldInv
<1>1. CASE Edit
  <2>1. \A l \in LineItem : l \in Deal \cup LineItem
    OBVIOUS
  <2> QED BY <1>1, <2>1, EmitKeeps DEF Edit, EditDeal, EditLine, MoveLine
<1>2. ASSUME NEW w \in Worker, NEW i \in DOMAIN msgs, Receive(w, i)
      PROVE  MessagesKept
  <2> DEFINE x == [about |-> msgs[i].about, at |-> "taken",
                   receives |-> msgs[i].receives + 1]
  <2>1. msgs[i] \in Letter
    BY LetterType
  <2>2. x \in Letter /\ x.about = msgs[i].about
    BY <2>1 DEF Letter, Place
  <2>5. msgs' = [msgs EXCEPT ![i] = x]
    BY <1>2 DEF Receive
  <2> HIDE DEF x
  <2> QED BY <2>2, <2>5, LetterChanged DEF MessagesKept
<1>3. ASSUME NEW w \in Worker, Work(w) \/ Mishap(w)
      PROVE  MessagesKept
  <2>1. CASE pc[w] = "idle"
    BY <1>3, <2>1 DEF Work, Mishap, ResolveKey, Acquire, PutRejected, MarkPending,
       Load, FindAndGo, FindAndSkip, Fetch, Write, ConsumePending, DrainDone,
       Release, Return, Put, Consume, Go, EarlyPC, PassPC,
       AcquireUnseen, AcquireRaises, NoParent, RaiseEarly, EndUnwritten,
       MayEndUnwritten, RaiseInHandler, ConsumeUnseen, ReleaseFails, Crash
  <2>2. CASE pc[w] # "idle"
    <3>1. job[w].msg \in DOMAIN msgs
      BY <2>2 DEF WorkInv, Knows
    <3>2. msgs' \in {msgs, Failed(job[w].msg), Acked(job[w].msg)}
      BY <1>3 DEF Work, Mishap, ResolveKey, Acquire, PutRejected, MarkPending,
         Load, FindAndGo, FindAndSkip, Fetch, Write, ConsumePending, DrainDone,
         Release, Return, Consume, AcquireUnseen, AcquireRaises, NoParent,
         RaiseEarly, EndUnwritten, RaiseInHandler, ConsumeUnseen, ReleaseFails, Crash
    <3> QED BY <3>1, <3>2, FailedKeeps
  <2> QED BY <2>1, <2>2
<1>4. ASSUME NEW d \in Deal, Lapse(d) \/ Sweep(d)
      PROVE  MessagesKept
  BY <1>4 DEF Lapse, Sweep, Data, MessagesKept
<1>5. ASSUME NEW i \in DOMAIN msgs, Duplicate(i)
      PROVE  MessagesKept
  <2>1. "queued" \in Place /\ msgs' = [msgs EXCEPT ![i].at = "queued"]
    BY <1>5 DEF Duplicate, Place
  <2> QED BY <2>1, PlaceChanged DEF MessagesKept
<1>6. CASE UNCHANGED vars
  BY <1>6 DEF vars, Data, MessagesKept
<1> QED BY <1>1, <1>2, <1>3, <1>4, <1>5, <1>6 DEF Next, Take

-----------------------------------------------------------------------------
(* The row of a worker in its critical section                             *)

Mine(w) == /\ OwnedBy(table[job[w].key], job[w].token)
           /\ ~Acquirable(table[job[w].key], 1)

\* A step of worker w preserves HoldInv when it leaves the other workers and
\* their rows alone, and w keeps its key in the critical section.
LEMMA OneWorker ==
  ASSUME HoldInv, MessagesKept, NEW w \in Worker,
         crm' = crm, parent' = parent,
         table' \in [Deal -> Row \cup {None}],
         pc' \in [Worker -> {"idle"} \cup EarlyPC \cup HoldPC],
         job' \in [Worker -> Job],
         \A v \in Worker : v # w => pc'[v] = pc[v] /\ job'[v] = job[v],
         Knows(w)',
         \A v \in Worker : v # w /\ InCS(v) => Mine(v)',
         InCS(w)' => Mine(w)',
         InCS(w)' => \A v \in Worker : v # w /\ InCS(v) => job'[w].key # job[v].key
  PROVE  HoldInv'
<1>1. Data'
  BY DEF HoldInv, Data, MessagesKept
<1>2. WorkInv'
  <2>1. ASSUME NEW v \in Worker, v # w PROVE Knows(v)'
    <3>1. Knows(v) /\ pc'[v] = pc[v] /\ job'[v] = job[v]
      BY <2>1 DEF HoldInv, WorkInv
    <3> QED BY <3>1 DEF Knows, InCS, MessagesKept
  <2> QED BY <2>1 DEF WorkInv
<1>3. \A v \in Worker : v # w => (InCS(v)' <=> InCS(v)) /\ job'[v] = job[v]
  BY DEF InCS
<1>4. HolderOwnsRow'
  BY <1>3 DEF HolderOwnsRow, Mine
<1>5. KeysDistinct'
  BY <1>3 DEF HoldInv, KeysDistinct
<1> QED BY <1>1, <1>2, <1>4, <1>5 DEF HoldInv

\* Steps that leave the lock table alone.
LEMMA TableAlone ==
  ASSUME HoldInv, MessagesKept, NEW w \in Worker,
         crm' = crm, parent' = parent, table' = table,
         NEW p \in {"idle"} \cup EarlyPC \cup HoldPC, NEW j \in Job,
         pc' = [pc EXCEPT ![w] = p], job' = [job EXCEPT ![w] = j],
         Knows(w)',
         p \in HoldPC => InCS(w) /\ j.key = job[w].key /\ j.token = job[w].token
  PROVE  HoldInv'
<1>1. /\ pc' \in [Worker -> {"idle"} \cup EarlyPC \cup HoldPC] /\ pc'[w] = p
      /\ job' \in [Worker -> Job] /\ job'[w] = j
      /\ \A v \in Worker : v # w => pc'[v] = pc[v] /\ job'[v] = job[v]
  BY DEF HoldInv, WorkInv
<1>2. \A v \in Worker : v # w /\ InCS(v) => Mine(v)'
  BY <1>1 DEF HoldInv, HolderOwnsRow, Mine
<1>3. InCS(w)' => InCS(w) /\ j.key = job[w].key /\ j.token = job[w].token
  BY <1>1 DEF InCS
<1>4. InCS(w)' => Mine(w)'
  BY <1>1, <1>3 DEF HoldInv, HolderOwnsRow, Mine
<1>5. InCS(w)' => \A v \in Worker : v # w /\ InCS(v) => job'[w].key # job[v].key
  BY <1>1, <1>3 DEF HoldInv, KeysDistinct
<1>6. table' \in [Deal -> Row \cup {None}]
  BY DEF HoldInv, Data
<1> QED BY <1>1, <1>2, <1>4, <1>5, <1>6, OneWorker

\* A worker that has left knows nothing; its row, if any, stays.
LEMMA NothingKnown ==
  /\ NoJob \in Job
  /\ \A w \in Worker : pc'[w] = "idle" /\ job'[w] = NoJob => Knows(w)' /\ ~InCS(w)'
<1>1. NoJob \in Job
  BY DEF NoJob, Job, Never
<1>2. ASSUME NEW w \in Worker, pc'[w] = "idle", job'[w] = NoJob
      PROVE  Knows(w)' /\ ~InCS(w)'
  BY <1>2, NoneAssumption DEF Knows, InCS, HoldPC, PassPC, KeyedPC, NoJob
<1> QED BY <1>1, <1>2

\* A worker that leaves without a write to the table.
LEMMA LeavesAlone ==
  ASSUME HoldInv, MessagesKept, NEW w \in Worker, Leave(w),
         crm' = crm, parent' = parent, table' = table
  PROVE  HoldInv'
<1>1. "idle" \in {"idle"} \cup EarlyPC \cup HoldPC /\ "idle" \notin HoldPC
  BY DEF HoldPC, PassPC
<1>2. pc' = [pc EXCEPT ![w] = "idle"] /\ job' = [job EXCEPT ![w] = NoJob]
  BY DEF Leave
<1>3. pc'[w] = "idle" /\ job'[w] = NoJob
  BY <1>2 DEF HoldInv, WorkInv
<1> QED BY <1>1, <1>2, <1>3, NothingKnown, TableAlone

-----------------------------------------------------------------------------
(* The steps of a worker that leave the lock table alone                   *)

\* Taking a message, resolving its key, and what fails before the hold.
LEMMA EarlySteps ==
  ASSUME HoldInv, MessagesKept, NEW w \in Worker,
         \/ \E i \in DOMAIN msgs : Receive(w, i)
         \/ ResolveKey(w) \/ PutRejected(w) \/ NoParent(w) \/ RaiseEarly(w)
  PROVE  HoldInv'
<1> USE DEF HoldInv, WorkInv
<1>0. job[w] \in Job /\ Knows(w)
  OBVIOUS
<1>1. ASSUME NEW i \in DOMAIN msgs, Receive(w, i) PROVE HoldInv'
  <2> DEFINE j == [job[w] EXCEPT !.msg = i]
  <2>1. i \in Nat
    BY LenProperties DEF Data
  <2>2. j \in Job
    BY <1>0, <2>1 DEF Job
  <2>3. pc' = [pc EXCEPT ![w] = "keying"] /\ job' = [job EXCEPT ![w] = j]
    BY <1>1 DEF Receive
  <2>4. j.msg = i /\ j.token = job[w].token /\ j.deal = job[w].deal
    BY <1>0 DEF Job
  <2>5. Knows(w)'
    BY <1>0, <1>1, <2>3, <2>4
    DEF Knows, Receive, InCS, HoldPC, PassPC, KeyedPC, MessagesKept
  <2>6. "keying" \in EarlyPC /\ "keying" \notin HoldPC
    BY DEF EarlyPC, HoldPC, PassPC
  <2> HIDE DEF j
  <2> QED BY <1>1, <2>2, <2>3, <2>5, <2>6, TableAlone DEF Receive
<1>2. CASE ResolveKey(w)
  <2> DEFINE j == [job[w] EXCEPT !.key = DealOf(job[w].msg)]
  <2>1. pc[w] = "keying" /\ job[w].msg \in DOMAIN msgs
    BY <1>0, <1>2 DEF ResolveKey, Go, Knows
  <2>2. DealOf(job[w].msg) \in Deal
    <3>1. msgs[job[w].msg] \in Letter
      BY <2>1, LetterType
    <3> QED BY <3>1 DEF DealOf, IsDeal, About, Letter, Data
  <2>3. j \in Job
    BY <1>0, <2>2 DEF Job
  <2>4. pc' = [pc EXCEPT ![w] = "acquiring"] /\ job' = [job EXCEPT ![w] = j]
    BY <1>2 DEF ResolveKey, Go
  <2>5. /\ j.key \in Deal /\ j.msg = job[w].msg
        /\ j.token = job[w].token /\ j.deal = job[w].deal
    BY <1>0, <2>2 DEF Job
  <2>6. Knows(w)'
    BY <1>0, <2>1, <2>4, <2>5
    DEF Knows, InCS, HoldPC, PassPC, KeyedPC, MessagesKept
  <2>7. "acquiring" \in EarlyPC /\ "acquiring" \notin HoldPC
    BY DEF EarlyPC, HoldPC, PassPC
  <2> HIDE DEF j
  <2> QED BY <1>2, <2>3, <2>4, <2>6, <2>7, TableAlone DEF ResolveKey
<1>3. CASE PutRejected(w)
  <2>1. /\ pc' = [pc EXCEPT ![w] = "marking"] /\ job' = [job EXCEPT ![w] = job[w]]
        /\ pc[w] = "acquiring"
    BY <1>3 DEF PutRejected, Go
  <2>2. Knows(w)'
    BY <1>0, <2>1 DEF Knows, InCS, HoldPC, PassPC, KeyedPC, MessagesKept
  <2>3. "marking" \in EarlyPC /\ "marking" \notin HoldPC
    BY DEF EarlyPC, HoldPC, PassPC
  <2> QED BY <1>0, <1>3, <2>1, <2>2, <2>3, TableAlone DEF PutRejected
<1>4. CASE NoParent(w) \/ RaiseEarly(w)
  BY <1>4, LeavesAlone DEF NoParent, RaiseEarly
<1> QED BY <1>1, <1>2, <1>3, <1>4

\* Within the critical section the key and the token stay.
LEMMA Inside ==
  ASSUME HoldInv, MessagesKept, NEW w \in Worker, InCS(w),
         crm' = crm, parent' = parent, table' = table,
         NEW p \in HoldPC, NEW j \in Job,
         pc' = [pc EXCEPT ![w] = p], job' = [job EXCEPT ![w] = j],
         j.msg = job[w].msg, j.key = job[w].key, j.token = job[w].token,
         j.deal # None => p \in PassPC,
         p \in PassPC \ {"loading"} => j.deal \in Deal
  PROVE  HoldInv'
<1>1. pc'[w] = p /\ job'[w] = j /\ Knows(w)
  BY DEF HoldInv, WorkInv
<1>2. Knows(w)'
  BY <1>1 DEF Knows, InCS, HoldPC, PassPC, KeyedPC, MessagesKept
<1> QED BY <1>2, TableAlone

\* The pass over an invoice: what the handler knows of it goes at the end.
LEMMA HandlerSteps ==
  ASSUME HoldInv, MessagesKept, NEW w \in Worker,
         \/ Load(w) \/ FindAndGo(w) \/ FindAndSkip(w) \/ Fetch(w)
         \/ Write(w) \/ EndUnwritten(w) \/ DrainDone(w) \/ RaiseInHandler(w)
  PROVE  HoldInv'
<1> USE DEF HoldInv, WorkInv
<1>0. job[w] \in Job /\ Knows(w)
  OBVIOUS
<1>1. InCS(w) /\ job[w].msg \in DOMAIN msgs /\ job[w].key \in Deal
  <2>1. pc[w] \in PassPC \cup {"draining"}
    BY DEF Load, FindAndGo, FindAndSkip, Fetch, Write, EndUnwritten, MayEndUnwritten,
           DrainDone, RaiseInHandler, Go, PassPC
  <2> QED BY <1>0, <2>1 DEF InCS, HoldPC, PassPC, Knows, KeyedPC
<1>2. CASE Load(w)
  <2> DEFINE d == job[w].key
             j == IF job[w].full
                  THEN [job[w] EXCEPT !.deal = d, !.stage = crm[d].stage,
                                      !.seen.fields = crm[d].fields]
                  ELSE [job[w] EXCEPT !.deal = DealOf(job[w].msg)]
  <2>1. DealOf(job[w].msg) \in Deal
    <3>1. msgs[job[w].msg] \in Letter
      BY <1>1, LetterType
    <3> QED BY <3>1 DEF DealOf, IsDeal, About, Letter, Data
  <2>2. crm[d].stage \in Stages /\ crm[d].fields \in Nat
    BY <1>1 DEF Data
  <2>3. j \in Job
    BY <1>0, <1>1, <2>1, <2>2 DEF Job
  <2>4. pc' = [pc EXCEPT ![w] = "finding"] /\ job' = [job EXCEPT ![w] = j]
    <3>1. CASE job[w].full
      <4>1. j = [job[w] EXCEPT !.deal = d, !.stage = crm[d].stage,
                               !.seen.fields = crm[d].fields]
        BY <3>1
      <4>2. job' = [job EXCEPT ![w].deal = d, ![w].stage = crm[d].stage,
                               ![w].seen.fields = crm[d].fields]
        BY <1>2, <3>1 DEF Load
      <4>3. job' = [job EXCEPT ![w] = j]
        BY <4>1, <4>2
      <4> QED BY <1>2, <4>3 DEF Load, Go
    <3>2. CASE ~job[w].full
      BY <1>2, <3>2 DEF Load, Go
    <3> QED BY <3>1, <3>2
  <2>5. /\ j.msg = job[w].msg /\ j.key = job[w].key /\ j.token = job[w].token
        /\ j.deal \in Deal
    BY <1>0, <1>1, <2>1 DEF Job
  <2>6. "finding" \in HoldPC /\ "finding" \in PassPC
    BY DEF HoldPC, PassPC
  <2> HIDE DEF j
  <2> QED BY <1>1, <1>2, <2>3, <2>4, <2>5, <2>6, Inside DEF Load
<1>3. CASE FindAndGo(w)
  <2>1. /\ pc' = [pc EXCEPT ![w] = "fetching"] /\ job' = [job EXCEPT ![w] = job[w]]
        /\ pc[w] = "finding"
    BY <1>3 DEF FindAndGo, Go
  <2>2. job[w].deal \in Deal
    BY <1>0, <2>1 DEF Knows, PassPC
  <2>3. "fetching" \in HoldPC /\ "fetching" \in PassPC
    BY DEF HoldPC, PassPC
  <2> QED BY <1>0, <1>1, <1>3, <2>1, <2>2, <2>3, Inside DEF FindAndGo
<1>4. CASE FindAndSkip(w) \/ Write(w) \/ EndUnwritten(w)
  <2> DEFINE j == [job[w] EXCEPT !.full = FALSE, !.deal = None,
                                 !.seen = Never, !.stage = "off"]
  <2>1. j \in Job
    BY <1>0 DEF Job, Never
  <2>2. pc' = [pc EXCEPT ![w] = "draining"] /\ job' = [job EXCEPT ![w] = j]
    BY <1>4 DEF FindAndSkip, Write, EndUnwritten, EndPass, Go
  <2>3. /\ j.msg = job[w].msg /\ j.key = job[w].key /\ j.token = job[w].token
        /\ j.deal = None
    BY <1>0 DEF Job
  <2>4. "draining" \in HoldPC /\ "draining" \notin PassPC
    BY DEF HoldPC, PassPC
  <2> HIDE DEF j
  <2>5. crm' = crm /\ parent' = parent /\ table' = table
    BY <1>4 DEF FindAndSkip, Write, EndUnwritten
  <2> QED BY <1>1, <2>1, <2>2, <2>3, <2>4, <2>5, Inside
<1>5. CASE Fetch(w)
  <2> DEFINE j == [job[w] EXCEPT !.seen.lines = crm[job[w].deal].lines]
  <2>1. pc[w] = "fetching" /\ job[w].deal \in Deal
    BY <1>0, <1>5 DEF Fetch, Go, Knows, PassPC
  <2>2. crm[job[w].deal].lines \in Nat
    BY <2>1 DEF Data
  <2>3. j \in Job
    BY <1>0, <2>2 DEF Job
  <2>4. pc' = [pc EXCEPT ![w] = "writing"] /\ job' = [job EXCEPT ![w] = j]
    BY <1>5 DEF Fetch, Go
  <2>5. /\ j.msg = job[w].msg /\ j.key = job[w].key /\ j.token = job[w].token
        /\ j.deal = job[w].deal
    BY <1>0 DEF Job
  <2>6. "writing" \in HoldPC /\ "writing" \in PassPC
    BY DEF HoldPC, PassPC
  <2> HIDE DEF j
  <2> QED BY <1>1, <1>5, <2>1, <2>3, <2>4, <2>5, <2>6, Inside DEF Fetch
<1>6. CASE DrainDone(w)
  <2>1. /\ pc' = [pc EXCEPT ![w] = "releasing"] /\ job' = [job EXCEPT ![w] = job[w]]
        /\ pc[w] = "draining"
    BY <1>6 DEF DrainDone, Go
  <2>2. job[w].deal = None
    BY <1>0, <2>1 DEF Knows, PassPC
  <2>3. "releasing" \in HoldPC /\ "releasing" \notin PassPC
    BY DEF HoldPC, PassPC
  <2> QED BY <1>0, <1>1, <1>6, <2>1, <2>2, <2>3, Inside DEF DrainDone
<1>7. CASE RaiseInHandler(w)
  <2> DEFINE j == [job[w] EXCEPT !.raised = TRUE, !.full = FALSE, !.deal = None,
                                 !.seen = Never, !.stage = "off"]
  <2>1. j \in Job
    BY <1>0 DEF Job, Never
  <2>2. pc' = [pc EXCEPT ![w] = "releasing"] /\ job' = [job EXCEPT ![w] = j]
    BY <1>7 DEF RaiseInHandler
  <2>3. /\ j.msg = job[w].msg /\ j.key = job[w].key /\ j.token = job[w].token
        /\ j.deal = None
    BY <1>0 DEF Job
  <2>4. "releasing" \in HoldPC /\ "releasing" \notin PassPC
    BY DEF HoldPC, PassPC
  <2> HIDE DEF j
  <2>5. crm' = crm /\ parent' = parent /\ table' = table
    BY <1>7 DEF RaiseInHandler
  <2> QED BY <1>1, <2>1, <2>2, <2>3, <2>4, <2>5, Inside
<1> HIDE DEF HoldInv, WorkInv
<1> QED BY <1>2, <1>3, <1>4, <1>5, <1>6, <1>7

-----------------------------------------------------------------------------
(* The steps that write a row                                              *)

\* Whoever is past its put has the key of its row.
LEMMA OthersKeys ==
  ASSUME HoldInv, NEW v \in Worker, InCS(v)
  PROVE  /\ job[v].key \in Deal /\ job[v].token \in Token /\ Mine(v)
         /\ \A w \in Worker : w # v /\ InCS(w) => job[w].key # job[v].key
<1>1. pc[v] \in KeyedPC
  BY DEF InCS, KeyedPC
<1> QED BY <1>1 DEF HoldInv, WorkInv, Knows, HolderOwnsRow, Mine, KeysDistinct

\* A row is put only where no worker has one; it is not lapsed.
LEMMA RowPut ==
  ASSUME HoldInv, NEW w \in Worker, Put(w)
  PROVE  /\ job[w].key \in Deal /\ FreshToken \in Token
         /\ table' \in [Deal -> Row \cup {None}]
         /\ OwnedBy(table'[job[w].key], FreshToken)
         /\ ~Acquirable(table'[job[w].key], 1)
         /\ \A v \in Worker : InCS(v) =>
              /\ job[v].key # job[w].key
              /\ table'[job[v].key] = table[job[v].key]
<1> DEFINE key == job[w].key
           row == HeldRow(FreshToken, 1, 1)
<1>1. pc[w] = "acquiring" /\ Acquirable(table[key], 1) /\ table' = [table EXCEPT ![key] = row]
  BY DEF Put
<1>2. ~InCS(w) /\ key \in Deal
  BY <1>1 DEF HoldInv, WorkInv, Knows, KeyedPC, InCS, HoldPC, PassPC
<1>3. FreshToken \in Token
  BY <1>2, FreshTokenIsNew
<1>4. row \in Row /\ OwnedBy(row, FreshToken) /\ row.expiresAt = 2
  <2>1. row \in Row /\ OwnedBy(row, FreshToken) /\ row.expiresAt = 1 + 1
    BY <1>3, HeldRowType, 1 \in Int
  <2> HIDE DEF row
  <2> QED BY <2>1
<1>5. ~Acquirable(row, 1)
  BY <1>4, NoneAssumption DEF Acquirable
<1>6. table \in [Deal -> Row \cup {None}]
  BY DEF HoldInv, Data
<1>7. \A v \in Worker : InCS(v) => job[v].key # key
  BY <1>1, OthersKeys DEF Mine
<1> HIDE DEF row, key
<1>8. table'[key] = row /\ table' \in [Deal -> Row \cup {None}]
  BY <1>1, <1>2, <1>4, <1>6
<1>9. \A v \in Worker : InCS(v) => table'[job[v].key] = table[job[v].key]
  BY <1>1, <1>6, <1>7, OthersKeys
<1> QED BY <1>2, <1>3, <1>4, <1>5, <1>7, <1>8, <1>9 DEF key

\* The conditional put, seen or unseen.
LEMMA PutSteps ==
  ASSUME HoldInv, MessagesKept, NEW w \in Worker,
         Acquire(w) \/ AcquireUnseen(w) \/ AcquireRaises(w)
  PROVE  HoldInv'
<1>0. job[w] \in Job /\ Knows(w) /\ job \in [Worker -> Job]
      /\ pc \in [Worker -> {"idle"} \cup EarlyPC \cup HoldPC]
  BY DEF HoldInv, WorkInv
<1>1. Put(w) /\ pc[w] = "acquiring" /\ crm' = crm /\ parent' = parent
  BY DEF Acquire, AcquireUnseen, AcquireRaises, Put
<1>2. /\ job[w].key \in Deal /\ FreshToken \in Token
      /\ table' \in [Deal -> Row \cup {None}]
      /\ OwnedBy(table'[job[w].key], FreshToken)
      /\ ~Acquirable(table'[job[w].key], 1)
      /\ \A v \in Worker : InCS(v) =>
           /\ job[v].key # job[w].key
           /\ table'[job[v].key] = table[job[v].key]
  BY <1>1, RowPut
<1>3. job[w].msg \in DOMAIN msgs /\ job[w].deal = None
  BY <1>0, <1>1 DEF Knows, PassPC
<1>4. ASSUME \A v \in Worker : v # w => job'[v] = job[v]
      PROVE  \A v \in Worker : v # w /\ InCS(v) => Mine(v)'
  BY <1>2, <1>4, OthersKeys DEF Mine
<1>5. CASE Acquire(w)
  <2> DEFINE j == [job[w] EXCEPT !.token = FreshToken, !.full = IsDeal(job[w].msg)]
  <2>1. IsDeal(job[w].msg) \in BOOLEAN
    BY DEF IsDeal
  <2>2. j \in Job
    BY <1>0, <1>2, <2>1 DEF Job
  <2>3. /\ j.msg = job[w].msg /\ j.key = job[w].key /\ j.token = FreshToken
        /\ j.deal = None
    BY <1>0, <1>3 DEF Job
  <2>4. pc' = [pc EXCEPT ![w] = "loading"] /\ job' = [job EXCEPT ![w] = j]
    BY <1>5 DEF Acquire, Go
  <2> HIDE DEF j
  <2>5. "loading" \in HoldPC /\ "loading" \in PassPC
    BY DEF HoldPC, PassPC
  <2>6. /\ pc'[w] = "loading" /\ job'[w] = j
        /\ pc' \in [Worker -> {"idle"} \cup EarlyPC \cup HoldPC]
        /\ job' \in [Worker -> Job]
        /\ \A v \in Worker : v # w => pc'[v] = pc[v] /\ job'[v] = job[v]
    BY <1>0, <2>2, <2>4, <2>5
  <2>7. Knows(w)'
    BY <1>2, <1>3, <2>3, <2>5, <2>6 DEF Knows, InCS, MessagesKept
  <2>8. Mine(w)'
    BY <1>2, <2>3, <2>6 DEF Mine
  <2>9. \A v \in Worker : v # w /\ InCS(v) => job'[w].key # job[v].key
    BY <1>2, <2>3, <2>6
  <2> QED BY <1>1, <1>2, <1>4, <2>6, <2>7, <2>8, <2>9, OneWorker
<1>6. CASE AcquireUnseen(w)
  <2>1. pc' = [pc EXCEPT ![w] = "marking"] /\ job' = job
    BY <1>6 DEF AcquireUnseen, Go
  <2>2. "marking" \in EarlyPC /\ "marking" \notin HoldPC /\ "marking" \notin PassPC
        /\ pc[w] \notin HoldPC /\ pc[w] \in KeyedPC
    BY <1>1 DEF EarlyPC, HoldPC, PassPC, KeyedPC
  <2>3. /\ pc'[w] = "marking"
        /\ pc' \in [Worker -> {"idle"} \cup EarlyPC \cup HoldPC]
        /\ \A v \in Worker : v # w => pc'[v] = pc[v]
    BY <1>0, <2>1, <2>2
  <2>4. Knows(w)' /\ ~InCS(w)'
    BY <1>0, <1>2, <1>3, <2>1, <2>2, <2>3 DEF Knows, InCS, MessagesKept
  <2> QED BY <1>0, <1>1, <1>2, <1>4, <2>1, <2>3, <2>4, OneWorker
<1>7. CASE AcquireRaises(w)
  <2>1. Leave(w)
    BY <1>7 DEF AcquireRaises
  <2>2. /\ pc'[w] = "idle" /\ job'[w] = NoJob
        /\ pc' \in [Worker -> {"idle"} \cup EarlyPC \cup HoldPC]
        /\ job' \in [Worker -> Job]
        /\ \A v \in Worker : v # w => pc'[v] = pc[v] /\ job'[v] = job[v]
    BY <1>0, <2>1, NothingKnown DEF Leave
  <2>3. Knows(w)' /\ ~InCS(w)'
    BY <2>2, NothingKnown
  <2> QED BY <1>1, <1>2, <1>4, <2>2, <2>3, OneWorker
<1> QED BY <1>5, <1>6, <1>7

\* Any row may be marked: the mark keeps its owner and its expiry.
LEMMA RowMarked ==
  ASSUME HoldInv, NEW k \in Deal, table' = [table EXCEPT ![k] = Marked(@)]
  PROVE  /\ table' \in [Deal -> Row \cup {None}]
         /\ \A d \in Deal, t \in Token :
              /\ OwnedBy(table[d], t) => OwnedBy(table'[d], t)
              /\ ~Acquirable(table[d], 1) => ~Acquirable(table'[d], 1)
<1>1. table \in [Deal -> Row \cup {None}]
  BY DEF HoldInv, Data
<1>2. /\ Marked(table[k]) \in Row \cup {None}
      /\ \A t \in Token : OwnedBy(Marked(table[k]), t) <=> OwnedBy(table[k], t)
      /\ ~Acquirable(table[k], 1) => ~Acquirable(Marked(table[k]), 1)
  BY <1>1, MarkedKeeps DEF Acquirable
<1>3. \A d \in Deal : table'[d] = IF d = k THEN Marked(table[k]) ELSE table[d]
  BY <1>1
<1> QED BY <1>1, <1>2, <1>3

\* The mark on a row that may be anybody's.
LEMMA MarkStep ==
  ASSUME HoldInv, MessagesKept, NEW w \in Worker, MarkPending(w)
  PROVE  HoldInv'
<1>0. /\ job[w] \in Job /\ Knows(w) /\ job \in [Worker -> Job]
      /\ pc \in [Worker -> {"idle"} \cup EarlyPC \cup HoldPC]
  BY DEF HoldInv, WorkInv
<1>1. /\ pc[w] = "marking" /\ Leave(w) /\ crm' = crm /\ parent' = parent
      /\ table' = [table EXCEPT ![job[w].key] = Marked(@)]
  BY DEF MarkPending
<1>2. job[w].key \in Deal
  BY <1>0, <1>1 DEF Knows, KeyedPC
<1>3. /\ pc'[w] = "idle" /\ job'[w] = NoJob
      /\ pc' \in [Worker -> {"idle"} \cup EarlyPC \cup HoldPC]
      /\ job' \in [Worker -> Job]
      /\ \A v \in Worker : v # w => pc'[v] = pc[v] /\ job'[v] = job[v]
  BY <1>0, <1>1, NothingKnown DEF Leave
<1>4. Knows(w)' /\ ~InCS(w)'
  BY <1>3, NothingKnown
<1>5. table' \in [Deal -> Row \cup {None}]
  BY <1>1, <1>2, RowMarked
<1>6. ASSUME NEW v \in Worker, v # w, InCS(v) PROVE Mine(v)'
  <2>1. job[v].key \in Deal /\ job[v].token \in Token /\ Mine(v) /\ job'[v] = job[v]
    BY <1>3, <1>6, OthersKeys
  <2>2. OwnedBy(table'[job[v].key], job[v].token) /\ ~Acquirable(table'[job[v].key], 1)
    BY <1>1, <1>2, <2>1, RowMarked DEF Mine
  <2> QED BY <2>1, <2>2 DEF Mine
<1> QED BY <1>1, <1>3, <1>4, <1>5, <1>6, OneWorker

\* The holder's own writes touch no other worker's row.
LEMMA OwnRow ==
  ASSUME HoldInv, NEW w \in Worker, InCS(w), NEW row \in Row \cup {None},
         table' = [table EXCEPT ![job[w].key] = row],
         \A v \in Worker : v # w => job'[v] = job[v]
  PROVE  /\ table' \in [Deal -> Row \cup {None}]
         /\ table'[job[w].key] = row
         /\ \A v \in Worker : v # w /\ InCS(v) => Mine(v)'
<1>1. table \in [Deal -> Row \cup {None}] /\ job[w].key \in Deal
  BY OthersKeys DEF HoldInv, Data
<1>2. ASSUME NEW v \in Worker, v # w, InCS(v) PROVE Mine(v)'
  <2>1. job[v].key # job[w].key /\ job[v].key \in Deal /\ Mine(v) /\ job'[v] = job[v]
    BY <1>2, OthersKeys
  <2>2. table'[job[v].key] = table[job[v].key]
    BY <1>1, <2>1
  <2> QED BY <2>1, <2>2 DEF Mine
<1> QED BY <1>1, <1>2

\* Consuming the flag on the own row.
LEMMA ConsumeSteps ==
  ASSUME HoldInv, MessagesKept, NEW w \in Worker,
         ConsumePending(w) \/ ConsumeUnseen(w)
  PROVE  HoldInv'
<1> DEFINE key == job[w].key
           row == Consumed(table[key])
<1>0. /\ job[w] \in Job /\ Knows(w) /\ job \in [Worker -> Job]
      /\ pc \in [Worker -> {"idle"} \cup EarlyPC \cup HoldPC]
      /\ table \in [Deal -> Row \cup {None}]
  BY DEF HoldInv, WorkInv, Data
<1>1. /\ pc[w] = "draining" /\ crm' = crm /\ parent' = parent
      /\ Consumable(table[key], job[w].token)
      /\ table' = [table EXCEPT ![key] = row]
  BY DEF ConsumePending, ConsumeUnseen, Consume
<1>2. /\ InCS(w) /\ key \in Deal /\ job[w].token \in Token
      /\ job[w].msg \in DOMAIN msgs /\ job[w].deal = None
  BY <1>0, <1>1 DEF InCS, HoldPC, PassPC, Knows, KeyedPC
<1>3. Mine(w)
  BY <1>2, OthersKeys
<1>4. row \in Row /\ OwnedBy(row, job[w].token) /\ ~Acquirable(row, 1)
  <2>1. table[key] \in Row \cup {None} /\ table[key] # None
    BY <1>0, <1>2, <1>3 DEF Mine, OwnedBy
  <2>2. /\ row \in Row /\ (\A t \in Token : OwnedBy(row, t) <=> OwnedBy(table[key], t))
        /\ row.expiresAt = table[key].expiresAt
    BY <2>1, ConsumedKeeps
  <2> QED BY <1>2, <1>3, <2>1, <2>2, NoneAssumption DEF Mine, Acquirable
<1>5. ASSUME NEW p \in HoldPC, NEW j \in Job,
             pc' = [pc EXCEPT ![w] = p], job' = [job EXCEPT ![w] = j],
             j.msg = job[w].msg, j.key = key, j.token = job[w].token,
             j.deal = None, p \in {"loading", "releasing"}
      PROVE  HoldInv'
  <2>1. /\ pc'[w] = p /\ job'[w] = j
        /\ pc' \in [Worker -> {"idle"} \cup EarlyPC \cup HoldPC]
        /\ job' \in [Worker -> Job]
        /\ \A v \in Worker : v # w => pc'[v] = pc[v] /\ job'[v] = job[v]
    BY <1>0, <1>5
  <2>2. Knows(w)'
    BY <1>2, <1>5, <2>1 DEF Knows, InCS, PassPC, MessagesKept
  <2> HIDE DEF row, key
  <2>3. /\ table' \in [Deal -> Row \cup {None}] /\ table'[key] = row
        /\ \A v \in Worker : v # w /\ InCS(v) => Mine(v)'
    BY <1>1, <1>2, <1>4, <2>1, OwnRow DEF key
  <2>4. Mine(w)'
    BY <1>4, <1>5, <2>1, <2>3 DEF Mine
  <2>5. \A v \in Worker : v # w /\ InCS(v) => job'[w].key # job[v].key
    BY <1>2, <1>5, <2>1, OthersKeys DEF key
  <2> QED BY <1>1, <2>1, <2>2, <2>3, <2>4, <2>5, OneWorker
<1>6. CASE ConsumePending(w)
  <2> DEFINE j == [job[w] EXCEPT !.full = TRUE]
  <2>1. j \in Job /\ j.msg = job[w].msg /\ j.key = key /\ j.token = job[w].token
        /\ j.deal = None
    BY <1>0, <1>2 DEF Job
  <2>2. pc' = [pc EXCEPT ![w] = "loading"] /\ job' = [job EXCEPT ![w] = j]
    BY <1>6 DEF ConsumePending, Go
  <2>3. "loading" \in HoldPC
    BY DEF HoldPC, PassPC
  <2> HIDE DEF j, key, row
  <2> QED BY <1>5, <2>1, <2>2, <2>3
<1>7. CASE ConsumeUnseen(w)
  <2>1. PICK raised \in BOOLEAN : job' = [job EXCEPT ![w].raised = raised]
    BY <1>7 DEF ConsumeUnseen
  <2> DEFINE j == [job[w] EXCEPT !.raised = raised]
  <2>2. j \in Job /\ j.msg = job[w].msg /\ j.key = key /\ j.token = job[w].token
        /\ j.deal = None
    BY <1>0, <1>2 DEF Job
  <2>3. pc' = [pc EXCEPT ![w] = "releasing"] /\ job' = [job EXCEPT ![w] = j]
    BY <1>7, <2>1 DEF ConsumeUnseen, Go
  <2>4. "releasing" \in HoldPC
    BY DEF HoldPC
  <2> HIDE DEF j, key, row
  <2> QED BY <1>5, <2>2, <2>3, <2>4
<1> QED BY <1>6, <1>7

\* The holder leaves, whatever becomes of its row.
LEMMA ReturnSteps ==
  ASSUME HoldInv, MessagesKept, NEW w \in Worker,
         Release(w) \/ ReleaseFails(w) \/ Crash(w)
  PROVE  HoldInv'
<1>1. CASE ReleaseFails(w) \/ Crash(w)
  <2>1. Leave(w) /\ crm' = crm /\ parent' = parent /\ table' = table
    BY <1>1 DEF ReleaseFails, Return, Crash
  <2> QED BY <2>1, LeavesAlone
<1>2. CASE Release(w)
  <2> DEFINE key == job[w].key
             row == Released(table[key], job[w].token)
  <2>1. /\ pc[w] = "releasing" /\ Leave(w) /\ crm' = crm /\ parent' = parent
        /\ table' = [table EXCEPT ![key] = row]
    BY <1>2 DEF Release, Return
  <2>2. InCS(w)
    BY <2>1 DEF InCS, HoldPC
  <2>3. row \in Row \cup {None}
    BY <2>2, OthersKeys, ReleasedFenced DEF HoldInv, Data
  <2>4. /\ pc'[w] = "idle" /\ job'[w] = NoJob
        /\ pc' \in [Worker -> {"idle"} \cup EarlyPC \cup HoldPC]
        /\ job' \in [Worker -> Job]
        /\ \A v \in Worker : v # w => pc'[v] = pc[v] /\ job'[v] = job[v]
    BY <2>1, NothingKnown DEF Leave, HoldInv, WorkInv
  <2>5. Knows(w)' /\ ~InCS(w)'
    BY <2>4, NothingKnown
  <2> HIDE DEF row
  <2>6. /\ table' \in [Deal -> Row \cup {None}]
        /\ \A v \in Worker : v # w /\ InCS(v) => Mine(v)'
    BY <2>1, <2>2, <2>3, <2>4, OwnRow
  <2> QED BY <2>1, <2>4, <2>5, <2>6, OneWorker
<1> QED BY <1>1, <1>2

-----------------------------------------------------------------------------
(* The steps of nobody's                                                   *)

\* Steps that move no worker and touch no worker's row.
LEMMA NoWorker ==
  ASSUME HoldInv, MessagesKept, pc' = pc, job' = job,
         crm' \in [Deal -> [fields : Nat, lines : Nat, stage : Stages]],
         parent' \in [LineItem -> Deal],
         table' \in [Deal -> Row \cup {None}],
         \A v \in Worker : InCS(v) => table'[job[v].key] = table[job[v].key]
  PROVE  HoldInv'
<1>1. Data'
  BY DEF Data, MessagesKept
<1>2. WorkInv'
  <2>1. ASSUME NEW v \in Worker PROVE Knows(v)'
    <3>1. Knows(v) /\ pc'[v] = pc[v] /\ job'[v] = job[v]
      BY DEF HoldInv, WorkInv
    <3> QED BY <3>1 DEF Knows, InCS, MessagesKept
  <2> QED BY <2>1 DEF HoldInv, WorkInv
<1>3. \A v \in Worker : InCS(v)' <=> InCS(v)
  BY DEF InCS
<1>4. HolderOwnsRow' /\ KeysDistinct'
  BY <1>3 DEF HoldInv, HolderOwnsRow, KeysDistinct
<1> QED BY <1>1, <1>2, <1>4 DEF HoldInv

HubSpotDeal == [fields : Nat, lines : Nat, stage : Stages]

\* Edits in HubSpot touch no row.
LEMMA EditSteps ==
  ASSUME HoldInv, MessagesKept, Edit
  PROVE  HoldInv'
<1>1. /\ crm \in [Deal -> HubSpotDeal] /\ parent \in [LineItem -> Deal]
      /\ table \in [Deal -> Row \cup {None}]
  BY DEF HoldInv, Data, HubSpotDeal
<1>2. pc' = pc /\ job' = job /\ table' = table
  BY DEF Edit, EditDeal, EditLine, MoveLine, Emit
<1>3. crm' \in [Deal -> HubSpotDeal] /\ parent' \in [LineItem -> Deal]
  <2>1. ASSUME NEW d \in Deal, NEW stage \in Stages, EditDeal(d, stage)
        PROVE  crm' \in [Deal -> HubSpotDeal] /\ parent' = parent
    <3> DEFINE c == [crm EXCEPT ![d].fields = @ + 1]
    <3>1. c \in [Deal -> HubSpotDeal]
      BY <1>1 DEF HubSpotDeal
    <3>2. crm' = [c EXCEPT ![d].stage = stage] /\ parent' = parent
      BY <2>1, Zenon DEF EditDeal
    <3> HIDE DEF c
    <3> QED BY <3>1, <3>2 DEF HubSpotDeal
  <2>2. ASSUME NEW l \in LineItem, EditLine(l)
        PROVE  crm' \in [Deal -> HubSpotDeal] /\ parent' = parent
    BY <1>1, <2>2 DEF EditLine, HubSpotDeal
  <2>3. ASSUME NEW l \in LineItem, NEW d \in Deal, MoveLine(l, d)
        PROVE  crm' \in [Deal -> HubSpotDeal] /\ parent' \in [LineItem -> Deal]
    <3> DEFINE c == [crm EXCEPT ![parent[l]].lines = @ + 1]
    <3>1. parent[l] \in Deal /\ d # parent[l]
      BY <1>1, <2>3 DEF MoveLine
    <3>2. c \in [Deal -> HubSpotDeal] /\ c[d] = crm[d]
      BY <1>1, <3>1 DEF HubSpotDeal
    <3>3. crm' = [c EXCEPT ![d].lines = @ + 1]
      BY <2>3, <3>2, Zenon DEF MoveLine
    <3> HIDE DEF c
    <3>4. crm' \in [Deal -> HubSpotDeal]
      BY <3>2, <3>3 DEF HubSpotDeal
    <3> QED BY <1>1, <2>3, <3>4 DEF MoveLine
  <2> QED BY <1>1, <2>1, <2>2, <2>3 DEF Edit
<1> QED BY <1>1, <1>2, <1>3, NoWorker DEF HubSpotDeal

\* A row lapses, or is deleted, only when no worker owns it.
LEMMA RowSteps ==
  ASSUME HoldInv, MessagesKept, NEW d \in Deal, Lapse(d) \/ Sweep(d)
  PROVE  HoldInv'
<1>1. /\ table \in [Deal -> Row \cup {None}] /\ table[d] # None
      /\ pc' = pc /\ job' = job /\ crm' = crm /\ parent' = parent
  BY DEF HoldInv, Data, Lapse, Sweep
<1>2. \A v \in Worker : InCS(v) => job[v].key # d
  BY OthersKeys DEF Lapse, Sweep, Mine, Held
<1>3. PICK row \in Row \cup {None} : table' = [table EXCEPT ![d] = row]
  <2>1. CASE Lapse(d)
    <3>1. [table[d] EXCEPT !.expiresAt = 0] \in Row
      BY <1>1 DEF Row
    <3> QED BY <2>1, <3>1 DEF Lapse
  <2>2. CASE Sweep(d)
    BY <2>2 DEF Sweep
  <2> QED BY <2>1, <2>2
<1>4. /\ table' \in [Deal -> Row \cup {None}]
      /\ \A v \in Worker : InCS(v) => table'[job[v].key] = table[job[v].key]
  BY <1>1, <1>2, <1>3, OthersKeys
<1> QED BY <1>1, <1>4, NoWorker DEF HoldInv, Data

\* One step per action: a worker past its put keeps its row.
LEMMA StepHoldInv == HoldInv /\ [Next]_vars => HoldInv'
<1> SUFFICES ASSUME HoldInv, [Next]_vars PROVE HoldInv'
  OBVIOUS
<1>0. MessagesKept
  BY StepMessages
<1>1. CASE Edit
  BY <1>0, <1>1, EditSteps
<1>2. CASE Take
  BY <1>0, <1>2, EarlySteps DEF Take
<1>3. ASSUME NEW w \in Worker, Work(w) PROVE HoldInv'
  BY <1>0, <1>3, EarlySteps, HandlerSteps, PutSteps, MarkStep, ConsumeSteps,
     ReturnSteps DEF Work
<1>4. ASSUME NEW w \in Worker, Mishap(w) PROVE HoldInv'
  BY <1>0, <1>4, EarlySteps, HandlerSteps, PutSteps, ConsumeSteps, ReturnSteps
  DEF Mishap
<1>5. ASSUME NEW d \in Deal, Lapse(d) \/ Sweep(d) PROVE HoldInv'
  BY <1>0, <1>5, RowSteps
<1>6. CASE (\E i \in DOMAIN msgs : Duplicate(i)) \/ UNCHANGED vars
  <2>1. pc' = pc /\ job' = job /\ crm' = crm /\ parent' = parent /\ table' = table
    BY <1>6 DEF Duplicate, vars
  <2> QED BY <1>0, <2>1, NoWorker DEF HoldInv, Data
<1> QED BY <1>1, <1>2, <1>3, <1>4, <1>5, <1>6 DEF Next

\* locks.py: whoever is past its put owns the row of its key until it
\* leaves, whatever crashes, lost replies, failed releases, duplicates and
\* moved line items there are.
THEOREM HolderOwnsRowHolds == Spec => []HolderOwnsRow
<1>1. HoldInv => HolderOwnsRow
  BY DEF HoldInv
<1> QED BY <1>1, InitHoldInv, StepHoldInv, PTL DEF Spec

-----------------------------------------------------------------------------
(* One writer per invoice, where line items stay with their deals          *)

KeyOf(w) ==
  /\ pc[w] \in KeyedPC => job[w].key = DealOf(job[w].msg)
  /\ job[w].deal # None => job[w].deal = job[w].key

\* What a step may do to a worker: move it on with its key and its message;
\* give it the key of its message; load the key's deal; or leave it without
\* a key and a deal.
Goes(w) ==
  \/ /\ job'[w].msg = job[w].msg /\ job'[w].key = job[w].key
     /\ pc'[w] \in KeyedPC => pc[w] \in KeyedPC
     /\ job'[w].deal \in {None, job[w].deal}
  \/ /\ pc[w] = "keying" /\ job'[w].msg = job[w].msg
     /\ job'[w].key = DealOf(job[w].msg) /\ job'[w].deal = job[w].deal
  \/ /\ pc[w] = "loading" /\ job'[w].msg = job[w].msg /\ job'[w].key = job[w].key
     /\ job'[w].deal \in {job[w].key, DealOf(job[w].msg)}
  \/ pc'[w] \notin KeyedPC /\ job'[w].deal = None

\* Every step of a worker is one of these, and moves no other worker.
LEMMA WorkerGoes ==
  ASSUME HoldInv, NEW w \in Worker,
         Work(w) \/ Mishap(w) \/ \E i \in DOMAIN msgs : Receive(w, i)
  PROVE  Goes(w) /\ \A v \in Worker : v # w => pc'[v] = pc[v] /\ job'[v] = job[v]
<1>0. /\ job[w] \in Job /\ Knows(w) /\ job \in [Worker -> Job]
      /\ pc \in [Worker -> {"idle"} \cup EarlyPC \cup HoldPC]
  BY DEF HoldInv, WorkInv
<1>1. "idle" \notin KeyedPC /\ "keying" \notin KeyedPC /\ NoJob.deal = None
  BY DEF KeyedPC, HoldPC, PassPC, NoJob
<1>2. ASSUME Leave(w)
      PROVE  Goes(w) /\ \A v \in Worker : v # w => pc'[v] = pc[v] /\ job'[v] = job[v]
  BY <1>0, <1>1, <1>2 DEF Leave, Goes
<1> USE DEF Job, Go, Goes
<1>3. CASE \/ NoParent(w) \/ MarkPending(w) \/ Release(w) \/ AcquireRaises(w)
           \/ RaiseEarly(w) \/ ReleaseFails(w) \/ Crash(w)
  <2>1. Leave(w)
    BY <1>3 DEF NoParent, MarkPending, Release, Return, AcquireRaises, RaiseEarly,
       ReleaseFails, Crash
  <2> QED BY <2>1, <1>2
<1>4. ASSUME NEW i \in DOMAIN msgs, Receive(w, i)
      PROVE  Goes(w) /\ \A v \in Worker : v # w => pc'[v] = pc[v] /\ job'[v] = job[v]
  BY <1>0, <1>1, <1>4 DEF Receive, Knows, PassPC
<1>5. CASE ResolveKey(w)
  BY <1>0, <1>5 DEF ResolveKey
<1>6. CASE Acquire(w) \/ AcquireUnseen(w) \/ PutRejected(w)
  BY <1>0, <1>6 DEF Acquire, AcquireUnseen, PutRejected, Put, KeyedPC
<1>7. CASE Load(w)
  BY <1>0, <1>7 DEF Load
<1>8. CASE FindAndGo(w) \/ Fetch(w) \/ DrainDone(w)
  BY <1>0, <1>8 DEF FindAndGo, Fetch, DrainDone, KeyedPC, HoldPC, PassPC
<1>9. CASE FindAndSkip(w) \/ Write(w) \/ EndUnwritten(w) \/ RaiseInHandler(w)
  <2> DEFINE j == [job[w] EXCEPT !.full = FALSE, !.deal = None,
                                 !.seen = Never, !.stage = "off"]
             k == [job[w] EXCEPT !.raised = TRUE, !.full = FALSE, !.deal = None,
                                 !.seen = Never, !.stage = "off"]
  <2>1. /\ j.msg = job[w].msg /\ j.key = job[w].key /\ j.deal = None
        /\ k.msg = job[w].msg /\ k.key = job[w].key /\ k.deal = None
    BY <1>0
  <2>2. job' = [job EXCEPT ![w] = j] \/ job' = [job EXCEPT ![w] = k]
    BY <1>9 DEF FindAndSkip, Write, EndUnwritten, EndPass, RaiseInHandler
  <2>3. pc[w] \in KeyedPC /\ \E p \in HoldPC : pc' = [pc EXCEPT ![w] = p]
    BY <1>9 DEF FindAndSkip, Write, EndUnwritten, MayEndUnwritten, RaiseInHandler, Go,
       KeyedPC, HoldPC, PassPC
  <2> HIDE DEF j, k
  <2> QED BY <1>0, <2>1, <2>2, <2>3
<1>10. CASE ConsumePending(w) \/ ConsumeUnseen(w)
  BY <1>0, <1>10 DEF ConsumePending, ConsumeUnseen, Consume, KeyedPC, HoldPC, PassPC
<1> HIDE DEF Job, Go, Goes
<1> QED BY <1>3, <1>4, <1>5, <1>6, <1>7, <1>8, <1>9, <1>10 DEF Work, Mishap

\* Without moves, the deal of a message stays its deal.
LEMMA DealsStay ==
  ASSUME "move" \notin Faults, HoldInv, [Next]_vars
  PROVE  /\ parent' = parent
         /\ \A i \in DOMAIN msgs : /\ i \in DOMAIN msgs' /\ About(i)' = About(i)
                                  /\ DealOf(i)' = DealOf(i) /\ IsDeal(i)' = IsDeal(i)
<1>1. MessagesKept
  BY StepMessages
<1>2. parent' = parent
  BY DEF Next, vars, Edit, EditDeal, EditLine, MoveLine, Take, Receive, Work, Mishap,
     ResolveKey, Acquire, PutRejected, MarkPending, Load, FindAndGo, FindAndSkip,
     Fetch, Write, ConsumePending, DrainDone, Release, Return, Consume,
     AcquireUnseen, AcquireRaises, NoParent, RaiseEarly,
     EndUnwritten, RaiseInHandler, ConsumeUnseen,
     ReleaseFails, Crash, Lapse, Sweep, Duplicate
<1> QED BY <1>1, <1>2 DEF MessagesKept, DealOf, IsDeal, About

\* So a resolved key stays the deal of its message.
LEMMA StepKeyInv ==
  ASSUME "move" \notin Faults
  PROVE  HoldInv /\ KeyInv /\ [Next]_vars => KeyInv'
<1> SUFFICES ASSUME HoldInv, KeyInv, [Next]_vars PROVE KeyInv'
  OBVIOUS
<1>1. \A i \in DOMAIN msgs : DealOf(i)' = DealOf(i)
  BY DealsStay
<1>2. \A w \in Worker : Goes(w) \/ (pc'[w] = pc[w] /\ job'[w] = job[w])
  <2>1. CASE Take \/ \E w \in Worker : Work(w) \/ Mishap(w)
    BY <2>1, WorkerGoes DEF Take
  <2>2. CASE \/ Edit \/ UNCHANGED vars \/ (\E d \in Deal : Lapse(d) \/ Sweep(d))
             \/ \E i \in DOMAIN msgs : Duplicate(i)
    BY <2>2 DEF Edit, EditDeal, EditLine, MoveLine, Emit, Lapse, Sweep, Duplicate, vars
  <2> QED BY <2>1, <2>2 DEF Next
<1>3. ASSUME NEW w \in Worker PROVE KeyOf(w)'
  <2>1. KeyOf(w) /\ Knows(w)
    BY DEF KeyInv, KeyOf, HoldInv, WorkInv
  <2>2. CASE Goes(w)
    BY <1>1, <2>1, <2>2 DEF Goes, KeyOf, Knows, KeyedPC, HoldPC, PassPC
  <2>3. CASE pc'[w] = pc[w] /\ job'[w] = job[w]
    BY <1>1, <2>1, <2>3 DEF KeyOf, Knows, KeyedPC, HoldPC, PassPC
  <2> QED BY <1>2, <2>2, <2>3
<1> QED BY <1>3 DEF KeyInv, KeyOf

\* Distinct keys are distinct invoices.
LEMMA KeysExclude == HoldInv /\ KeyInv => SingleWriter
<1> SUFFICES ASSUME HoldInv, KeyInv, NEW v \in Worker, NEW w \in Worker, v # w,
                    job[v].deal # None, job[w].deal # None
             PROVE  job[v].deal # job[w].deal
  BY DEF SingleWriter
<1>1. pc[v] \in PassPC /\ pc[w] \in PassPC
  BY DEF HoldInv, WorkInv, Knows
<1>2. InCS(v) /\ InCS(w)
  BY <1>1 DEF InCS, HoldPC
<1>3. job[v].key # job[w].key
  BY <1>2 DEF HoldInv, KeysDistinct
<1> QED BY <1>3 DEF KeyInv

\* At the start there are no keys.
LEMMA InitKeyInv == Init => KeyInv
  BY DEF Init, KeyInv, NoJob, KeyedPC, HoldPC, PassPC

\* "Two events that touch the same NetSuite invoice never run concurrently"
\* (locks.py:3): no two workers are at work on the invoice of one deal, as
\* long as no line item moves from deal to deal between two lookups.
THEOREM SingleWriterHolds ==
  ASSUME "move" \notin Faults
  PROVE  Spec => []SingleWriter
<1>1. HoldInv /\ KeyInv /\ [Next]_vars => (HoldInv /\ KeyInv)'
  BY StepHoldInv, StepKeyInv
<1> QED BY <1>1, KeysExclude, InitHoldInv, InitKeyInv, PTL DEF Spec

-----------------------------------------------------------------------------
(* Versions: refinement of the invoice register                            *)

\* At the start every invoice shows its deal.
LEMMA InitVersionInv == Init => VersionInv
<1> SUFFICES ASSUME Init PROVE VersionInv
  OBVIOUS
<1>1. [fields |-> 1, lines |-> 1] \in [fields : Nat, lines : Nat]
  OBVIOUS
<1>2. invoice \in [Deal -> [fields : Nat, lines : Nat] \cup {None}]
  BY <1>1 DEF Init
<1>3. ASSUME NEW d \in Deal
      PROVE  /\ crm[d].fields = 1 /\ crm[d].lines = 1
             /\ invoice[d] # None => invoice[d].fields = 1 /\ invoice[d].lines = 1
  BY <1>3 DEF Init
<1>4. \A w \in Worker : job[w].deal = None
  BY DEF Init, NoJob
<1> QED BY <1>2, <1>3, <1>4 DEF VersionInv, Sees, Between

\* The versions of an edited deal only grow.
LEMMA EditGrows ==
  ASSUME HoldInv, VersionInv, Edit
  PROVE  /\ \A d \in Deal : /\ crm'[d].fields \in Nat /\ crm'[d].lines \in Nat
                            /\ crm'[d].fields >= crm[d].fields
                            /\ crm'[d].lines >= crm[d].lines
         /\ invoice' = invoice /\ pc' = pc /\ job' = job
<1>1. crm \in [Deal -> HubSpotDeal] /\ parent \in [LineItem -> Deal]
  BY DEF HoldInv, Data, HubSpotDeal
<1>2. invoice' = invoice /\ pc' = pc /\ job' = job
  BY DEF Edit, EditDeal, EditLine, MoveLine, Emit
<1>3. ASSUME NEW d \in Deal
      PROVE  /\ crm'[d].fields \in Nat /\ crm'[d].lines \in Nat
             /\ crm'[d].fields >= crm[d].fields
             /\ crm'[d].lines >= crm[d].lines
  <2>1. crm[d].fields \in Nat /\ crm[d].lines \in Nat
    BY <1>1 DEF HubSpotDeal
  <2>2. ASSUME NEW e \in Deal, NEW stage \in Stages, EditDeal(e, stage)
        PROVE  /\ crm'[d].fields \in {crm[d].fields, crm[d].fields + 1}
               /\ crm'[d].lines = crm[d].lines
    BY <1>1, <2>2 DEF EditDeal, HubSpotDeal
  <2>3. ASSUME NEW l \in LineItem, EditLine(l)
        PROVE  /\ crm'[d].fields = crm[d].fields
               /\ crm'[d].lines \in {crm[d].lines, crm[d].lines + 1}
    BY <1>1, <2>3 DEF EditLine, HubSpotDeal
  <2>4. ASSUME NEW l \in LineItem, NEW e \in Deal, MoveLine(l, e)
        PROVE  /\ crm'[d].fields = crm[d].fields
               /\ crm'[d].lines \in {crm[d].lines, crm[d].lines + 1}
    BY <1>1, <2>4 DEF MoveLine, HubSpotDeal
  <2> QED BY <2>1, <2>2, <2>3, <2>4 DEF Edit
<1> QED BY <1>2, <1>3

\* What the invoice shows, in numbers.
LEMMA ShownTypes ==
  ASSUME HoldInv, VersionInv, NEW d \in Deal
  PROVE  /\ crm[d].fields \in Nat /\ crm[d].lines \in Nat
         /\ invoice[d] \in [fields : Nat, lines : Nat] \cup {None}
         /\ Register!Shown(d).fields \in 0 .. crm[d].fields
         /\ Register!Shown(d).lines \in 0 .. crm[d].lines
         /\ invoice[d] # None =>
              /\ invoice[d].fields \in Nat /\ invoice[d].lines \in Nat
              /\ Register!Shown(d) = invoice[d]
<1>1. /\ crm[d].fields \in Nat /\ crm[d].lines \in Nat
      /\ invoice[d] \in [fields : Nat, lines : Nat] \cup {None}
  BY DEF HoldInv, Data, VersionInv
<1>2. CASE invoice[d] = None
  BY <1>1, <1>2 DEF Register!Shown
<1>3. CASE invoice[d] # None
  <2>1. invoice[d].fields \in Nat /\ invoice[d].lines \in Nat
    BY <1>1, <1>3
  <2> QED BY <1>1, <1>3, <2>1 DEF Register!Shown, VersionInv, Between
<1> QED BY <1>1, <1>2, <1>3

\* What a worker has read stays good while nobody else writes its invoice.
LEMMA StillSees ==
  ASSUME HoldInv, VersionInv, NEW v \in Worker,
         pc'[v] = pc[v], job'[v] = job[v],
         job[v].deal # None => invoice'[job[v].deal] = invoice[job[v].deal],
         \A d \in Deal : /\ crm'[d].fields \in Nat /\ crm'[d].lines \in Nat
                        /\ crm'[d].fields >= crm[d].fields
                        /\ crm'[d].lines >= crm[d].lines
  PROVE  Sees(v)'
<1> SUFFICES ASSUME job[v].deal # None PROVE Sees(v)'
  BY DEF Sees
<1> DEFINE d == job[v].deal
<1>1. d \in Deal /\ job[v].seen.fields \in Nat /\ job[v].seen.lines \in Nat
  BY DEF HoldInv, WorkInv, Job
<1>2. Register!Shown(d)' = Register!Shown(d)
  BY DEF Register!Shown
<1>3. /\ crm[d].fields \in Nat /\ crm[d].lines \in Nat
      /\ Register!Shown(d).fields \in Nat /\ Register!Shown(d).lines \in Nat
  BY <1>1, ShownTypes
<1>4. Sees(v)
  BY DEF VersionInv
<1> QED BY <1>1, <1>2, <1>3, <1>4 DEF Sees, Between

\* What a write shows: no version is older than the one shown before, none
\* is newer than the deal's.
LEMMA WriteMovesOn ==
  ASSUME HoldInv, VersionInv, NEW w \in Worker, Write(w)
  PROVE  \E d \in Deal : \E f \in 1 .. crm[d].fields, l \in 1 .. crm[d].lines :
           /\ d = job[w].deal
           /\ Register!Shown(d).fields <= f /\ Register!Shown(d).lines <= l
           /\ invoice' = [invoice EXCEPT ![d] = [fields |-> f, lines |-> l]]
<1> DEFINE d == job[w].deal
           seen == job[w].seen
<1>1. job[w] \in Job /\ Knows(w) /\ Sees(w) /\ pc[w] = "writing"
  BY DEF HoldInv, WorkInv, VersionInv, Write, Go
<1>2. d \in Deal /\ seen \in [fields : Nat, lines : Nat] /\ job[w].full \in BOOLEAN
  BY <1>1, NoneAssumption DEF Knows, PassPC, Job
<1>3. d # None
  BY <1>2
<1>4. /\ crm[d].fields \in Nat /\ crm[d].lines \in Nat
      /\ Register!Shown(d).fields \in Nat /\ Register!Shown(d).lines \in Nat
      /\ invoice[d] \in [fields : Nat, lines : Nat] \cup {None}
      /\ invoice[d] # None => Register!Shown(d) = invoice[d]
  BY <1>2, ShownTypes
<1>5. Between(Register!Shown(d).lines, seen.lines, crm[d].lines)
  BY <1>1, <1>3 DEF Sees
<1>6. CASE job[w].full
  <2>1. invoice' = [invoice EXCEPT ![d] = seen]
    BY <1>6 DEF Write
  <2>2. seen = [fields |-> seen.fields, lines |-> seen.lines]
    BY <1>2
  <2>3. Between(Register!Shown(d).fields, seen.fields, crm[d].fields)
    BY <1>1, <1>3, <1>6 DEF Sees
  <2> HIDE DEF seen, d
  <2>4. seen.fields \in 1 .. crm[d].fields /\ seen.lines \in 1 .. crm[d].lines
    BY <1>2, <1>4, <1>5, <2>3 DEF Between
  <2>5. /\ Register!Shown(d).fields <= seen.fields
        /\ Register!Shown(d).lines <= seen.lines
    BY <1>5, <2>3 DEF Between
  <2>6. invoice' = [invoice EXCEPT ![d] = [fields |-> seen.fields, lines |-> seen.lines]]
    BY <2>1, <2>2
  <2> QED BY <1>2, <2>4, <2>5, <2>6 DEF d
<1>7. CASE ~job[w].full
  <2>1. invoice[d] # None
    BY <1>1, <1>3, <1>7 DEF Sees
  <2>2. invoice[d] = [fields |-> invoice[d].fields, lines |-> invoice[d].lines]
    BY <1>4, <2>1
  <2>3. invoice' = [invoice EXCEPT ![d] = [@ EXCEPT !.lines = seen.lines]]
    BY <1>7 DEF Write
  <2>4. [invoice[d] EXCEPT !.lines = seen.lines]
          = [fields |-> invoice[d].fields, lines |-> seen.lines]
    BY <1>4, <2>1
  <2> HIDE DEF seen
  <2>5. invoice[d].fields \in 1 .. crm[d].fields /\ seen.lines \in 1 .. crm[d].lines
    BY <1>2, <1>4, <1>5, <2>1 DEF Between, VersionInv
  <2>6. /\ Register!Shown(d).fields <= invoice[d].fields
        /\ Register!Shown(d).lines <= seen.lines
    BY <1>4, <1>5, <2>1, <2>5 DEF Between
  <2>7. invoice' = [invoice EXCEPT ![d] =
                      [fields |-> invoice[d].fields, lines |-> seen.lines]]
    BY <2>3, <2>4
  <2> QED BY <1>2, <2>5, <2>6, <2>7
<1> QED BY <1>2, <1>6, <1>7

\* Only the writing step changes an invoice, and only an edit a deal.
LEMMA OnlyWrites ==
  ASSUME HoldInv, [Next]_vars
  PROVE  /\ (\E w \in Worker : Write(w)) \/ invoice' = invoice
         /\ Edit \/ crm' = crm
         /\ (\E w \in Worker : Work(w) \/ Mishap(w)) \/ Take \/ (pc' = pc /\ job' = job)
<1>1. CASE Edit
  BY <1>1 DEF Edit, EditDeal, EditLine, MoveLine, Emit
<1>2. CASE Take
  BY <1>2 DEF Take, Receive
<1>3. ASSUME NEW w \in Worker, Work(w) \/ Mishap(w)
      PROVE  (Write(w) \/ invoice' = invoice) /\ crm' = crm
  BY <1>3 DEF Work, Mishap, ResolveKey, Acquire, PutRejected, MarkPending, Load,
     FindAndGo, FindAndSkip, Fetch, Write, ConsumePending, DrainDone, Release,
     Return, Consume, AcquireUnseen, AcquireRaises, NoParent, RaiseEarly,
     EndUnwritten, RaiseInHandler,
     ConsumeUnseen, ReleaseFails, Crash
<1>4. CASE \/ UNCHANGED vars \/ (\E d \in Deal : Lapse(d) \/ Sweep(d))
           \/ \E i \in DOMAIN msgs : Duplicate(i)
  BY <1>4 DEF Lapse, Sweep, Duplicate, vars
<1> QED BY <1>1, <1>2, <1>3, <1>4 DEF Next

\* What the worker itself has read after its step.
LEMMA ReadsCurrent ==
  ASSUME HoldInv, KeyInv, VersionInv, NEW w \in Worker, ~Write(w),
         Work(w) \/ Mishap(w) \/ \E i \in DOMAIN msgs : Receive(w, i),
         crm' = crm, invoice' = invoice
  PROVE  Sees(w)'
<1>0. /\ job[w] \in Job /\ Knows(w) /\ Sees(w) /\ job \in [Worker -> Job]
      /\ pc \in [Worker -> {"idle"} \cup EarlyPC \cup HoldPC]
      /\ KeyOf(w)
  BY DEF HoldInv, WorkInv, VersionInv, KeyInv, KeyOf
<1>1. ASSUME job'[w].deal = None PROVE Sees(w)'
  BY <1>1 DEF Sees
<1>2. CASE pc[w] \notin PassPC
  <2>1. job[w].deal = None /\ pc[w] # "loading"
    BY <1>0, <1>2 DEF Knows, PassPC
  <2>2. job'[w].deal = None
    BY <2>1, WorkerGoes DEF Goes
  <2> QED BY <1>1, <2>2
<1>3. CASE Load(w)
  <2> DEFINE d == job[w].key
  <2>1. /\ pc'[w] = "finding" /\ pc[w] = "loading"
    BY <1>0, <1>3 DEF Load, Go
  <2>2. d \in Deal
    BY <1>0, <2>1 DEF Knows, KeyedPC, HoldPC, PassPC
  <2>3. CASE job[w].full
    <3>1. /\ job'[w].deal = d /\ job'[w].seen.fields = crm[d].fields
          /\ job'[w].key = d
      BY <1>0, <1>3, <2>3 DEF Load, Job
    <3>2. /\ crm[d].fields \in Nat /\ 1 <= crm[d].fields
          /\ Register!Shown(d).fields \in 0 .. crm[d].fields
          /\ Register!Shown(d)' = Register!Shown(d)
      BY <2>2, <3>1, ShownTypes DEF VersionInv, Register!Shown
    <3>3. job'[w].full = job[w].full
      BY <1>0, <1>3, <2>3 DEF Load, Job
    <3> QED BY <2>1, <2>3, <3>1, <3>2, <3>3 DEF Sees, Between
  <2>4. CASE ~job[w].full
    <3>1. ~job'[w].full
      BY <1>0, <1>3, <2>4 DEF Load, Job
    <3> QED BY <2>1, <3>1 DEF Sees
  <2> QED BY <2>3, <2>4
<1>4. CASE FindAndGo(w)
  <2>1. /\ pc'[w] = "fetching" /\ job' = job /\ pc[w] = "finding"
    BY <1>0, <1>4 DEF FindAndGo, Go
  <2>2. ~job[w].full => invoice[job[w].deal] # None
    BY <1>4 DEF FindAndGo, Found, Passes
  <2>3. Register!Shown(job[w].deal)' = Register!Shown(job[w].deal)
    BY <2>1 DEF Register!Shown
  <2> QED BY <1>0, <2>1, <2>2, <2>3 DEF Sees
<1>5. CASE Fetch(w)
  <2> DEFINE d == job[w].deal
  <2>1. /\ pc'[w] = "writing" /\ pc[w] = "fetching" /\ d \in Deal
    BY <1>0, <1>5 DEF Fetch, Go, Knows, PassPC
  <2>2. /\ job'[w].deal = d /\ job'[w].full = job[w].full
        /\ job'[w].seen.fields = job[w].seen.fields
        /\ job'[w].seen.lines = crm[d].lines
    BY <1>0, <1>5 DEF Fetch, Job
  <2>3. /\ crm[d].lines \in Nat /\ 1 <= crm[d].lines
        /\ Register!Shown(d).lines \in 0 .. crm[d].lines
        /\ Register!Shown(d)' = Register!Shown(d)
    BY <2>1, <2>2, ShownTypes DEF VersionInv, Register!Shown
  <2> QED BY <1>0, <2>1, <2>2, <2>3 DEF Sees, Between
<1>6. CASE FindAndSkip(w) \/ EndUnwritten(w) \/ RaiseInHandler(w) \/ Crash(w)
  <2> DEFINE j == [job[w] EXCEPT !.full = FALSE, !.deal = None,
                                 !.seen = Never, !.stage = "off"]
             k == [job[w] EXCEPT !.raised = TRUE, !.full = FALSE, !.deal = None,
                                 !.seen = Never, !.stage = "off"]
  <2>1. j.deal = None /\ k.deal = None /\ NoJob.deal = None
    BY <1>0 DEF Job, NoJob
  <2>2. \/ job' = [job EXCEPT ![w] = j] \/ job' = [job EXCEPT ![w] = k]
        \/ job' = [job EXCEPT ![w] = NoJob]
    BY <1>6 DEF FindAndSkip, EndUnwritten, EndPass, RaiseInHandler, Crash, Leave
  <2> HIDE DEF j, k
  <2>3. job'[w].deal = None
    BY <1>0, <2>1, <2>2
  <2> QED BY <1>1, <2>3
<1>7. CASE pc[w] \in PassPC
  <2>1. \/ FindAndGo(w) \/ Load(w) \/ Fetch(w) \/ FindAndSkip(w) \/ EndUnwritten(w)
        \/ RaiseInHandler(w) \/ Crash(w)
    BY <1>7 DEF Work, Mishap, ResolveKey, Acquire, PutRejected, MarkPending, Put,
       ConsumePending, DrainDone, Release, Return, Consume, Go, Receive,
       AcquireUnseen, AcquireRaises, NoParent, RaiseEarly, ConsumeUnseen,
       ReleaseFails, PassPC, EarlyPC
  <2> QED BY <2>1, <1>3, <1>4, <1>5, <1>6
<1> QED BY <1>2, <1>7

\* Nobody else writes the invoice of a deal that a worker has read, so what
\* it has read stays between the invoice and the deal.
LEMMA StepVersionInv ==
  ASSUME HoldInv, KeyInv, VersionInv, [Next]_vars
  PROVE  VersionInv'
<1>1. \A d \in Deal : /\ crm'[d].fields \in Nat /\ crm'[d].lines \in Nat
                     /\ crm'[d].fields >= crm[d].fields
                     /\ crm'[d].lines >= crm[d].lines
  <2>1. CASE Edit
    BY <2>1, EditGrows
  <2>2. CASE crm' = crm
    BY <2>2, ShownTypes
  <2> QED BY <2>1, <2>2, OnlyWrites
<1>2. ASSUME NEW w \in Worker, Write(w) PROVE VersionInv'
  <2>1. crm' = crm /\ pc[w] = "writing" /\ Knows(w)
    BY <1>2 DEF Write, Go, HoldInv, WorkInv
  <2>2. PICK d \in Deal : \E f \in 1 .. crm[d].fields, l \in 1 .. crm[d].lines :
          /\ d = job[w].deal
          /\ invoice' = [invoice EXCEPT ![d] = [fields |-> f, lines |-> l]]
    BY <1>2, WriteMovesOn
  <2>3. PICK f \in 1 .. crm[d].fields, l \in 1 .. crm[d].lines :
          invoice' = [invoice EXCEPT ![d] = [fields |-> f, lines |-> l]]
    BY <2>2
  <2> DEFINE x == [fields |-> f, lines |-> l]
  <2>4. /\ x \in [fields : Nat, lines : Nat] /\ x.fields = f /\ x.lines = l
        /\ crm[d].fields \in Nat /\ crm[d].lines \in Nat
    BY ShownTypes
  <2>5. invoice \in [Deal -> [fields : Nat, lines : Nat] \cup {None}]
    BY DEF VersionInv
  <2>6. invoice' = [invoice EXCEPT ![d] = x]
    BY <2>3
  <2> HIDE DEF x
  <2>7. /\ invoice' \in [Deal -> [fields : Nat, lines : Nat] \cup {None}]
        /\ invoice'[d] = x
        /\ \A e \in Deal : e # d => invoice'[e] = invoice[e]
    BY <2>4, <2>5, <2>6
  <2>8. ASSUME NEW e \in Deal
        PROVE  /\ 1 <= crm'[e].fields /\ 1 <= crm'[e].lines
               /\ invoice'[e] # None =>
                    /\ Between(1, invoice'[e].fields, crm'[e].fields)
                    /\ Between(1, invoice'[e].lines, crm'[e].lines)
    <3>1. CASE e = d
      BY <2>1, <2>4, <2>7, <3>1 DEF Between, VersionInv
    <3>2. CASE e # d
      BY <2>1, <2>7, <3>2 DEF VersionInv
    <3> QED BY <3>1, <3>2
  <2>9. ASSUME NEW v \in Worker PROVE Sees(v)'
    <3>1. CASE v = w
      <4> DEFINE j == [job[w] EXCEPT !.full = FALSE, !.deal = None,
                                     !.seen = Never, !.stage = "off"]
      <4>1. j.deal = None /\ job' = [job EXCEPT ![w] = j]
        BY <1>2 DEF Write, EndPass, HoldInv, WorkInv, Job
      <4> HIDE DEF j
      <4>2. job'[w].deal = None
        BY <4>1 DEF HoldInv, WorkInv
      <4> QED BY <3>1, <4>2 DEF Sees
    <3>2. CASE v # w
      <4>1. pc'[v] = pc[v] /\ job'[v] = job[v]
        BY <1>2, <3>2, WorkerGoes DEF Work
      <4>2. job[v].deal # None => job[v].deal \in Deal /\ job[v].deal # d
        <5>1. job[v].deal \in Deal \cup {None} /\ d # None
          BY DEF HoldInv, WorkInv, Job
        <5>2. SingleWriter
          BY KeysExclude
        <5> QED BY <2>2, <3>2, <5>1, <5>2 DEF SingleWriter
      <4>3. job[v].deal # None => invoice'[job[v].deal] = invoice[job[v].deal]
        BY <2>7, <4>2
      <4> QED BY <1>1, <4>1, <4>3, StillSees
    <3> QED BY <3>1, <3>2
  <2> QED BY <2>7, <2>8, <2>9 DEF VersionInv
<1>3. CASE invoice' = invoice /\ ~\E w \in Worker : Write(w)
  <2>1. ASSUME NEW v \in Worker PROVE Sees(v)'
    <3>1. CASE pc'[v] = pc[v] /\ job'[v] = job[v]
      BY <1>1, <1>3, <3>1, StillSees
    <3>2. ASSUME NEW w \in Worker,
                 Work(w) \/ Mishap(w) \/ \E i \in DOMAIN msgs : Receive(w, i)
          PROVE  Sees(v)'
      <4>1. crm' = crm
        BY <3>2 DEF Work, Mishap, Receive, ResolveKey, Acquire, PutRejected,
           MarkPending, Load, FindAndGo, FindAndSkip, Fetch, Write, ConsumePending,
           DrainDone, Release, Return, Consume, AcquireUnseen, AcquireRaises,
           NoParent, RaiseEarly,
           EndUnwritten, RaiseInHandler, ConsumeUnseen, ReleaseFails, Crash
      <4>2. CASE v = w
        BY <1>3, <3>2, <4>1, <4>2, ReadsCurrent
      <4>3. CASE v # w
        BY <3>1, <3>2, <4>3, WorkerGoes
      <4> QED BY <4>2, <4>3
    <3> QED BY <3>1, <3>2, OnlyWrites DEF Take
  <2>2. ASSUME NEW d \in Deal
        PROVE  /\ 1 <= crm'[d].fields /\ 1 <= crm'[d].lines
               /\ invoice'[d] # None =>
                    /\ Between(1, invoice'[d].fields, crm'[d].fields)
                    /\ Between(1, invoice'[d].lines, crm'[d].lines)
    BY <1>1, <1>3, ShownTypes DEF VersionInv, Between
  <2> QED BY <1>3, <2>1, <2>2 DEF VersionInv
<1> QED BY <1>2, <1>3, OnlyWrites

\* An edit is an edit of the register, a write a sync, any other step nothing.
LEMMA StepRegister ==
  ASSUME HoldInv, VersionInv, [Next]_vars
  PROVE  [Register!Next]_<<[d \in Deal |-> Versions(d)], invoice>>
<1> DEFINE version == [d \in Deal |-> Versions(d)]
<1>1. CASE Edit
  <2>1. /\ invoice' = invoice
        /\ \A d \in Deal : /\ crm'[d].fields \in Nat /\ crm'[d].lines \in Nat
                           /\ crm'[d].fields >= crm[d].fields
                           /\ crm'[d].lines >= crm[d].lines
    BY <1>1, EditGrows
  <2>2. version' \in [Deal -> [fields : Nat, lines : Nat]]
    BY <2>1 DEF Versions
  <2>3. Register!Edit
    BY <2>1, <2>2 DEF Register!Edit, Versions
  <2> QED BY <2>3 DEF Register!Next
<1>2. ASSUME NEW w \in Worker, Write(w)
      PROVE  Register!Next
  <2>1. version' = version
    BY <1>2 DEF Write, Versions
  <2>2. PICK d \in Deal : \E f \in 1 .. crm[d].fields, l \in 1 .. crm[d].lines :
          /\ Register!Shown(d).fields <= f /\ Register!Shown(d).lines <= l
          /\ invoice' = [invoice EXCEPT ![d] = [fields |-> f, lines |-> l]]
    BY <1>2, WriteMovesOn
  <2>3. PICK f \in 1 .. crm[d].fields, l \in 1 .. crm[d].lines :
          /\ Register!Shown(d).fields <= f /\ Register!Shown(d).lines <= l
          /\ invoice' = [invoice EXCEPT ![d] = [fields |-> f, lines |-> l]]
    BY <2>2
  <2>4. version[d].fields = crm[d].fields /\ version[d].lines = crm[d].lines
    BY DEF Versions
  <2>5. f <= crm[d].fields /\ l <= crm[d].lines
    BY ShownTypes
  <2>6. Register!Shown(d).fields \in Nat /\ Register!Shown(d).lines \in Nat
    BY ShownTypes
  <2> HIDE DEF version
  <2>7. Register!Sync(d, f, l)
    BY <2>1, <2>3, <2>4, <2>5, <2>6 DEF Register!Sync, version
  <2> QED BY <2>4, <2>7 DEF Register!Next, version
<1>3. CASE invoice' = invoice /\ crm' = crm
  BY <1>3 DEF Versions
<1> QED BY <1>1, <1>2, <1>3, OnlyWrites

\* The pipeline implements InvoiceRegister: an invoice moves towards its deal
\* and never back, and shows only what the deal has had, as long as no line
\* item moves from deal to deal.
THEOREM ImplementsRegisterHolds ==
  ASSUME "move" \notin Faults
  PROVE  Spec => ImplementsRegister
<1>1. Init => Register!Init
  BY DEF Init, Register!Init, Versions
<1>2. HoldInv /\ KeyInv /\ VersionInv /\ [Next]_vars
        => (HoldInv /\ KeyInv /\ VersionInv)'
  BY StepHoldInv, StepKeyInv, StepVersionInv
<1>3. HoldInv /\ VersionInv /\ [Next]_vars
        => [Register!Next]_<<[d \in Deal |-> Versions(d)], invoice>>
  BY StepRegister
<1> QED
  BY <1>1, <1>2, <1>3, InitHoldInv, InitKeyInv, InitVersionInv, PTL
  DEF Spec, ImplementsRegister, Register!Spec

-----------------------------------------------------------------------------
(* Types: messages in one place, versions within their bound               *)

\* A worker keeps its message in hand, or leaves and SQS has it again.
Hands(w) ==
  /\ pc[w] # "idle"
  /\ \/ msgs' = msgs /\ pc'[w] # "idle" /\ job'[w].msg = job[w].msg
     \/ Leave(w) /\ msgs' \in {Failed(job[w].msg), Acked(job[w].msg)}

\* Every step of a worker is one of these.
LEMMA WorkerHands ==
  ASSUME HoldInv, NEW w \in Worker, Work(w) \/ Mishap(w)
  PROVE  Hands(w)
<1>0. /\ job[w] \in Job /\ Knows(w) /\ job \in [Worker -> Job]
      /\ pc \in [Worker -> {"idle"} \cup EarlyPC \cup HoldPC]
  BY DEF HoldInv, WorkInv
<1> USE DEF Job, Go, Hands
<1>1. CASE \/ NoParent(w) \/ MarkPending(w) \/ Release(w) \/ AcquireRaises(w)
           \/ RaiseEarly(w) \/ ReleaseFails(w) \/ Crash(w)
  BY <1>1 DEF NoParent, MarkPending, Release, Return, AcquireRaises, Put, RaiseEarly,
     ReleaseFails, Crash, EarlyPC
<1>2. CASE ResolveKey(w)
  BY <1>0, <1>2 DEF ResolveKey
<1>3. CASE Acquire(w) \/ AcquireUnseen(w) \/ PutRejected(w)
  BY <1>0, <1>3 DEF Acquire, AcquireUnseen, PutRejected
<1>4. CASE Load(w)
  BY <1>0, <1>4 DEF Load
<1>5. CASE FindAndGo(w) \/ Fetch(w) \/ DrainDone(w)
  BY <1>0, <1>5 DEF FindAndGo, Fetch, DrainDone
<1>6. CASE FindAndSkip(w) \/ Write(w) \/ EndUnwritten(w) \/ RaiseInHandler(w)
  <2> DEFINE j == [job[w] EXCEPT !.full = FALSE, !.deal = None,
                                 !.seen = Never, !.stage = "off"]
             k == [job[w] EXCEPT !.raised = TRUE, !.full = FALSE, !.deal = None,
                                 !.seen = Never, !.stage = "off"]
  <2>1. j.msg = job[w].msg /\ k.msg = job[w].msg
    BY <1>0
  <2>2. job' = [job EXCEPT ![w] = j] \/ job' = [job EXCEPT ![w] = k]
    BY <1>6 DEF FindAndSkip, Write, EndUnwritten, EndPass, RaiseInHandler
  <2>3. /\ pc[w] # "idle" /\ msgs' = msgs
        /\ pc' = [pc EXCEPT ![w] = "draining"] \/ pc' = [pc EXCEPT ![w] = "releasing"]
    BY <1>6 DEF FindAndSkip, Write, EndUnwritten, MayEndUnwritten, RaiseInHandler, PassPC
  <2> HIDE DEF j, k
  <2> QED BY <1>0, <2>1, <2>2, <2>3
<1>7. CASE ConsumePending(w) \/ ConsumeUnseen(w)
  BY <1>0, <1>7 DEF ConsumePending, ConsumeUnseen, Consume
<1> HIDE DEF Job, Go, Hands
<1> QED BY <1>1, <1>2, <1>3, <1>4, <1>5, <1>6, <1>7 DEF Work, Mishap

\* A message put into another place: where it is then, and that the others
\* stay where they were.
LEMMA PlacedAt ==
  ASSUME Data, NEW i \in DOMAIN msgs, NEW place \in Place,
         msgs' = [msgs EXCEPT ![i].at = place]
  PROVE  /\ Len(msgs') = Len(msgs) /\ DOMAIN msgs' = DOMAIN msgs
         /\ msgs'[i].at = place /\ msgs'[i].receives = msgs[i].receives
         /\ \A k \in DOMAIN msgs : k # i => msgs'[k] = msgs[k]
<1>1. msgs[i] \in Letter
  BY LetterType
<1>2. msgs \in Seq(Letter) /\ DOMAIN msgs = 1 .. Len(msgs) /\ Len(msgs) \in Nat
  BY LenProperties DEF Data
<1>3. DOMAIN msgs' = DOMAIN msgs /\ msgs' \in Seq(Letter)
  BY PlaceChanged
<1>4. DOMAIN msgs' = 1 .. Len(msgs') /\ Len(msgs') \in Nat
  BY <1>3, LenProperties
<1>5. msgs'[i].at = place /\ msgs'[i].receives = msgs[i].receives
  BY <1>1, <1>2 DEF Letter
<1>6. \A k \in DOMAIN msgs : k # i => msgs'[k] = msgs[k]
  BY <1>2
<1> QED BY <1>2, <1>3, <1>4, <1>5, <1>6

\* A message that is taken is in one pair of hands.
LEMMA StepMessageInv == HoldInv /\ MessageInv /\ [Next]_vars => MessageInv'
<1> SUFFICES ASSUME HoldInv, MessageInv, [Next]_vars PROVE MessageInv'
  OBVIOUS
<1>0. /\ Data /\ msgs \in Seq(Letter) /\ DOMAIN msgs = 1 .. Len(msgs) /\ Len(msgs) \in Nat
      /\ MaxReceives \in Nat
      /\ \A w \in Worker : pc[w] # "idle" => job[w].msg \in DOMAIN msgs
  BY LenProperties DEF HoldInv, Data, WorkInv, Knows
<1>1. CASE Edit
  <2>1. PICK about \in Deal \cup LineItem : Emit(about)
    BY <1>1 DEF Edit, EditDeal, EditLine, MoveLine
  <2> DEFINE x == [about |-> about, at |-> "queued", receives |-> 0]
  <2>2. x \in Letter /\ x.receives = 0 /\ msgs' = Append(msgs, x)
    BY <2>1 DEF Emit, Letter, Place
  <2> HIDE DEF x
  <2>3. /\ Len(msgs') = Len(msgs) + 1 /\ msgs'[Len(msgs) + 1] = x
        /\ \A i \in 1 .. Len(msgs) : msgs'[i] = msgs[i]
        /\ msgs' \in Seq(Letter)
    BY <1>0, <2>2, AppendProperties
  <2>4. DOMAIN msgs' = 1 .. Len(msgs) + 1
    BY <2>3, LenProperties
  <2>5. pc' = pc /\ job' = job /\ Len(msgs') <= MaxEdits
    BY <1>0, <2>1, <2>3 DEF Emit
  <2>6. ASSUME NEW i \in DOMAIN msgs'
        PROVE  /\ msgs'[i].receives <= MaxReceives
               /\ msgs'[i].at = "queued" => msgs'[i].receives < MaxReceives
    <3>1. CASE i = Len(msgs) + 1
      BY <1>0, <2>2, <2>3, <3>1
    <3>2. CASE i # Len(msgs) + 1
      <4>1. i \in DOMAIN msgs
        BY <1>0, <2>4, <3>2
      <4> QED BY <1>0, <2>3, <4>1 DEF MessageInv
    <3> QED BY <3>1, <3>2
  <2>7. \A w \in Worker : pc'[w] # "idle" => msgs'[job'[w].msg].at = "taken"
    BY <1>0, <2>3, <2>5 DEF MessageInv
  <2> QED BY <2>5, <2>6, <2>7 DEF MessageInv
<1>2. ASSUME NEW w \in Worker, NEW i \in DOMAIN msgs, Receive(w, i)
      PROVE  MessageInv'
  <2> DEFINE x == [about |-> msgs[i].about, at |-> "taken",
                   receives |-> msgs[i].receives + 1]
  <2>1. msgs[i] \in Letter /\ msgs[i].receives < MaxReceives /\ msgs[i].at = "queued"
    BY <1>0, <1>2, LetterType DEF Receive, MessageInv
  <2>2. x \in Letter /\ x.receives <= MaxReceives /\ x.at = "taken"
    BY <1>0, <2>1 DEF Letter, Place
  <2>3. msgs' = [msgs EXCEPT ![i] = x]
    BY <1>2 DEF Receive
  <2> HIDE DEF x
  <2>4. /\ Len(msgs') = Len(msgs) /\ msgs' \in Seq(Letter)
        /\ \A k \in DOMAIN msgs : msgs'[k] = IF k = i THEN x ELSE msgs[k]
    BY <1>0, <2>2, <2>3, ExceptSeq
  <2>5. DOMAIN msgs' = DOMAIN msgs
    BY <2>3
  <2>6. /\ \A v \in Worker : v # w => pc'[v] = pc[v] /\ job'[v] = job[v]
        /\ job'[w].msg = i
    BY <1>2, WorkerGoes DEF Receive, HoldInv, WorkInv, Job
  <2>7. \A v \in Worker : pc[v] # "idle" => job[v].msg # i
    BY <2>1 DEF MessageInv
  <2>8. \A v \in Worker : pc'[v] # "idle" => msgs'[job'[v].msg].at = "taken"
    BY <1>0, <2>2, <2>4, <2>6, <2>7 DEF MessageInv
  <2>9. \A u, v \in Worker :
          u # v /\ pc'[u] # "idle" /\ pc'[v] # "idle" => job'[u].msg # job'[v].msg
    BY <2>6, <2>7 DEF MessageInv
  <2>10. ASSUME NEW k \in DOMAIN msgs'
         PROVE  /\ msgs'[k].receives <= MaxReceives
                /\ msgs'[k].at = "queued" => msgs'[k].receives < MaxReceives
    BY <2>2, <2>4, <2>5 DEF MessageInv
  <2>11. Len(msgs') <= MaxEdits
    BY <2>4 DEF MessageInv
  <2> QED BY <2>8, <2>9, <2>10, <2>11 DEF MessageInv
<1>3. ASSUME NEW w \in Worker, Work(w) \/ Mishap(w) PROVE MessageInv'
  <2>1. Hands(w)
    BY <1>3, WorkerHands
  <2>2. \A v \in Worker : v # w => pc'[v] = pc[v] /\ job'[v] = job[v]
    BY <1>3, WorkerGoes
  <2>3. CASE msgs' = msgs /\ pc'[w] # "idle" /\ job'[w].msg = job[w].msg
    BY <2>1, <2>2, <2>3 DEF MessageInv, Hands
  <2>4. CASE Leave(w) /\ msgs' \in {Failed(job[w].msg), Acked(job[w].msg)}
    <3> DEFINE i == job[w].msg
    <3>1. i \in DOMAIN msgs /\ pc'[w] = "idle"
      BY <1>0, <2>1, <2>4 DEF Hands, Leave, HoldInv, WorkInv
    <3>2. PICK place \in Place :
            /\ msgs' = [msgs EXCEPT ![i].at = place]
            /\ place = "queued" => msgs[i].receives < MaxReceives
      <4>1. CASE msgs' = Failed(i)
        BY <4>1 DEF Failed, Place
      <4>2. CASE msgs' = Acked(i)
        BY <4>2 DEF Acked, Place
      <4> QED BY <2>4, <4>1, <4>2
    <3> HIDE DEF i
    <3>3. /\ Len(msgs') = Len(msgs) /\ DOMAIN msgs' = DOMAIN msgs
          /\ msgs'[i].at = place /\ msgs'[i].receives = msgs[i].receives
          /\ \A k \in DOMAIN msgs : k # i => msgs'[k] = msgs[k]
      BY <1>0, <3>1, <3>2, PlacedAt
    <3>4. \A v \in Worker : v # w /\ pc[v] # "idle" => job[v].msg # i
      BY <2>1 DEF MessageInv, Hands, i
    <3>5. \A v \in Worker : pc'[v] # "idle" => msgs'[job'[v].msg].at = "taken"
      BY <1>0, <2>2, <3>1, <3>3, <3>4 DEF MessageInv
    <3>6. \A u, v \in Worker :
            u # v /\ pc'[u] # "idle" /\ pc'[v] # "idle" => job'[u].msg # job'[v].msg
      BY <2>2, <3>1 DEF MessageInv
    <3>7. \A k \in DOMAIN msgs' : /\ msgs'[k].receives <= MaxReceives
                                /\ msgs'[k].at = "queued" => msgs'[k].receives < MaxReceives
      BY <3>2, <3>3 DEF MessageInv
    <3> QED BY <3>3, <3>5, <3>6, <3>7 DEF MessageInv
  <2> QED BY <2>1, <2>3, <2>4 DEF Hands
<1>4. ASSUME NEW i \in DOMAIN msgs, Duplicate(i) PROVE MessageInv'
  <2>1. /\ "queued" \in Place /\ msgs' = [msgs EXCEPT ![i].at = "queued"]
        /\ msgs[i].at = "acked" /\ msgs[i].receives < MaxReceives
        /\ pc' = pc /\ job' = job
    BY <1>4 DEF Duplicate, Place
  <2>2. /\ Len(msgs') = Len(msgs) /\ DOMAIN msgs' = DOMAIN msgs
        /\ msgs'[i].receives = msgs[i].receives
        /\ \A k \in DOMAIN msgs : k # i => msgs'[k] = msgs[k]
    BY <1>0, <2>1, PlacedAt
  <2>3. \A v \in Worker : pc[v] # "idle" => job[v].msg # i
    BY <2>1 DEF MessageInv
  <2>4. \A v \in Worker : pc'[v] # "idle" => msgs'[job'[v].msg].at = "taken"
    BY <1>0, <2>1, <2>2, <2>3 DEF MessageInv
  <2>5. \A u, v \in Worker :
          u # v /\ pc'[u] # "idle" /\ pc'[v] # "idle" => job'[u].msg # job'[v].msg
    BY <2>1 DEF MessageInv
  <2>6. \A k \in DOMAIN msgs' : /\ msgs'[k].receives <= MaxReceives
                              /\ msgs'[k].at = "queued" => msgs'[k].receives < MaxReceives
    BY <2>1, <2>2 DEF MessageInv
  <2> QED BY <2>2, <2>4, <2>5, <2>6 DEF MessageInv
<1>5. CASE UNCHANGED vars \/ \E d \in Deal : Lapse(d) \/ Sweep(d)
  <2>1. msgs' = msgs /\ pc' = pc /\ job' = job
    BY <1>5 DEF vars, Lapse, Sweep
  <2> QED BY <2>1 DEF MessageInv
<1> QED BY <1>1, <1>2, <1>3, <1>4, <1>5 DEF Next, Take

\* At the start there is no message.
LEMMA InitMessageInv == Init => MessageInv
  BY DEF Init, MessageInv

\* At the start every version is the first.
LEMMA InitBoundInv == Init => BoundInv
<1> SUFFICES ASSUME Init PROVE BoundInv
  OBVIOUS
<1>1. Len(msgs) = 0 /\ MaxEdits \in Nat
  BY DEF Init
<1>2. [fields |-> 1, lines |-> 1] \in Version /\ Never \in Version
  BY <1>1 DEF Version, Never
<1>3. invoice \in [Deal -> Version \cup {None}]
  BY <1>2 DEF Init
<1>4. \A d \in Deal : crm[d].fields = 1 /\ crm[d].lines = 1
  BY DEF Init
<1>5. lost \in [Deal -> Version]
  BY <1>2 DEF Init
<1>6. \A w \in Worker : pc[w] = "idle" /\ job[w] = NoJob /\ NoJob.seen \in Version
  BY <1>2 DEF Init, NoJob
<1> QED BY <1>1, <1>3, <1>4, <1>5, <1>6 DEF BoundInv

\* The versions of the deals are within the bound of the edits.
LEMMA VersionTypes ==
  ASSUME HoldInv, MessageInv, BoundInv
  PROVE  /\ \A d \in Deal : /\ crm[d].fields \in 1 .. MaxEdits + 1
                            /\ crm[d].lines \in 1 .. MaxEdits + 1
         /\ Len(msgs) \in Nat /\ Len(msgs) <= MaxEdits
<1>1. Len(msgs) \in Nat /\ Len(msgs) <= MaxEdits
  BY LenProperties DEF HoldInv, Data, MessageInv
<1> QED BY <1>1 DEF BoundInv

\* A destroyed wake-up is recorded by versions the deal has had.
LEMMA LostType ==
  ASSUME HoldInv, MessageInv, BoundInv, NEW fs, NEW ls, Lose(fs, ls)
  PROVE  lost' \in [Deal -> Version]
<1>1. \A d \in Deal : lost[d].fields \in 0 .. MaxEdits + 1 /\ lost[d].lines \in 0 .. MaxEdits + 1
  BY DEF BoundInv, Version
<1>2. \A d \in Deal : crm[d].fields \in 0 .. MaxEdits + 1 /\ crm[d].lines \in 0 .. MaxEdits + 1
  BY VersionTypes
<1>3. lost' = [d \in Deal |->
                 [fields |-> IF d \in fs THEN crm[d].fields ELSE lost[d].fields,
                  lines  |-> IF d \in ls THEN crm[d].lines ELSE lost[d].lines]]
  BY DEF Lose
<1>4. \A d \in Deal :
        [fields |-> IF d \in fs THEN crm[d].fields ELSE lost[d].fields,
         lines  |-> IF d \in ls THEN crm[d].lines ELSE lost[d].lines] \in Version
  BY <1>1, <1>2 DEF Version
<1> QED BY <1>3, <1>4

\* What is recorded as lost are versions.
LEMMA StepLost ==
  ASSUME HoldInv, MessageInv, BoundInv, [Next]_vars
  PROVE  lost' \in [Deal -> Version]
<1>1. CASE lost' = lost
  BY <1>1 DEF BoundInv
<1>2. CASE \E fs, ls : Lose(fs, ls)
  BY <1>2, LostType
<1>3. ASSUME NEW w \in Worker, Work(w) \/ Mishap(w)
      PROVE  lost' = lost \/ \E fs, ls : Lose(fs, ls)
  BY <1>3 DEF Work, Mishap, ResolveKey, Acquire, PutRejected, MarkPending, Load,
     FindAndGo, FindAndSkip, Fetch, Write, ConsumePending, DrainDone, Release,
     Return, Consume, AcquireUnseen, AcquireRaises, NoParent, RaiseEarly,
     EndUnwritten, RaiseInHandler,
     ConsumeUnseen, ReleaseFails, Crash
<1>4. ASSUME NEW d \in Deal, Lapse(d) \/ Sweep(d)
      PROVE  lost' = lost \/ \E fs, ls : Lose(fs, ls)
  BY <1>4 DEF Lapse, Sweep
<1>5. CASE \/ Edit \/ Take \/ UNCHANGED vars \/ \E i \in DOMAIN msgs : Duplicate(i)
  BY <1>1, <1>5 DEF Edit, EditDeal, EditLine, MoveLine, Emit, Take, Receive, vars, Duplicate
<1> QED BY <1>1, <1>2, <1>3, <1>4, <1>5 DEF Next

\* Every version a worker has read, or writes, is one of a deal's.
LEMMA StepSeen ==
  ASSUME HoldInv, MessageInv, BoundInv, NEW w \in Worker,
         Work(w) \/ Mishap(w) \/ \E i \in DOMAIN msgs : Receive(w, i)
  PROVE  /\ job'[w].seen \in Version
         /\ invoice' \in [Deal -> Version \cup {None}]
         /\ \A d \in Deal : invoice[d] # None => invoice'[d] # None
         /\ pc'[w] \in {"fetching", "writing"} /\ ~job'[w].full =>
              invoice[job'[w].deal] # None /\ job'[w].deal \in Deal
<1> DEFINE Goal ==
      /\ job'[w].seen \in Version
      /\ invoice' \in [Deal -> Version \cup {None}]
      /\ \A d \in Deal : invoice[d] # None => invoice'[d] # None
      /\ pc'[w] \in {"fetching", "writing"} /\ ~job'[w].full =>
           invoice[job'[w].deal] # None /\ job'[w].deal \in Deal
<1>0. /\ job[w] \in Job /\ Knows(w) /\ job \in [Worker -> Job]
      /\ pc \in [Worker -> {"idle"} \cup EarlyPC \cup HoldPC]
      /\ job[w].seen \in Version /\ invoice \in [Deal -> Version \cup {None}]
  BY DEF HoldInv, WorkInv, BoundInv
<1>1. Never \in Version
  BY DEF Version, Never
<1>2. ASSUME job'[w].seen \in Version, invoice' = invoice,
             pc'[w] \notin {"fetching", "writing"}
      PROVE  Goal
  BY <1>0, <1>2
<1>3. CASE \/ NoParent(w) \/ MarkPending(w) \/ Release(w) \/ AcquireRaises(w)
           \/ RaiseEarly(w) \/ ReleaseFails(w) \/ Crash(w)
  <2>1. Leave(w) /\ invoice' = invoice
    BY <1>3 DEF NoParent, MarkPending, Release, Return, AcquireRaises, RaiseEarly,
       ReleaseFails, Crash
  <2> QED BY <1>0, <1>1, <1>2, <2>1 DEF Leave, NoJob
<1>4. CASE \/ ResolveKey(w) \/ Acquire(w) \/ AcquireUnseen(w) \/ PutRejected(w)
           \/ DrainDone(w) \/ ConsumePending(w) \/ ConsumeUnseen(w)
           \/ \E i \in DOMAIN msgs : Receive(w, i)
  <2>1. job'[w].seen = job[w].seen
    BY <1>0, <1>4 DEF Job, ResolveKey, Acquire, AcquireUnseen, PutRejected, DrainDone,
       ConsumePending, ConsumeUnseen, Receive
  <2>2. invoice' = invoice /\ pc'[w] \notin {"fetching", "writing"}
    BY <1>0, <1>4 DEF ResolveKey, Acquire, AcquireUnseen, PutRejected, DrainDone,
       ConsumePending, ConsumeUnseen, Consume, Receive, Go
  <2> QED BY <1>0, <1>2, <2>1, <2>2
<1>5. CASE Load(w)
  <2>1. job[w].key \in Deal /\ pc'[w] = "finding" /\ invoice' = invoice
    BY <1>0, <1>5 DEF Load, Go, Knows, KeyedPC, HoldPC, PassPC
  <2>2. crm[job[w].key].fields \in 0 .. MaxEdits + 1
    BY <2>1, VersionTypes
  <2>3. job'[w].seen \in {job[w].seen, [job[w].seen EXCEPT !.fields = crm[job[w].key].fields]}
    BY <1>0, <1>5 DEF Load, Job
  <2>4. job'[w].seen \in Version
    BY <1>0, <2>2, <2>3 DEF Version
  <2> QED BY <1>2, <2>1, <2>4
<1>6. CASE FindAndGo(w)
  <2>1. job[w].deal \in Deal /\ job' = job /\ invoice' = invoice
    BY <1>0, <1>6 DEF FindAndGo, Go, Knows, PassPC
  <2>2. ~job[w].full => invoice[job[w].deal] # None
    BY <1>6 DEF FindAndGo, Found, Passes
  <2> QED BY <1>0, <2>1, <2>2
<1>7. CASE Fetch(w)
  <2>1. pc[w] = "fetching" /\ job[w].deal \in Deal /\ invoice' = invoice
    BY <1>0, <1>7 DEF Fetch, Go, Knows, PassPC
  <2>2. crm[job[w].deal].lines \in 0 .. MaxEdits + 1
    BY <2>1, VersionTypes
  <2>3. /\ job'[w].seen = [job[w].seen EXCEPT !.lines = crm[job[w].deal].lines]
        /\ job'[w].deal = job[w].deal /\ job'[w].full = job[w].full
    BY <1>0, <1>7 DEF Fetch, Job
  <2>4. job'[w].seen \in Version
    BY <1>0, <2>2, <2>3 DEF Version
  <2>5. ~job[w].full => invoice[job[w].deal] # None
    BY <2>1 DEF BoundInv
  <2> QED BY <1>0, <2>1, <2>3, <2>4, <2>5
<1>8. ASSUME FindAndSkip(w) \/ EndUnwritten(w) \/ RaiseInHandler(w) \/ Write(w)
      PROVE  job'[w].seen = Never /\ pc'[w] \notin {"fetching", "writing"}
  <2> DEFINE j == [job[w] EXCEPT !.full = FALSE, !.deal = None,
                                 !.seen = Never, !.stage = "off"]
             k == [job[w] EXCEPT !.raised = TRUE, !.full = FALSE, !.deal = None,
                                 !.seen = Never, !.stage = "off"]
  <2>1. j.seen = Never /\ k.seen = Never
    BY <1>0 DEF Job
  <2>2. job' = [job EXCEPT ![w] = j] \/ job' = [job EXCEPT ![w] = k]
    BY <1>8 DEF FindAndSkip, Write, EndUnwritten, EndPass, RaiseInHandler
  <2>3. pc' = [pc EXCEPT ![w] = "draining"] \/ pc' = [pc EXCEPT ![w] = "releasing"]
    BY <1>8 DEF FindAndSkip, Write, EndUnwritten, RaiseInHandler, Go
  <2> HIDE DEF j, k
  <2> QED BY <1>0, <2>1, <2>2, <2>3
<1>9. CASE FindAndSkip(w) \/ EndUnwritten(w) \/ RaiseInHandler(w)
  BY <1>1, <1>2, <1>8, <1>9 DEF FindAndSkip, EndUnwritten, RaiseInHandler
<1>10. CASE Write(w)
  <2> DEFINE d == job[w].deal
             x == IF job[w].full THEN job[w].seen
                  ELSE [invoice[d] EXCEPT !.lines = job[w].seen.lines]
  <2>1. pc[w] = "writing" /\ d \in Deal
    BY <1>0, <1>10 DEF Write, Go, Knows, PassPC
  <2>2. invoice' = [invoice EXCEPT ![d] = x]
    BY <1>10 DEF Write
  <2>3. ~job[w].full => invoice[d] \in Version
    BY <1>0, <2>1 DEF BoundInv
  <2>4. job[w].seen.lines \in 0 .. MaxEdits + 1
    BY <1>0 DEF Version
  <2>5. x \in Version
    BY <1>0, <2>3, <2>4 DEF Version
  <2> HIDE DEF x, d
  <2>6. x # None
    <3>1. Version \subseteq [fields : Nat, lines : Nat]
      BY DEF Version
    <3> QED BY <2>5, <3>1
  <2> QED BY <1>0, <1>1, <1>8, <1>10, <2>1, <2>2, <2>5, <2>6
<1> QED BY <1>3, <1>4, <1>5, <1>6, <1>7, <1>9, <1>10 DEF Work, Mishap

\* An edit makes one version of a deal's fields and one of its lines at most,
\* and one message.
LEMMA StepCounts ==
  ASSUME HoldInv, BoundInv, [Next]_vars
  PROVE  \A d \in Deal : /\ crm'[d].fields \in 1 .. Len(msgs') + 1
                        /\ crm'[d].lines \in 1 .. Len(msgs') + 1
<1>0. /\ crm \in [Deal -> HubSpotDeal] /\ parent \in [LineItem -> Deal]
      /\ msgs \in Seq(Letter) /\ DOMAIN msgs = 1 .. Len(msgs) /\ Len(msgs) \in Nat
  BY LenProperties DEF HoldInv, Data, HubSpotDeal
<1>1. CASE Edit
  <2>1. Len(msgs') = Len(msgs) + 1
    <3>1. PICK about \in Deal \cup LineItem : Emit(about)
      BY <1>1 DEF Edit, EditDeal, EditLine, MoveLine
    <3> DEFINE x == [about |-> about, at |-> "queued", receives |-> 0]
    <3>2. x \in Letter /\ msgs' = Append(msgs, x)
      BY <3>1 DEF Emit, Letter, Place
    <3> HIDE DEF x
    <3> QED BY <1>0, <3>2, AppendProperties
  <2>2. ASSUME NEW d \in Deal
        PROVE  /\ crm'[d].fields \in {crm[d].fields, crm[d].fields + 1}
               /\ crm'[d].lines \in {crm[d].lines, crm[d].lines + 1}
    <3>1. ASSUME NEW e \in Deal, NEW stage \in Stages, EditDeal(e, stage)
          PROVE  /\ crm'[d].fields \in {crm[d].fields, crm[d].fields + 1}
                 /\ crm'[d].lines = crm[d].lines
      BY <1>0, <3>1 DEF EditDeal, HubSpotDeal
    <3>2. ASSUME NEW l \in LineItem, EditLine(l)
          PROVE  /\ crm'[d].fields = crm[d].fields
                 /\ crm'[d].lines \in {crm[d].lines, crm[d].lines + 1}
      BY <1>0, <3>2 DEF EditLine, HubSpotDeal
    <3>3. ASSUME NEW l \in LineItem, NEW e \in Deal, MoveLine(l, e)
          PROVE  /\ crm'[d].fields = crm[d].fields
                 /\ crm'[d].lines \in {crm[d].lines, crm[d].lines + 1}
      BY <1>0, <3>3 DEF MoveLine, HubSpotDeal
    <3> QED BY <1>1, <3>1, <3>2, <3>3 DEF Edit
  <2>3. ASSUME NEW d \in Deal
        PROVE  crm'[d].fields \in 1 .. Len(msgs') + 1 /\ crm'[d].lines \in 1 .. Len(msgs') + 1
    <3>1. crm[d].fields \in 1 .. Len(msgs) + 1 /\ crm[d].lines \in 1 .. Len(msgs) + 1
      BY DEF BoundInv
    <3>2. ASSUME NEW n \in Nat, NEW v \in 1 .. n + 1, NEW x \in {v, v + 1}
          PROVE  x \in 1 .. (n + 1) + 1
      OBVIOUS
    <3>3. crm'[d].fields \in 1 .. (Len(msgs) + 1) + 1
      BY <1>0, <2>2, <3>1, <3>2
    <3>4. crm'[d].lines \in 1 .. (Len(msgs) + 1) + 1
      BY <1>0, <2>2, <3>1, <3>2
    <3> QED BY <2>1, <3>3, <3>4
  <2> QED BY <2>3
<1>2. CASE crm' = crm
  <2>1. MessagesKept
    BY StepMessages
  <2>2. DOMAIN msgs' = 1 .. Len(msgs') /\ Len(msgs') \in Nat
    BY <2>1, LenProperties DEF MessagesKept
  <2>3. Len(msgs) <= Len(msgs')
    BY <1>0, <2>1, <2>2 DEF MessagesKept
  <2> QED BY <1>0, <1>2, <2>2, <2>3 DEF BoundInv
<1> QED BY <1>1, <1>2, OnlyWrites

\* Versions stay within the number of edits, and an invoice stays one.
LEMMA StepBoundInv == HoldInv /\ MessageInv /\ BoundInv /\ [Next]_vars => BoundInv'
<1> SUFFICES ASSUME HoldInv, MessageInv, BoundInv, [Next]_vars PROVE BoundInv'
  OBVIOUS
<1>0. HoldInv' /\ (\A v \in Worker : Knows(v)') /\ NoJob.msg = 0 /\ 0 \notin DOMAIN msgs'
  <2>1. HoldInv'
    BY StepHoldInv
  <2>2. DOMAIN msgs' = 1 .. Len(msgs')
    BY <2>1, LenProperties DEF HoldInv, Data
  <2> QED BY <2>1, <2>2 DEF HoldInv, WorkInv, NoJob
<1>1. lost' \in [Deal -> Version]
  BY StepLost
<1>2. ASSUME NEW w \in Worker,
             Work(w) \/ Mishap(w) \/ \E i \in DOMAIN msgs : Receive(w, i)
      PROVE  /\ invoice' \in [Deal -> Version \cup {None}]
             /\ \A v \in Worker :
                  /\ job'[v].seen \in Version
                  /\ pc'[v] = "idle" <=> job'[v] = NoJob
                  /\ pc'[v] \in {"fetching", "writing"} /\ ~job'[v].full =>
                       invoice'[job'[v].deal] # None
  <2>1. /\ job'[w].seen \in Version
        /\ invoice' \in [Deal -> Version \cup {None}]
        /\ \A d \in Deal : invoice[d] # None => invoice'[d] # None
        /\ pc'[w] \in {"fetching", "writing"} /\ ~job'[w].full =>
             invoice[job'[w].deal] # None /\ job'[w].deal \in Deal
    BY <1>2, StepSeen
  <2>2. \A v \in Worker : v # w => pc'[v] = pc[v] /\ job'[v] = job[v]
    BY <1>2, WorkerGoes
  <2>3. pc'[w] = "idle" => job'[w] = NoJob
    <3>1. CASE Work(w) \/ Mishap(w)
      BY <3>1, WorkerHands DEF Hands, Leave, HoldInv, WorkInv
    <3>2. ASSUME NEW i \in DOMAIN msgs, Receive(w, i) PROVE pc'[w] # "idle"
      BY <3>2 DEF Receive, HoldInv, WorkInv
    <3> QED BY <1>2, <3>1, <3>2
  <2>4. pc'[w] # "idle" => job'[w] # NoJob
    BY <1>0 DEF Knows
  <2>5. ASSUME NEW v \in Worker, v # w
        PROVE  /\ job'[v].seen \in Version
               /\ pc'[v] = "idle" <=> job'[v] = NoJob
               /\ pc'[v] \in {"fetching", "writing"} /\ ~job'[v].full =>
                    invoice'[job'[v].deal] # None
    <3>1. pc[v] \in {"fetching", "writing"} => job[v].deal \in Deal
      BY DEF HoldInv, WorkInv, Knows, PassPC
    <3> QED BY <2>1, <2>2, <2>5, <3>1 DEF BoundInv
  <2> QED BY <2>1, <2>3, <2>4, <2>5
<1>3. CASE invoice' = invoice /\ pc' = pc /\ job' = job
  BY <1>1, <1>3, StepCounts DEF BoundInv
<1>4. ASSUME NEW w \in Worker,
             Work(w) \/ Mishap(w) \/ \E i \in DOMAIN msgs : Receive(w, i)
      PROVE  BoundInv'
  BY <1>1, <1>2, <1>4, StepCounts DEF BoundInv
<1> QED BY <1>3, <1>4, OnlyWrites DEF Take, Write, Work

\* TypeOK for every instance of the constants and every fault: the bounds
\* are those of the edits and of maxReceiveCount.
THEOREM TypeCorrect == Spec => []TypeOK
<1>1. HoldInv /\ MessageInv /\ BoundInv => TypeOK
  <2> SUFFICES ASSUME HoldInv, MessageInv, BoundInv PROVE TypeOK
    OBVIOUS
  <2>1. crm \in [Deal -> [fields : 1 .. MaxEdits + 1, lines : 1 .. MaxEdits + 1,
                          stage : Stages]]
    <3>1. ASSUME NEW d \in Deal
          PROVE  crm[d] \in [fields : 1 .. MaxEdits + 1, lines : 1 .. MaxEdits + 1,
                             stage : Stages]
      <4>1. crm[d] \in [fields : Nat, lines : Nat, stage : Stages]
        BY DEF HoldInv, Data
      <4>2. crm[d].fields \in 1 .. MaxEdits + 1 /\ crm[d].lines \in 1 .. MaxEdits + 1
        BY VersionTypes
      <4> QED BY <4>1, <4>2
    <3> QED BY <3>1 DEF HoldInv, Data
  <2>2. \A i \in DOMAIN msgs : msgs[i] \in Message
    <3>1. ASSUME NEW i \in DOMAIN msgs PROVE msgs[i] \in Message
      <4>1. msgs[i] \in Letter
        BY LetterType DEF HoldInv
      <4>2. msgs[i].receives \in 0 .. MaxReceives
        BY <4>1 DEF MessageInv, Letter
      <4> QED BY <4>1, <4>2 DEF Letter, Message, Place
    <3> QED BY <3>1
  <2>3. \A d \in Deal : table[d] # None =>
          table[d].owner \in Token /\ table[d].pending \in BOOLEAN
    BY DEF HoldInv, Data, Row
  <2>4. \A w \in Worker : InCS(w) => job[w].key \in Deal /\ job[w].token \in Token
    BY OthersKeys
  <2>5. \A v, w \in Worker : v # w /\ pc[v] # "idle" => job[v].msg # job[w].msg
    <3>1. \A v, w \in Worker : pc[v] # "idle" /\ pc[w] = "idle" => job[v].msg # job[w].msg
      <4>1. NoJob.msg = 0 /\ 0 \notin DOMAIN msgs
        BY LenProperties DEF NoJob, HoldInv, Data
      <4> QED BY <4>1 DEF BoundInv, HoldInv, WorkInv, Knows
    <3> QED BY <3>1 DEF MessageInv
  <2>6. /\ parent \in [LineItem -> Deal]
        /\ pc \in [Worker -> {"idle"} \cup EarlyPC \cup HoldPC]
    BY DEF HoldInv, Data, WorkInv
  <2> QED BY <2>1, <2>2, <2>3, <2>4, <2>5, <2>6 DEF TypeOK, MessageInv, BoundInv
<1>2. HoldInv /\ MessageInv /\ BoundInv /\ [Next]_vars
        => (HoldInv /\ MessageInv /\ BoundInv)'
  BY StepHoldInv, StepMessageInv, StepBoundInv
<1> QED BY <1>1, <1>2, InitHoldInv, InitMessageInv, InitBoundInv, PTL DEF Spec
=============================================================================
