--------------------------- MODULE SyncLockProofs ---------------------------
(***************************************************************************)
(* Proofs about SyncLock for every set of workers and keys, every timeout, *)
(* lease and clock skew.  TypeOK and the facts about clocks hold for any   *)
(* lease; mutual exclusion, through the invariant LeaseInv, and the        *)
(* refinement of DealMutex need LeaseLongEnough.                           *)
(***************************************************************************)
EXTENDS SyncLock, LockTableProofs

USE DurationAssumption

LEMMA InitTypeOK == Init => TypeOK
  BY DEF Init, TypeOK, PC, Active

\* The type invariant: every action of every worker, and of time and
\* DynamoDB, keeps the variables in their types, a worker past its lock-key
\* resolution has a key and one past try_acquire's first line a token.
LEMMA StepTypeOK == TypeOK /\ [Next]_vars => TypeOK'
<1> SUFFICES ASSUME TypeOK, [Next]_vars PROVE TypeOK'
  OBVIOUS
<1> USE DEF TypeOK, PC, Active
<1>1. CASE Tick
  BY <1>1 DEF Tick, local
<1>2. ASSUME NEW k \in Key, Sweep(k) PROVE TypeOK'
  BY <1>2 DEF Sweep, local
<1>3. ASSUME NEW w \in Worker, Step(w) PROVE TypeOK'
  <2>1. ASSUME NEW k \in Key, Invoke(w, k) PROVE TypeOK'
    BY <2>1 DEF Invoke, Goto
  <2>2. ASSUME NEW t \in Token, NEW c \in Shows(now), SampleClock(w, t, c)
        PROVE  TypeOK'
    BY <2>2 DEF SampleClock, Goto, Shows
  <2>3. ASSUME Put(w) PROVE table' \in [Key -> Row \cup {None}]
    <3>1. /\ key[w] \in Key /\ token[w] \in Token
          /\ clock[w] \in Int /\ TTL \in Int
      BY <2>3 DEF Put
    <3>2. HeldRow(token[w], clock[w], TTL) \in Row
      BY <3>1, HeldRowType
    <3> QED BY <2>3, <3>2 DEF Put
  <2>4. CASE Acquire(w)
    BY <2>3, <2>4 DEF Acquire, Put, Goto, local
  <2>5. CASE AcquireUnseen(w)
    BY <2>3, <2>5 DEF AcquireUnseen, Put, Goto, local
  <2>6. CASE AcquireRaises(w)
    BY <2>3, <2>6 DEF AcquireRaises, Put, Leave, Forget
  <2>7. CASE PutRejected(w)
    BY <2>7 DEF PutRejected, Goto, local
  <2>8. CASE RaiseBeforeHold(w)
    BY <2>8 DEF RaiseBeforeHold, Leave, Forget
  <2>9. CASE MarkPending(w)
    <3>1. table' \in [Key -> Row \cup {None}]
      BY <2>9, MarkedKeeps DEF MarkPending
    <3> QED BY <2>9, <3>1 DEF MarkPending, Leave, Forget
  <2>10. CASE FinishReconcile(w)
    BY <2>10 DEF FinishReconcile, Goto, local
  <2>11. CASE RaiseInHandler(w)
    BY <2>11 DEF RaiseInHandler, local
  <2>12. ASSUME Consume(w) PROVE table' \in [Key -> Row \cup {None}]
    BY <2>12, ConsumedKeeps DEF Consume, Consumable, OwnedBy
  <2>13. CASE ConsumePending(w)
    BY <2>12, <2>13 DEF ConsumePending, Consume, Goto, local
  <2>14. CASE ConsumeUnseen(w)
    BY <2>12, <2>14 DEF ConsumeUnseen, Consume, Goto, local
  <2>15. CASE DrainDone(w)
    BY <2>15 DEF DrainDone, Goto, local
  <2>16. CASE Release(w)
    <3>1. table' \in [Key -> Row \cup {None}]
      BY <2>16, ReleasedFenced DEF Release
    <3> QED BY <2>16, <3>1 DEF Release, Leave, Forget
  <2>17. CASE ReleaseFails(w)
    BY <2>17 DEF ReleaseFails, Leave, Forget
  <2>18. CASE Kill(w)
    BY <2>18 DEF Kill, Leave, Forget
  <2> QED
    BY <1>3, <2>1, <2>2, <2>4, <2>5, <2>6, <2>7, <2>8, <2>9, <2>10, <2>11,
       <2>13, <2>14, <2>15, <2>16, <2>17, <2>18 DEF Step
<1>4. CASE UNCHANGED vars
  BY <1>4 DEF vars
<1> QED BY <1>1, <1>2, <1>3, <1>4 DEF Next

\* TypeOK for every instance of the constants.
THEOREM TypeCorrect == Spec => []TypeOK
<1> QED BY InitTypeOK, StepTypeOK, PTL DEF Spec

-----------------------------------------------------------------------------
(* Time: what a worker knows of the clock, whatever the lease              *)

ClockInv == TypeOK /\ InTime /\ ClockRead

LEMMA InitClockInv == Init => ClockInv
  BY InitTypeOK DEF Init, ClockInv, InTime, ClockRead, Active

\* No invocation outlives its timeout, because time does not pass beyond it,
\* and a put carries a clock that was read during the invocation.
LEMMA StepClockInv == ClockInv /\ [Next]_vars => ClockInv'
<1> SUFFICES ASSUME ClockInv, [Next]_vars PROVE InTime' /\ ClockRead'
  BY StepTypeOK DEF ClockInv
<1>0. TypeOK'
  BY StepTypeOK DEF ClockInv
<1> USE DEF ClockInv, TypeOK, InTime, ClockRead, Active
<1>1. CASE Tick
  BY <1>1 DEF Tick, local
<1>2. ASSUME NEW k \in Key, Sweep(k) PROVE InTime' /\ ClockRead'
  BY <1>2 DEF Sweep, local
<1>3. ASSUME NEW w \in Worker, Step(w) PROVE InTime' /\ ClockRead'
  <2>1. ASSUME NEW k \in Key, Invoke(w, k) PROVE InTime' /\ ClockRead'
    BY <2>1 DEF Invoke, Goto
  <2>2. ASSUME NEW t \in Token, NEW c \in Shows(now), SampleClock(w, t, c)
        PROVE  InTime' /\ ClockRead'
    <3>1. c \in Int /\ now - MaxSkew <= c /\ c <= now + MaxSkew
      BY DEF Shows
    <3>2. start[w] - MaxSkew <= c
      BY <2>2, <3>1 DEF SampleClock, Goto
    <3> QED BY <2>2, <3>1, <3>2 DEF SampleClock, Goto
  <2>3. CASE \/ Acquire(w) \/ AcquireUnseen(w) \/ PutRejected(w)
             \/ FinishReconcile(w) \/ RaiseInHandler(w)
             \/ ConsumePending(w) \/ ConsumeUnseen(w) \/ DrainDone(w)
    <3>1. /\ now' = now /\ start' = start /\ clock' = clock
          /\ Active(w) /\ pc'[w] # "putting"
          /\ \A v \in Worker : v # w => pc'[v] = pc[v]
      BY <2>3 DEF Acquire, AcquireUnseen, PutRejected, FinishReconcile,
         RaiseInHandler, ConsumePending, ConsumeUnseen, DrainDone, Put,
         Consume, Goto, local
    <3> QED BY <3>1
  <2>4. CASE \/ AcquireRaises(w) \/ RaiseBeforeHold(w) \/ MarkPending(w)
             \/ Release(w) \/ ReleaseFails(w) \/ Kill(w)
    <3>1. now' = now /\ Leave(w)
      BY <2>4 DEF AcquireRaises, RaiseBeforeHold, MarkPending, Release,
         ReleaseFails, Kill, Put
    <3> QED BY <3>1 DEF Leave, Forget
  <2> QED BY <1>3, <2>1, <2>2, <2>3, <2>4 DEF Step
<1>4. CASE UNCHANGED vars
  BY <1>4 DEF vars
<1> QED BY <1>1, <1>2, <1>3, <1>4 DEF Next

-----------------------------------------------------------------------------
(* Fencing: no lease assumption                                            *)

LEMMA StepFenced == ClockInv /\ [Next]_vars => [Fenced]_vars
<1> SUFFICES ASSUME ClockInv, Next, NEW k \in Key,
                    table[k] # None, table[k].expiresAt >= now + MaxSkew
             PROVE  /\ \/ OwnedBy(table'[k], table[k].owner)
                       \/ OwnerIn(k, "releasing")
                    /\ table[k].pending =>
                         \/ table'[k] # None /\ table'[k].pending
                         \/ OwnerIn(k, "draining") \/ OwnerIn(k, "releasing")
  BY DEF Fenced
<1> DEFINE Kept == /\ table'[k] # None
                   /\ table'[k].owner = table[k].owner
                   /\ table[k].pending => table'[k].pending
<1>0. table[k] \in Row \cup {None}
  BY DEF ClockInv, TypeOK
<1>1. \/ Kept
      \/ OwnerIn(k, "releasing")
      \/ /\ OwnerIn(k, "draining")
         /\ OwnedBy(table'[k], table[k].owner)
  <2>1. ASSUME UNCHANGED table PROVE Kept
    BY <2>1
  <2>2. ASSUME NEW j \in Key, Sweep(j) PROVE Kept
    <3>1. j # k
      BY <2>2 DEF Sweep, ClockInv, TypeOK, Row
    <3> QED BY <2>2, <3>1 DEF Sweep, ClockInv, TypeOK
  <2>3. ASSUME NEW w \in Worker, Put(w) PROVE Kept
    <3>1. key[w] # k
      BY <2>3 DEF Put, Acquirable, ClockInv, ClockRead, TypeOK, Row
    <3> QED BY <2>3, <3>1 DEF Put, ClockInv, TypeOK
  <2>4. ASSUME NEW w \in Worker, MarkPending(w) PROVE Kept
    BY <1>0, <2>4, MarkedKeeps DEF MarkPending, ClockInv, TypeOK
  <2>5. ASSUME NEW w \in Worker, Consume(w)
        PROVE  \/ Kept
               \/ /\ OwnerIn(k, "draining")
                  /\ OwnedBy(table'[k], table[k].owner)
    <3>1. CASE key[w] = k
      <4>1. OwnerIn(k, "draining")
        BY <2>5, <3>1 DEF Consume, Consumable, OwnerIn
      <4>2. table'[k] = Consumed(table[k])
        BY <2>5, <3>1 DEF Consume, ClockInv, TypeOK
      <4> QED BY <1>0, <4>1, <4>2, ConsumedKeeps, NoneAssumption DEF OwnedBy
    <3>2. CASE key[w] # k
      BY <2>5, <3>2 DEF Consume, ClockInv, TypeOK
    <3> QED BY <3>1, <3>2
  <2>6. ASSUME NEW w \in Worker, Release(w)
        PROVE  Kept \/ OwnerIn(k, "releasing")
    <3>1. CASE key[w] = k /\ OwnedBy(table[k], token[w])
      BY <2>6, <3>1 DEF Release, OwnerIn
    <3>2. CASE key[w] = k /\ ~OwnedBy(table[k], token[w])
      BY <1>0, <2>6, <3>2, ReleasedFenced DEF Release, ClockInv, TypeOK
    <3>3. CASE key[w] # k
      BY <2>6, <3>3 DEF Release, ClockInv, TypeOK
    <3> QED BY <3>1, <3>2, <3>3
  <2>7. ASSUME NEW w \in Worker, Step(w)
        PROVE  \/ UNCHANGED table \/ Put(w) \/ MarkPending(w)
               \/ Consume(w) \/ Release(w)
    BY <2>7 DEF Step, Invoke, SampleClock, Acquire, AcquireUnseen,
       AcquireRaises, PutRejected, RaiseBeforeHold, FinishReconcile,
       RaiseInHandler, ConsumePending, ConsumeUnseen, DrainDone,
       ReleaseFails, Kill
  <2> QED BY <2>1, <2>2, <2>3, <2>4, <2>5, <2>6, <2>7 DEF Next, Tick
<1> QED BY <1>1 DEF OwnedBy

\* An unlapsed row loses its owner only to that owner's release, and its
\* pending flag only to that owner's consume or release.
THEOREM FencingHolds == Spec => FencedStep
<1> QED BY InitClockInv, StepClockInv, StepFenced, PTL DEF Spec, FencedStep

-----------------------------------------------------------------------------
(* Mutual exclusion, with a lease longer than an invocation                *)

LEMMA InitLeaseInv == Init => LeaseInv
  BY InitClockInv DEF Init, LeaseInv, ClockInv, Lease, TokensDistinct, InCS

\* The lease arithmetic: while a worker is in its critical section, no clock
\* in the system shows its row lapsed.
LEMMA LeaseUnlapsed ==
  ASSUME LeaseLongEnough, LeaseInv
  PROVE  HolderOwnsRow
<1> SUFFICES ASSUME NEW w \in Worker, InCS(w)
             PROVE  /\ OwnedBy(table[key[w]], token[w])
                    /\ table[key[w]].expiresAt >= now + MaxSkew
  BY DEF HolderOwnsRow
<1>1. /\ now \in Nat /\ start[w] \in Nat /\ now <= start[w] + Timeout
      /\ key[w] \in Key
  BY DEF LeaseInv, InTime, InCS, Active, TypeOK
<1>2. /\ OwnedBy(table[key[w]], token[w])
      /\ table[key[w]].expiresAt >= start[w] - MaxSkew + TTL
  BY DEF LeaseInv, Lease
<1>3. table[key[w]].expiresAt \in Int
  BY <1>1, <1>2 DEF LeaseInv, TypeOK, OwnedBy, Row
<1> QED BY <1>1, <1>2, <1>3 DEF LeaseLongEnough

\* Tokens stay distinct: only SampleClock issues one, and it is fresh.
LEMMA StepTokensDistinct ==
  TypeOK /\ TokensDistinct /\ [Next]_vars => TokensDistinct'
<1> SUFFICES ASSUME TypeOK, TokensDistinct, [Next]_vars PROVE TokensDistinct'
  OBVIOUS
<1> USE DEF TypeOK, TokensDistinct
<1>1. CASE UNCHANGED token
  BY <1>1
<1>2. ASSUME NEW w \in Worker, Leave(w) PROVE TokensDistinct'
  BY <1>2 DEF Leave, Forget
<1>3. ASSUME NEW w \in Worker, NEW t \in Token, NEW c \in Shows(now),
             SampleClock(w, t, c)
      PROVE  TokensDistinct'
  BY <1>3 DEF SampleClock, Fresh
<1>4. ASSUME NEW w \in Worker, Step(w) PROVE TokensDistinct'
  BY <1>1, <1>2, <1>3, <1>4 DEF Step, Invoke, Acquire, AcquireUnseen,
     AcquireRaises, PutRejected, RaiseBeforeHold, MarkPending,
     FinishReconcile, RaiseInHandler, ConsumePending, ConsumeUnseen,
     DrainDone, Release, ReleaseFails, Kill, Put, Consume, local
<1> QED BY <1>1, <1>4 DEF Next, Tick, Sweep, local, vars

\* No step of anybody takes a row from the worker that is in its critical
\* section, except that worker's own departure.
LEMMA RowKept ==
  ASSUME LeaseLongEnough, LeaseInv, Next,
         NEW v \in Worker, InCS(v), pc'[v] # "idle"
  PROVE  /\ OwnedBy(table'[key[v]], token[v])
         /\ table'[key[v]].expiresAt = table[key[v]].expiresAt
<1> DEFINE k == key[v]
           Kept == /\ OwnedBy(table'[k], token[v])
                   /\ table'[k].expiresAt = table[k].expiresAt
<1>0. /\ TypeOK /\ k \in Key /\ token[v] \in Token /\ token[v] # None
      /\ table[k] \in Row \cup {None}
  BY NoneAssumption DEF LeaseInv, TypeOK, InCS, Active
<1>1. /\ OwnedBy(table[k], token[v]) /\ table[k] # None
      /\ table[k].expiresAt \in Int
      /\ table[k].expiresAt >= now + MaxSkew
  BY <1>0, LeaseUnlapsed DEF HolderOwnsRow, OwnedBy, Row
<1>2. ASSUME UNCHANGED table PROVE Kept
  BY <1>1, <1>2
<1>3. ASSUME NEW j \in Key, Sweep(j) PROVE Kept
  <2>1. j # k
    BY <1>0, <1>1, <1>3 DEF Sweep, TypeOK
  <2> QED BY <1>0, <1>1, <1>3, <2>1 DEF Sweep, TypeOK
<1>4. ASSUME NEW w \in Worker, Put(w) PROVE Kept
  <2>1. key[w] # k
    BY <1>0, <1>1, <1>4 DEF Put, Acquirable, LeaseInv, ClockRead, TypeOK
  <2> QED BY <1>0, <1>1, <1>4, <2>1 DEF Put, TypeOK
<1>5. ASSUME NEW w \in Worker, MarkPending(w) PROVE Kept
  BY <1>0, <1>1, <1>5, MarkedKeeps DEF MarkPending, TypeOK
<1>6. ASSUME NEW w \in Worker, Consume(w) PROVE Kept
  BY <1>0, <1>1, <1>6, ConsumedKeeps DEF Consume, TypeOK
<1>7. ASSUME NEW w \in Worker, Release(w) PROVE Kept
  <2>1. w # v
    BY <1>0, <1>7 DEF Release, Leave, TypeOK
  <2>2. CASE key[w] = k
    <3>1. ~OwnedBy(table[k], token[w])
      BY <1>0, <1>1, <2>1 DEF LeaseInv, TokensDistinct, OwnedBy
    <3> QED BY <1>0, <1>1, <1>7, <2>2, <3>1, ReleasedFenced DEF Release, TypeOK
  <2>3. CASE key[w] # k
    BY <1>0, <1>1, <1>7, <2>3 DEF Release, TypeOK
  <2> QED BY <2>2, <2>3
<1>8. ASSUME NEW w \in Worker, Step(w)
      PROVE  \/ UNCHANGED table \/ Put(w) \/ MarkPending(w)
             \/ Consume(w) \/ Release(w)
  BY <1>8 DEF Step, Invoke, SampleClock, Acquire, AcquireUnseen,
     AcquireRaises, PutRejected, RaiseBeforeHold, FinishReconcile,
     RaiseInHandler, ConsumePending, ConsumeUnseen, DrainDone,
     ReleaseFails, Kill
<1> QED BY <1>2, <1>3, <1>4, <1>5, <1>6, <1>7, <1>8 DEF Next, Tick

LEMMA StepLease ==
  ASSUME LeaseLongEnough, LeaseInv, [Next]_vars
  PROVE  Lease'
<1>0. TypeOK /\ TypeOK'
  BY StepTypeOK DEF LeaseInv
<1> SUFFICES ASSUME Next, NEW v \in Worker, InCS(v)'
             PROVE  /\ OwnedBy(table'[key'[v]], token'[v])
                    /\ table'[key'[v]].expiresAt >= start'[v] - MaxSkew + TTL
  BY DEF LeaseInv, Lease, vars, InCS
<1> DEFINE Goal == /\ OwnedBy(table'[key'[v]], token'[v])
                   /\ table'[key'[v]].expiresAt >= start'[v] - MaxSkew + TTL
<1>1. ASSUME InCS(v), key'[v] = key[v], token'[v] = token[v], start'[v] = start[v]
      PROVE  Goal
  <2>1. pc'[v] # "idle"
    BY DEF InCS
  <2> QED BY <1>1, <2>1, RowKept DEF LeaseInv, Lease
<1>2. CASE Tick
  BY <1>1, <1>2 DEF Tick, local, InCS
<1>3. ASSUME NEW k \in Key, Sweep(k) PROVE Goal
  BY <1>1, <1>3 DEF Sweep, local, InCS
<1>4. ASSUME NEW w \in Worker, Step(w), w # v PROVE Goal
  <2>1. /\ pc'[v] = pc[v] /\ key'[v] = key[v] /\ token'[v] = token[v]
        /\ start'[v] = start[v]
    BY <1>0, <1>4 DEF TypeOK, Step, Invoke, SampleClock, Acquire,
       AcquireUnseen, AcquireRaises, PutRejected, RaiseBeforeHold,
       MarkPending, FinishReconcile, RaiseInHandler, ConsumePending,
       ConsumeUnseen, DrainDone, Release, ReleaseFails, Kill, Put, Consume,
       Goto, Leave, Forget, local
  <2> QED BY <1>1, <2>1 DEF InCS
<1>5. ASSUME Step(v) PROVE Goal
  <2>1. CASE Acquire(v)
    <3>1. /\ key[v] \in Key /\ token[v] \in Token /\ clock[v] \in Int
          /\ TTL \in Int /\ start[v] \in Nat
          /\ start[v] - MaxSkew <= clock[v]
      BY <1>0, <2>1 DEF Acquire, Goto, TypeOK, Active, LeaseInv, ClockRead
    <3>2. /\ table'[key[v]] = HeldRow(token[v], clock[v], TTL)
          /\ key' = key /\ token' = token /\ start' = start
      BY <1>0, <2>1, <3>1 DEF Acquire, Put, TypeOK, local
    <3>3. /\ OwnedBy(HeldRow(token[v], clock[v], TTL), token[v])
          /\ HeldRow(token[v], clock[v], TTL).expiresAt = clock[v] + TTL
      BY <3>1, HeldRowType
    <3>4. /\ OwnedBy(table'[key[v]], token[v])
          /\ table'[key[v]].expiresAt = clock[v] + TTL
      BY <3>2, <3>3
    <3>5. clock[v] + TTL >= start[v] - MaxSkew + TTL
      BY <3>1
    <3> QED BY <3>2, <3>4, <3>5
  <2>2. CASE \/ FinishReconcile(v) \/ RaiseInHandler(v) \/ ConsumePending(v)
             \/ ConsumeUnseen(v) \/ DrainDone(v)
    BY <1>1, <2>2 DEF FinishReconcile, RaiseInHandler, ConsumePending,
       ConsumeUnseen, DrainDone, Consume, Goto, local, InCS
  <2>3. CASE Step(v) /\ ~InCS(v)'
    BY <2>3
  <2> QED
    BY <1>0, <1>5, <2>1, <2>2, <2>3 DEF TypeOK, InCS, Step, Invoke,
       SampleClock, AcquireUnseen, AcquireRaises, PutRejected,
       RaiseBeforeHold, MarkPending, Release, ReleaseFails, Kill, Put, Goto,
       Leave
<1> QED BY <1>2, <1>3, <1>4, <1>5 DEF Next

LEMMA StepLeaseInv ==
  ASSUME LeaseLongEnough, LeaseInv, [Next]_vars
  PROVE  LeaseInv'
  BY StepClockInv, StepTokensDistinct, StepLease DEF LeaseInv, ClockInv

\* The inductive invariant: with a lease longer than an invocation, clocks
\* as far apart as they may be, a worker in its critical section owns an
\* unlapsed row.
THEOREM LeaseInvariant ==
  ASSUME LeaseLongEnough
  PROVE  Spec => []LeaseInv
<1>1. LeaseInv /\ [Next]_vars => LeaseInv'
  BY StepLeaseInv
<1> QED BY <1>1, InitLeaseInv, PTL DEF Spec

LEMMA LeaseInvExcludes == TypeOK /\ Lease /\ TokensDistinct => MutualExclusion
<1> SUFFICES ASSUME TypeOK, Lease, TokensDistinct,
                    NEW v \in Worker, NEW w \in Worker,
                    v # w, InCS(v), InCS(w), key[v] = key[w]
             PROVE  FALSE
  BY DEF MutualExclusion
<1>1. token[v] = token[w]
  BY DEF Lease, OwnedBy
<1>2. token[v] \in Token
  BY DEF TypeOK, InCS
<1> QED BY <1>1, <1>2, NoneAssumption DEF TokensDistinct

\* No two workers process one key at the same time.
THEOREM MutualExclusionHolds ==
  ASSUME LeaseLongEnough
  PROVE  Spec => []MutualExclusion
<1>1. LeaseInv => MutualExclusion
  BY LeaseInvExcludes DEF LeaseInv
<1> QED BY <1>1, LeaseInvariant, PTL

\* The holder's row is its own and unlapsed until it leaves.
THEOREM HolderOwnsRowHolds ==
  ASSUME LeaseLongEnough
  PROVE  Spec => []HolderOwnsRow
<1>1. LeaseInv => HolderOwnsRow
  BY LeaseUnlapsed
<1> QED BY <1>1, LeaseInvariant, PTL

-----------------------------------------------------------------------------
(* Refinement of the abstract mutex                                        *)

\* A worker's step either does not move it in or out of a critical section,
\* takes it out, or takes it in while nobody else is inside that key's.
LEMMA StepMutex ==
  ASSUME LeaseInv, MutualExclusion', Next
  PROVE  [Mutex!Next]_([w \in Worker |-> At(w)])
<1> DEFINE at == [w \in Worker |-> At(w)]
<1>0. TypeOK /\ TypeOK'
  BY StepTypeOK DEF LeaseInv
<1>1. CASE Tick \/ \E k \in Key : Sweep(k)
  BY <1>1 DEF Tick, Sweep, local, At, InCS
<1>2. ASSUME NEW w \in Worker, Step(w)
      PROVE  Mutex!Next \/ UNCHANGED at
  <2>1. \A v \in Worker : v # w => At(v)' = At(v)
    BY <1>0, <1>2 DEF TypeOK, Step, Invoke, SampleClock, Acquire,
       AcquireUnseen, AcquireRaises, PutRejected, RaiseBeforeHold,
       MarkPending, FinishReconcile, RaiseInHandler, ConsumePending,
       ConsumeUnseen, DrainDone, Release, ReleaseFails, Kill, Put, Consume,
       Goto, Leave, Forget, local, At, InCS
  <2>2. CASE At(w)' = At(w)
    BY <2>1, <2>2
  <2>3. at' = [at EXCEPT ![w] = At(w)']
    BY <2>1
  <2>4. CASE InCS(w) /\ ~InCS(w)'
    <3>1. At(w) # None /\ At(w)' = None
      BY <1>0, <2>4, NoKeyAssumption DEF At, TypeOK, InCS, Active
    <3>2. Mutex!Leave(w)
      BY <2>3, <3>1 DEF Mutex!Leave
    <3> QED BY <3>2 DEF Mutex!Next
  <2>5. CASE Acquire(w)
    <3>1. /\ At(w) = None /\ At(w)' = key[w] /\ key[w] \in Key
          /\ key'[w] = key[w] /\ InCS(w)'
      BY <1>0, <2>5 DEF Acquire, Goto, local, At, InCS, TypeOK, Active
    <3>2. \A v \in Worker : At(v) # key[w]
      <4> SUFFICES ASSUME NEW v \in Worker, v # w, At(v) = key[w] PROVE FALSE
        BY <3>1, NoKeyAssumption
      <4>1. InCS(v)' /\ key'[v] = key[w]
        BY <2>1, <3>1, NoKeyAssumption DEF At, InCS
      <4> QED BY <3>1, <4>1 DEF MutualExclusion
    <3>3. Mutex!Enter(w, key[w])
      BY <2>3, <3>1, <3>2 DEF Mutex!Enter
    <3> QED BY <3>1, <3>3 DEF Mutex!Next
  <2>6. CASE InCS(w) /\ InCS(w)' /\ key'[w] = key[w]
    BY <2>2, <2>6 DEF At
  <2>7. CASE ~InCS(w) /\ ~InCS(w)'
    BY <2>2, <2>7 DEF At
  <2> QED
    BY <1>0, <1>2, <2>4, <2>5, <2>6, <2>7 DEF TypeOK, Step, Invoke,
       SampleClock, AcquireUnseen, AcquireRaises, PutRejected,
       RaiseBeforeHold, MarkPending, FinishReconcile, RaiseInHandler,
       ConsumePending, ConsumeUnseen, DrainDone, Release, ReleaseFails, Kill,
       Put, Consume, Goto, Leave, Forget, local, InCS
<1> QED BY <1>1, <1>2 DEF Next

\* The lock of locks.py implements the abstract mutex.
THEOREM Refinement ==
  ASSUME LeaseLongEnough
  PROVE  Spec => ImplementsMutex
<1>1. Init => Mutex!Init
  BY DEF Init, Mutex!Init, At, InCS
<1>2. LeaseInv /\ MutualExclusion' /\ [Next]_vars
        => [Mutex!Next]_([w \in Worker |-> At(w)])
  BY StepMutex DEF vars, At, InCS
<1> QED
  BY <1>1, <1>2, LeaseInvariant, MutualExclusionHolds, PTL
  DEF Spec, ImplementsMutex, Mutex!Spec
=============================================================================
