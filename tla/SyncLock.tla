------------------------------ MODULE SyncLock ------------------------------
(***************************************************************************)
(* The per-deal lock of locks.py as process_webhook_message uses it, with  *)
(* time.  Workers are concurrent Lambda invocations: each takes one event, *)
(* resolves its key, tries to put the lock row, runs the handler, drains   *)
(* pending_resync and deletes the row.  Lambda kills an invocation at its  *)
(* timeout, and a killed worker's row stays until it lapses.               *)
(*                                                                         *)
(* What the handler does is CoalescedSync's subject; here it is only the   *)
(* time a worker spends between acquiring and releasing.  What matters     *)
(* here is which of try_acquire's steps are atomic: the clock is read      *)
(* first, the conditional put happens some time later, and botocore may    *)
(* report a put that was applied as rejected (it resends after a lost      *)
(* reply and the resend fails the condition) or as an error.               *)
(***************************************************************************)
EXTENDS LockTable

CONSTANTS
  Worker,    \* concurrent invocations of the processor function
  Key,       \* lock keys: deal ids and "venue:<id>" keys
  Timeout,   \* seconds Lambda lets an invocation run (template.yaml)
  TTL,       \* LOCK_TTL_SECONDS
  MaxSkew,   \* a worker's clock is this close to true time
  MaxNow     \* bound of the model: time stops here

ASSUME DurationAssumption ==
  Timeout \in Nat /\ TTL \in Nat /\ MaxSkew \in Nat /\ MaxNow \in Nat

ASSUME NoKeyAssumption == None \notin Key

VARIABLES
  now,     \* true time, in seconds
  table,   \* table[k] is the row of key k, or None
  pc,      \* where a worker is in process_webhook_message
  key,     \* the lock key it resolved
  token,   \* the owner token of its try_acquire
  clock,   \* the time it read before its put
  start    \* when its invocation began

vars  == <<now, table, pc, key, token, clock, start>>
local == <<key, token, clock, start>>

InCS(w) == pc[w] \in {"holding", "draining", "releasing"}
Active(w) == pc[w] # "idle"

PC == {"idle", "keyed", "putting", "busy", "holding", "draining", "releasing"}

\* a clock some worker can show at true time t
Shows(t) == (t - MaxSkew) .. (t + MaxSkew)

TypeOK ==
  /\ now \in Nat
  /\ table \in [Key -> Row \cup {None}]
  /\ pc \in [Worker -> PC]
  /\ key \in [Worker -> Key \cup {None}]
  /\ token \in [Worker -> Token \cup {None}]
  /\ clock \in [Worker -> Int]
  /\ start \in [Worker -> Nat]
  /\ \A w \in Worker : Active(w) => key[w] \in Key
  /\ \A w \in Worker : pc[w] \notin {"idle", "keyed"} => token[w] \in Token

Init ==
  /\ now = 0
  /\ table = [k \in Key |-> None]
  /\ pc = [w \in Worker |-> "idle"]
  /\ key = [w \in Worker |-> None]
  /\ token = [w \in Worker |-> None]
  /\ clock = [w \in Worker |-> 0]
  /\ start = [w \in Worker |-> 0]

-----------------------------------------------------------------------------
(* process_webhook_message, one step per call it makes on the table        *)

Goto(w, here, there) == pc[w] = here /\ pc' = [pc EXCEPT ![w] = there]

\* Back to waiting for an event: what the invocation knew is gone.
Forget(w) ==
  /\ key' = [key EXCEPT ![w] = None]
  /\ token' = [token EXCEPT ![w] = None]
  /\ clock' = [clock EXCEPT ![w] = 0]
  /\ start' = [start EXCEPT ![w] = 0]

Leave(w) == pc' = [pc EXCEPT ![w] = "idle"] /\ Forget(w)

\* An event arrives and its lock key is resolved.
Invoke(w, k) ==
  /\ Goto(w, "idle", "keyed")
  /\ key' = [key EXCEPT ![w] = k]
  /\ start' = [start EXCEPT ![w] = now]
  /\ UNCHANGED <<now, table, token, clock>>

\* Mutant: a token that another acquisition may carry.
FreshNot(t) == t \in Token

\* uuid4() never repeats a token that a row or a worker still carries.
Fresh(t) ==
  /\ \A v \in Worker : token[v] # t
  /\ \A k \in Key : ~OwnedBy(table[k], t)

\* token = uuid4().hex; now = int(time.time())
SampleClock(w, t, c) ==
  /\ Goto(w, "keyed", "putting")
  /\ Fresh(t)
  /\ token' = [token EXCEPT ![w] = t]
  /\ clock' = [clock EXCEPT ![w] = c]
  /\ UNCHANGED <<now, table, key, start>>

\* The conditional put is applied.
Put(w) ==
  /\ pc[w] = "putting"
  /\ Acquirable(table[key[w]], clock[w])
  /\ table' = [table EXCEPT ![key[w]] = HeldRow(token[w], clock[w], TTL)]
  /\ UNCHANGED now

Acquire(w) == Put(w) /\ Goto(w, "putting", "holding") /\ UNCHANGED local

\* The reply is lost, botocore resends, and the resend fails the condition
\* against the row that the first send put.
AcquireUnseen(w) == Put(w) /\ Goto(w, "putting", "busy") /\ UNCHANGED local

\* Every reply is lost: try_acquire raises, outside the try/finally.
AcquireRaises(w) == Put(w) /\ Leave(w)

PutRejected(w) ==
  /\ Goto(w, "putting", "busy")
  /\ ~Acquirable(table[key[w]], clock[w])
  /\ UNCHANGED <<now, table>> /\ UNCHANGED local

\* The line-item lookup, the put or mark_pending_resync raises.
RaiseBeforeHold(w) ==
  /\ pc[w] \in {"keyed", "putting", "busy"}
  /\ Leave(w)
  /\ UNCHANGED <<now, table>>

\* mark_pending_resync, and the message is acked.
MarkPending(w) ==
  /\ pc[w] = "busy"
  /\ table' = [table EXCEPT ![key[w]] = Marked(@)]
  /\ Leave(w)
  /\ UNCHANGED now

\* The handler, or a follow-up reconcile, returns.
FinishReconcile(w) ==
  /\ Goto(w, "holding", "draining")
  /\ UNCHANGED <<now, table>> /\ UNCHANGED local

\* The handler, a follow-up or consume_pending_resync raises: finally.
RaiseInHandler(w) ==
  /\ pc[w] \in {"holding", "draining"}
  /\ pc' = [pc EXCEPT ![w] = "releasing"]
  /\ UNCHANGED <<now, table>> /\ UNCHANGED local

Consume(w) ==
  /\ pc[w] = "draining"
  /\ Consumable(table[key[w]], token[w])
  /\ table' = [table EXCEPT ![key[w]] = Consumed(@)]
  /\ UNCHANGED now /\ UNCHANGED local

ConsumePending(w) == Consume(w) /\ Goto(w, "draining", "holding")

\* consume's reply is lost and its resend fails the condition, so it
\* returns False, or every resend is lost and it raises.
ConsumeUnseen(w) == Consume(w) /\ Goto(w, "draining", "releasing")

DrainDone(w) ==
  /\ Goto(w, "draining", "releasing")
  /\ ~Consumable(table[key[w]], token[w])
  /\ UNCHANGED <<now, table>> /\ UNCHANGED local

Release(w) ==
  /\ pc[w] = "releasing"
  /\ table' = [table EXCEPT ![key[w]] = Released(@, token[w])]
  /\ Leave(w)
  /\ UNCHANGED now

\* delete_item raises: _release logs that the row will expire via TTL.
ReleaseFails(w) ==
  /\ pc[w] = "releasing"
  /\ Leave(w)
  /\ UNCHANGED <<now, table>>

-----------------------------------------------------------------------------
(* Lambda, DynamoDB and time                                               *)

\* The timeout, a memory kill or a crash ends the invocation anywhere.
Kill(w) ==
  /\ Active(w)
  /\ Leave(w)
  /\ UNCHANGED <<now, table>>

\* Time passes; no invocation outlives Timeout.
Tick ==
  /\ now < MaxNow
  /\ \A w \in Worker : Active(w) => now < start[w] + Timeout
  /\ now' = now + 1
  /\ UNCHANGED <<table, pc>> /\ UNCHANGED local

\* DynamoDB's own TTL on expiresAt deletes a lapsed row at leisure.
Sweep(k) ==
  /\ table[k] # None
  /\ table[k].expiresAt < now + MaxSkew
  /\ table' = [table EXCEPT ![k] = None]
  /\ UNCHANGED <<now, pc>> /\ UNCHANGED local

Step(w) ==
  \/ \E k \in Key : Invoke(w, k)
  \/ \E t \in Token, c \in Shows(now) : SampleClock(w, t, c)
  \/ Acquire(w) \/ AcquireUnseen(w) \/ AcquireRaises(w) \/ PutRejected(w)
  \/ RaiseBeforeHold(w) \/ MarkPending(w)
  \/ FinishReconcile(w) \/ RaiseInHandler(w)
  \/ ConsumePending(w) \/ ConsumeUnseen(w) \/ DrainDone(w)
  \/ Release(w) \/ ReleaseFails(w) \/ Kill(w)

Next == Tick \/ (\E k \in Key : Sweep(k)) \/ \E w \in Worker : Step(w)

Spec == Init /\ [][Next]_vars

-----------------------------------------------------------------------------
(* What the lock promises                                                  *)

\* The lease outlives every invocation, clocks as far apart as they can be.
\* template.yaml and locks.py: 960 against 200 leaves 380 seconds of skew.
LeaseLongEnough == TTL >= Timeout + 2 * MaxSkew

\* Two events with the same key are never processed concurrently
\* (locks.py:3): no two workers are between acquiring and releasing one key.
MutualExclusion ==
  \A v, w \in Worker : v # w /\ InCS(v) /\ InCS(w) => key[v] # key[w]

\* The same, from the table's side: while a worker holds, the row of its key
\* is its own and no clock in the system shows it lapsed, so no put, sweep
\* or foreign delete can have touched it, and an event that finds it busy
\* has set pending_resync on a row that this worker will consume from.
HolderOwnsRow ==
  \A w \in Worker : InCS(w) =>
    /\ OwnedBy(table[key[w]], token[w])
    /\ table[key[w]].expiresAt >= now + MaxSkew

\* The worker that owns the row of k is at this point of its program.
OwnerIn(k, here) ==
  \E w \in Worker :
    key[w] = k /\ OwnedBy(table[k], token[w]) /\ pc[w] = here

\* A worker only ever deletes its own lock, never one that a later worker
\* re-acquired (locks.py:10-12): in a step, a row that no clock shows lapsed
\* keeps its owner unless that owner is releasing it, and keeps a pending
\* flag unless that owner is consuming it.  The lease may be of any length.
Fenced ==
  \A k \in Key :
    table[k] # None /\ table[k].expiresAt >= now + MaxSkew =>
      /\ \/ OwnedBy(table'[k], table[k].owner)
         \/ OwnerIn(k, "releasing")
      /\ table[k].pending =>
           \/ table'[k] # None /\ table'[k].pending
           \/ OwnerIn(k, "draining") \/ OwnerIn(k, "releasing")

FencedStep == [][Fenced]_vars

\* The key whose critical section w is in, and the mutex this implements.
At(w) == IF InCS(w) THEN key[w] ELSE None

Mutex == INSTANCE DealMutex
  WITH at <- [w \in Worker |-> At(w)], Nowhere <- None

ImplementsMutex == Mutex!Spec

-----------------------------------------------------------------------------
(* Why it does: the inductive invariant of SyncLockProofs                  *)

\* No invocation is older than its timeout.
InTime == \A w \in Worker : Active(w) => start[w] <= now /\ now <= start[w] + Timeout

\* The clock a put carries was read since the invocation began.
ClockRead ==
  \A w \in Worker : pc[w] = "putting" =>
    start[w] - MaxSkew <= clock[w] /\ clock[w] <= now + MaxSkew

\* A holder's row is its own, and expires TTL after a clock it read.
Lease ==
  \A w \in Worker : InCS(w) =>
    /\ OwnedBy(table[key[w]], token[w])
    /\ table[key[w]].expiresAt >= start[w] - MaxSkew + TTL

\* A token names one acquisition: no two workers carry the same one.
TokensDistinct ==
  \A v, w \in Worker : v # w /\ token[v] = token[w] => token[v] = None

LeaseInv == TypeOK /\ InTime /\ ClockRead /\ Lease /\ TokensDistinct
=============================================================================
