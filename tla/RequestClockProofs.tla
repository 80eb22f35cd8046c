-------------------------- MODULE RequestClockProofs --------------------------
(***************************************************************************)
(* Proofs about RequestClock for any timeouts, delays and token life that  *)
(* meet its assumptions: types, how long a request can take, and that only *)
(* a revoked token is refused.                                             *)
(***************************************************************************)
EXTENDS RequestClock, TLAPS

USE ClockAssumption, MarginAssumption, BackoffAssumption

LEMMA LeftType ==
  ASSUME NEW t \in 0 .. Life, NEW d \in Nat
  PROVE  /\ Left(t, d) \in 0 .. Life
         /\ \A u \in 0 .. Life : t <= u => Left(t, d) <= Left(u, d)
  BY DEF Left

\* A wait is no longer than the clamp before the third attempt.
LEMMA WaitBounds ==
  /\ \A n \in {1, 2} : Backoff(n) \in 0 .. RetryMax
  /\ \A n \in {1, 2} : Waits(n) \subseteq 0 .. RetryMax
  /\ Backoff(4) = 8 * Delay
<1>1. \A n \in {1, 2} : Backoff(n) \in 0 .. RetryMax
  BY DEF Backoff
<1>2. \A h \in Hints : ClampedWait(h) \in 0 .. RetryMax
  BY DEF ClampedWait
<1>3. Backoff(4) = 8 * Delay
  BY DEF Backoff
<1> QED BY <1>1, <1>2, <1>3 DEF Waits

LEMMA InitClockInv == Init => ClockInv
<1> SUFFICES ASSUME Init PROVE ClockInv
  OBVIOUS
<1>1. CountersOK
  BY DEF Init, CountersOK
<1>5. revoked \in BOOLEAN
  BY DEF Init
<1>2. TokenInv
  BY DEF Init, TokenInv
<1>3. 0 <= LongestRequest
  BY DEF LongestRequest
<1>4. SpentInv
  BY <1>3 DEF Init, SpentInv
<1> QED BY <1>1, <1>2, <1>4, <1>5 DEF ClockInv, TypeOK

\* The end of an attempt that is not the last one.
LEMMA NextAttempt ==
  ASSUME ClockInv, pc # "idle", attempt \in {0, 1},
         NEW d \in Lags, NEW wait \in 0 .. RetryMax,
         pc' = "token", attempt' = attempt + 1, Pass(d + wait),
         UNCHANGED revoked
  PROVE  ClockInv'
<1>1. d \in 1 .. CallMax /\ d + wait \in Nat /\ d + wait <= CallMax + RetryMax
  OBVIOUS
<1>2. /\ cached \in 0 .. Life /\ valid \in 0 .. Life /\ spent \in Nat
      /\ pc \in {"token", "calling"}
  BY DEF ClockInv, TypeOK, CountersOK
<1>3. spent <= attempt * AttemptMax + CallMax
  BY <1>2 DEF ClockInv, SpentInv, AttemptMax
<1>4. spent' = spent + (d + wait) /\ cached' = Left(cached, d + wait)
                                  /\ valid' = Left(valid, d + wait)
  BY DEF Pass, Age
<1>5. CountersOK'
  <2>1. cached' \in 0 .. Life /\ valid' \in 0 .. Life
    BY <1>1, <1>2, <1>4, LeftType
  <2>2. spent' \in Nat
    BY <1>1, <1>2, <1>4
  <2>3. attempt' \in {1, 2} /\ pc' = "token"
    OBVIOUS
  <2> QED BY <2>1, <2>2, <2>3 DEF CountersOK
<1>6. TokenInv'
  BY <1>1, <1>2, <1>4, LeftType DEF ClockInv, TokenInv
<1>7. SpentInv'
  BY <1>1, <1>2, <1>3, <1>4 DEF SpentInv, AttemptMax
<1>8. revoked' \in BOOLEAN
  BY DEF ClockInv, TypeOK
<1> QED BY <1>5, <1>6, <1>7, <1>8 DEF ClockInv, TypeOK

\* The end of a request.
LEMMA RequestOver ==
  ASSUME ClockInv, pc # "idle", NEW d \in Lags, NEW wait \in 0 .. 8 * Delay,
         pc' = "idle", attempt' \in {0, 1, 2, 4}, Pass(d + wait),
         UNCHANGED revoked
  PROVE  ClockInv'
<1>1. d \in 1 .. CallMax /\ d + wait \in Nat /\ d + wait <= CallMax + 8 * Delay
  OBVIOUS
<1>2. /\ cached \in 0 .. Life /\ valid \in 0 .. Life /\ spent \in Nat
      /\ pc \in {"token", "calling"} /\ attempt \in {0, 1, 2}
  BY DEF ClockInv, TypeOK, CountersOK
<1>3. spent <= attempt * AttemptMax + CallMax
  BY <1>2 DEF ClockInv, SpentInv, AttemptMax
<1>4. spent' = spent + (d + wait) /\ cached' = Left(cached, d + wait)
                                  /\ valid' = Left(valid, d + wait)
  BY DEF Pass, Age
<1>5. CountersOK'
  BY <1>1, <1>2, <1>4, LeftType DEF CountersOK
<1>6. TokenInv'
  BY <1>1, <1>2, <1>4, LeftType DEF ClockInv, TokenInv
<1>7. spent' <= LongestRequest
  BY <1>1, <1>2, <1>3, <1>4 DEF AttemptMax, LongestRequest
<1>8. revoked' \in BOOLEAN
  BY DEF ClockInv, TypeOK
<1>9. SpentInv'
  BY <1>7 DEF SpentInv
<1> QED BY <1>5, <1>6, <1>8, <1>9 DEF ClockInv, TypeOK

LEMMA FailKeeps ==
  ASSUME ClockInv, pc # "idle", NEW d \in Lags, Fail(d)
  PROVE  ClockInv'
<1>1. attempt \in {0, 1, 2} /\ d \in Nat
  BY DEF ClockInv, TypeOK, CountersOK
<1>2. CASE GivesUp
  <2>1. pc' = "idle" /\ Pass(d + 0) /\ attempt' = attempt /\ UNCHANGED revoked
    BY <1>1, <1>2 DEF Fail
  <2> QED BY <1>1, <2>1, RequestOver
<1>3. CASE ~GivesUp
  <2>1. attempt \in {0, 1}
    BY <1>1, <1>3 DEF GivesUp
  <2>2. Backoff(attempt + 1) \in 0 .. RetryMax
    BY <2>1, WaitBounds
  <2>3. /\ pc' = "token" /\ attempt' = attempt + 1
        /\ Pass(d + Backoff(attempt + 1)) /\ UNCHANGED revoked
    BY <1>3 DEF Fail
  <2> QED BY <2>1, <2>2, <2>3, NextAttempt
<1> QED BY <1>2, <1>3

LEMMA LimitedKeeps ==
  ASSUME ClockInv, NEW d \in Lags, Limited(d)
  PROVE  ClockInv'
<1>1. attempt \in {0, 1, 2} /\ pc # "idle"
  BY DEF ClockInv, TypeOK, CountersOK, Limited
<1>2. CASE attempt < 2
  <2>1. PICK wait \in Waits(attempt + 1) : Pass(d + wait)
    BY <1>2 DEF Limited
  <2>2. attempt \in {0, 1} /\ wait \in 0 .. RetryMax
    BY <1>1, <1>2, WaitBounds
  <2> QED BY <1>1, <1>2, <2>1, <2>2, NextAttempt DEF Limited
<1>3. CASE ~(attempt < 2)
  <2>1. Backoff(4) \in 0 .. 8 * Delay
    BY WaitBounds
  <2> QED BY <1>1, <1>3, <2>1, RequestOver DEF Limited
<1> QED BY <1>2, <1>3

LEMMA MintKeeps ==
  ASSUME ClockInv, NEW d \in Lags, Mint(d)
  PROVE  ClockInv'
<1>1. d \in 1 .. CallMax
  OBVIOUS
<1>2. PICK used \in 0 .. d : valid' = Left(Life, used)
  BY DEF Mint
<1>3. /\ attempt \in {0, 1, 2} /\ spent \in Nat
      /\ spent <= attempt * AttemptMax
  BY DEF ClockInv, TypeOK, CountersOK, SpentInv, Mint
<1>4. CountersOK'
  BY <1>1, <1>2, <1>3 DEF Mint, CountersOK, Left
<1>7. revoked' \in BOOLEAN
  BY DEF Mint
<1>5. TokenInv'
  BY <1>1, <1>2 DEF Mint, TokenInv, Left
<1>6. SpentInv'
  BY <1>1, <1>3 DEF Mint, SpentInv, AttemptMax
<1> QED BY <1>4, <1>5, <1>6, <1>7 DEF ClockInv, TypeOK

LEMMA SpentBounded ==
  ASSUME ClockInv
  PROVE  spent <= LongestRequest
<1>1. /\ pc \in {"idle", "token", "calling"} /\ spent \in Nat
      /\ pc # "idle" => attempt \in {0, 1, 2}
  BY DEF ClockInv, TypeOK, CountersOK
<1>2. CASE pc = "idle"
  BY <1>2 DEF ClockInv, SpentInv
<1>3. CASE pc # "idle"
  BY <1>1, <1>3 DEF ClockInv, SpentInv, AttemptMax, LongestRequest
<1> QED BY <1>2, <1>3

LEMMA NextKeeps == ClockInv /\ [Next]_vars => ClockInv'
<1> SUFFICES ASSUME ClockInv, [Next]_vars PROVE ClockInv'
  OBVIOUS
<1>t. CountersOK /\ TokenInv /\ SpentInv
  BY DEF ClockInv, TypeOK
<1>b. revoked \in BOOLEAN
  BY DEF ClockInv, TypeOK
<1> USE <1>t, <1>b DEF ClockInv, TypeOK
<1>1. CASE Begin
  <2>1. CountersOK' /\ TokenInv' /\ SpentInv'
    BY <1>1 DEF Begin, CountersOK, TokenInv, SpentInv, AttemptMax
  <2> QED BY <1>1, <2>1 DEF Begin
<1>2. CASE Reuse
  <2>1. CountersOK' /\ TokenInv' /\ SpentInv'
    BY <1>2 DEF Reuse, Reusable, ReusedExpiry, CountersOK, TokenInv, SpentInv,
                AttemptMax
  <2> QED BY <1>2, <2>1 DEF Reuse
<1>3. ASSUME NEW d \in Lags, Mint(d) PROVE ClockInv'
  BY <1>3, MintKeeps
<1>4. ASSUME NEW d \in Lags, MintFails(d) \/ CallFails(d) \/ Denied(d)
      PROVE  ClockInv'
  BY <1>4, FailKeeps DEF MintFails, CallFails, Denied
<1>5. ASSUME NEW d \in Lags, Answered(d) \/ MintUnreadable(d) PROVE ClockInv'
  <2>1. d \in Nat /\ 0 \in 0 .. 8 * Delay
    OBVIOUS
  <2>2. pc # "idle" /\ pc' = "idle" /\ attempt' \in {0, 1, 2, 4}
    BY <1>5 DEF Answered, MintUnreadable, CountersOK
  <2>3. Pass(d + 0) /\ UNCHANGED revoked
    BY <1>5, <2>1 DEF Answered, MintUnreadable
  <2> QED BY <2>1, <2>2, <2>3, RequestOver
<1>6. ASSUME NEW d \in Lags, Limited(d) PROVE ClockInv'
  BY <1>6, LimitedKeeps
<1>7. ASSUME NEW d \in Rests, Rest(d) PROVE ClockInv'
  <2>1. /\ cached' \in 0 .. Life /\ valid' \in 0 .. Life
        /\ cached <= valid => cached' <= valid'
    BY <1>7, LeftType DEF Rest, Age, CountersOK
  <2>2. CountersOK' /\ SpentInv'
    BY <1>7, <2>1 DEF Rest, CountersOK, SpentInv
  <2>3. TokenInv'
    BY <1>7, <2>1 DEF Rest, TokenInv
  <2> QED BY <1>7, <2>2, <2>3 DEF Rest
<1>8. CASE Restart
  <2>1. spent <= LongestRequest
    BY SpentBounded
  <2>2. CountersOK'
    BY <1>8 DEF Restart, CountersOK
  <2>3. TokenInv' /\ SpentInv'
    BY <1>8, <2>1 DEF Restart, TokenInv, SpentInv
  <2> QED BY <1>8, <2>2, <2>3 DEF Restart
<1>9. CASE Revoke
  <2>1. CountersOK' /\ SpentInv'
    BY <1>9 DEF Revoke, CountersOK, SpentInv
  <2>2. TokenInv'
    BY <1>9 DEF Revoke, TokenInv
  <2> QED BY <1>9, <2>1, <2>2 DEF Revoke
<1>10. CASE UNCHANGED vars
  <2>1. CountersOK' /\ SpentInv'
    BY <1>10 DEF vars, CountersOK, SpentInv
  <2>2. TokenInv' /\ revoked' \in BOOLEAN
    BY <1>10 DEF vars, TokenInv
  <2> QED BY <2>1, <2>2
<1> QED BY <1>1, <1>2, <1>3, <1>4, <1>5, <1>6, <1>7, <1>8, <1>9, <1>10
        DEF Next, Request, Minting, Calling

\* The inductive invariant: the client never trusts a token longer than
\* NetSuite does, and each attempt adds at most its share of the seconds.
THEOREM ClockInvariant == Spec => []ClockInv
  BY InitClockInv, NextKeeps, PTL DEF Spec

\* The variables of a request keep their types (netsuite_auth.py:204-288).
THEOREM TypeCorrect == Spec => []TypeOK
  BY ClockInvariant, PTL DEF ClockInv

\* For any timeouts, clamp and delay, a request ends within LongestRequest
\* seconds (netsuite_auth.py:18-21, 37-48 and 260-284).
THEOREM RequestBoundedHolds == Spec => []RequestBounded
<1>1. ClockInv => RequestBounded
  BY SpentBounded DEF RequestBounded
<1> QED BY <1>1, ClockInvariant, PTL

\* NetSuite refuses no token that was not revoked, for any life and margin
\* that outlast a call (netsuite_auth.py:167-202).
THEOREM OnlyRevokedHolds == Spec => OnlyRevokedRefused
<1>1. ClockInv /\ [Next]_vars => [Refused => revoked]_vars
  <2> SUFFICES ASSUME ClockInv, Refused PROVE revoked
    OBVIOUS
  <2>1. PICK d \in Lags : pc = "calling" /\ valid <= d
    BY DEF Refused, Denied
  <2>2. d <= CallMax /\ d \in Nat /\ valid \in Nat
    BY DEF ClockInv, TypeOK, CountersOK
  <2>3. ~(valid > CallMax)
    BY <2>1, <2>2
  <2> QED BY <2>1, <2>3 DEF ClockInv, TokenInv
<1> QED BY <1>1, ClockInvariant, PTL DEF Spec, OnlyRevokedRefused
=============================================================================
