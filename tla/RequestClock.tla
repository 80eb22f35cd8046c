----------------------------- MODULE RequestClock -----------------------------
(***************************************************************************)
(* The seconds that a NetSuite request takes, and the access token that    *)
(* its calls carry.  One warm process makes requests one after another;    *)
(* make_request asks for a token before each attempt, and get_access_token *)
(* returns the cached one until Margin seconds before its expiry.          *)
(*                                                                         *)
(* Time is kept as what is left: cached counts down to the expiry that the *)
(* client has noted, valid to the one that NetSuite will act on.  A step   *)
(* that takes d seconds lowers both.  What the answers mean to the callers *)
(* is ApiRequest; here a request is how long it took.                      *)
(***************************************************************************)
EXTENDS Integers

CONSTANTS
  CallMax,    \* connect and read timeout together
  Margin,     \* a token is not reused this close to its expiry
  Life,       \* expires_in of a token
  RetryMax,   \* the clamp of Retry-After
  Delay,      \* retry_delay
  Lags,       \* how long a call may take
  Hints,      \* numeric Retry-After headers that NetSuite may send
  Rests       \* how long the process may idle between requests

ASSUME ClockAssumption ==
  /\ CallMax \in Nat /\ Margin \in Nat /\ Life \in Nat /\ RetryMax \in Nat
  /\ Delay \in Nat
  /\ Lags \subseteq 1 .. CallMax /\ Hints \subseteq Int /\ Rests \subseteq Nat

\* A token outlives a call that was started with it, and a new one the call
\* that fetched it as well.
ASSUME MarginAssumption == CallMax <= Margin /\ 2 * CallMax < Life

\* The clamp is no shorter than the waits it stands in for.
ASSUME BackoffAssumption == 2 * Delay <= RetryMax

VARIABLES
  pc,        \* "idle", "token" (an attempt begins), "calling"
  attempt,   \* the loop variable
  spent,     \* seconds since the request began
  cached,    \* seconds to _access_token_expiry, 0 for none or past
  valid,     \* seconds that NetSuite accepts the cached token
  revoked    \* NetSuite has withdrawn the cached token

vars == <<pc, attempt, spent, cached, valid, revoked>>

CountersOK ==
  /\ pc \in {"idle", "token", "calling"}
  /\ attempt \in {0, 1, 2, 4} /\ (pc # "idle" => attempt # 4)
  /\ spent \in Nat
  /\ cached \in 0 .. Life /\ valid \in 0 .. Life

TypeOK == CountersOK /\ revoked \in BOOLEAN

Init ==
  /\ pc = "idle" /\ attempt = 0 /\ spent = 0
  /\ cached = 0 /\ valid = 0 /\ revoked = FALSE

-----------------------------------------------------------------------------
(* Time                                                                    *)

Left(t, d) == IF t > d THEN t - d ELSE 0

Age(d)  == cached' = Left(cached, d) /\ valid' = Left(valid, d)
Pass(d) == Age(d) /\ spent' = spent + d

\* Mutant: the header is taken as it is.
UnclampedWait(hint) == IF hint < 0 THEN 0 ELSE hint

\* _parse_retry_after
ClampedWait(hint) ==
  IF hint < 0 THEN 0 ELSE IF hint > RetryMax THEN RetryMax ELSE hint

\* retry_delay * 2 ** (n - 1), for the n-th failed attempt
Backoff(n) ==
  CASE n = 1 -> Delay [] n = 2 -> 2 * Delay [] n = 3 -> 4 * Delay [] OTHER -> 8 * Delay

\* Retry-After when it is there and numeric, else the backoff.
Waits(n) == {Backoff(n)} \cup {ClampedWait(h) : h \in Hints}

-----------------------------------------------------------------------------
(* make_request                                                            *)

Begin ==
  /\ pc = "idle"
  /\ pc' = "token" /\ attempt' = 0 /\ spent' = 0
  /\ UNCHANGED <<cached, valid, revoked>>

\* Mutant: reused until its very end.
ReusableToTheEnd == cached > 0

Reusable == cached > Margin

\* Mutant: every use pushes the expiry back.
SlidingExpiry == Life

ReusedExpiry == cached

Reuse ==
  /\ pc = "token" /\ Reusable
  /\ pc' = "calling" /\ cached' = ReusedExpiry
  /\ UNCHANGED <<attempt, spent, valid, revoked>>

\* The token's expiry is counted from before the call that fetches it, and
\* NetSuite issues it at some moment of that call.
Mint(d) ==
  /\ pc = "token" /\ ~Reusable
  /\ pc' = "calling"
  /\ cached' = Left(Life, d)
  /\ \E used \in 0 .. d : valid' = Left(Life, used)
  /\ revoked' = FALSE
  /\ spent' = spent + d
  /\ UNCHANGED attempt

\* Mutant: the last attempt is not told from the others.
GivesUpLate == attempt = 3

GivesUp == attempt = 2

\* except RequestException: wait and go on, or re-raise.
Fail(d) ==
  /\ UNCHANGED revoked
  /\ IF GivesUp
     THEN pc' = "idle" /\ Pass(d) /\ UNCHANGED attempt
     ELSE /\ pc' = "token" /\ attempt' = attempt + 1
          /\ Pass(d + Backoff(attempt + 1))

MintFails(d) == pc = "token" /\ ~Reusable /\ Fail(d)

\* The answer has no access_token: KeyError, which nobody retries.
MintUnreadable(d) ==
  /\ pc = "token" /\ ~Reusable
  /\ pc' = "idle" /\ Pass(d)
  /\ UNCHANGED <<attempt, revoked>>

\* No answer, or any status of 400 and up that is not 429.
CallFails(d) == pc = "calling" /\ Fail(d)

\* 401: the token ends before NetSuite looks at it.  The client keeps it.
Denied(d) == pc = "calling" /\ valid <= d /\ Fail(d)

Answered(d) ==
  /\ pc = "calling" /\ valid > 0
  /\ pc' = "idle" /\ Pass(d)
  /\ UNCHANGED <<attempt, revoked>>

\* 429.  The third one is raised inside the try with attempt 3, which is not
\* the 2 that re-raises: it waits once more and returns the response.
Limited(d) ==
  /\ pc = "calling" /\ valid > 0
  /\ IF attempt < 2
     THEN /\ pc' = "token" /\ attempt' = attempt + 1
          /\ \E wait \in Waits(attempt + 1) : Pass(d + wait)
     ELSE pc' = "idle" /\ attempt' = 4 /\ Pass(d + Backoff(4))
  /\ UNCHANGED revoked

-----------------------------------------------------------------------------
(* Around the request                                                      *)

\* The process handles other things, or is frozen until the next message.
Rest(d) ==
  /\ pc = "idle" /\ Age(d)
  /\ UNCHANGED <<pc, attempt, spent, revoked>>

\* Lambda replaces the process.
Restart ==
  /\ pc' = "idle" /\ cached' = 0 /\ valid' = 0 /\ revoked' = FALSE
  /\ UNCHANGED <<attempt, spent>>

\* Somebody withdraws the token before its time.
Revoke ==
  /\ valid > 0
  /\ valid' = 0 /\ revoked' = TRUE
  /\ UNCHANGED <<pc, attempt, spent, cached>>

Minting == \E d \in Lags : Mint(d)

Calling ==
  \E d \in Lags : \/ MintFails(d) \/ MintUnreadable(d) \/ CallFails(d)
                  \/ Denied(d) \/ Answered(d) \/ Limited(d)

Refused == \E d \in Lags : Denied(d)

Request == Begin \/ Reuse \/ Minting \/ Calling

Next == Request \/ (\E d \in Rests : Rest(d)) \/ Restart \/ Revoke

Spec == Init /\ [][Next]_vars

\* Messages keep coming, calls return, and the token endpoint does not fail
\* for ever.
FairSpec == Spec /\ WF_vars(Request) /\ SF_vars(Minting)

-----------------------------------------------------------------------------
(* What is promised                                                        *)

\* "Reused until ~60s before expiry" (netsuite_auth.py:170): no call is
\* refused for a token that ran out on the way, after whatever waits and
\* retries; only for one that was revoked.
OnlyRevokedRefused == [][Refused => revoked]_vars

\* What three attempts can take at most: a token and a call each, two
\* waits, and the one after the third 429.  As deployed, 346 seconds.
LongestRequest == 6 * CallMax + 2 * RetryMax + 8 * Delay

\* No answer, header or retry makes a request longer (the clamp of
\* netsuite_auth.py:37-48 and the timeouts of 18-21).
RequestBounded == spent <= LongestRequest

\* A revoked token is not used for ever, though a 401 does not drop it.
RevocationEnds == revoked ~> ~revoked

-----------------------------------------------------------------------------
(* Why it holds: the inductive invariant of RequestClockProofs             *)

\* Until it is revoked, NetSuite accepts the token as long as the client
\* thinks it does, and a call starts with a token that outlives it.
TokenInv ==
  ~revoked => cached <= valid /\ (pc = "calling" => valid > CallMax)

\* What n attempts, with their waits, have taken at most.
AttemptMax == 2 * CallMax + RetryMax

SpentInv ==
  /\ pc = "token"   => spent <= attempt * AttemptMax
  /\ pc = "calling" => spent <= attempt * AttemptMax + CallMax
  /\ pc = "idle"    => spent <= LongestRequest

ClockInv == TypeOK /\ TokenInv /\ SpentInv
=============================================================================
