------------------------- MODULE HttpClientProofs -------------------------
(***************************************************************************)
(* Proofs about RateLimiter and HttpClient, for any number of threads, any *)
(* rate, interval and burst and any retry policies.                        *)
(*                                                                         *)
(* The bucket is the least of its capacity and of what each grant left     *)
(* free: Ceiling says it holds no more, Floor that it holds no less.  The  *)
(* client uses the limiter as RateLimiter allows, so that those bounds     *)
(* hold of it, every request has a token of its own, none is sent before   *)
(* the provider lets the call come back, and the client keeps the contract *)
(* of RemoteCall.                                                          *)
(***************************************************************************)
EXTENDS HttpClient, FiniteSetTheorems, TLAPS

USE RateAssumption, TimeAssumption

-----------------------------------------------------------------------------
\* What the grants from the i-th on have left of the bucket at time t.
Left(i, t) == Capacity - (Len(grants) - i + 1) * Interval + (t - grants[i])

\* The bucket holds no more than any grant has left ...
Ceiling ==
    \A i \in 1..Len(grants) : grants[i] <= last /\ tokens <= Left(i, last)

\* ... and no less than all of them: it is full or some grant explains it.
Floor ==
    tokens = Capacity \/ \E i \in 1..Len(grants) : tokens >= Left(i, last)

IInv == TypeOK /\ WindowBound /\ Ceiling /\ Floor

-----------------------------------------------------------------------------
\* The capacity is a positive number of ticks that holds one token.
LEMMA CapacityNat == Capacity \in Nat /\ Interval <= Capacity
<1>. DEFINE B == IF Burst > 1 THEN Burst ELSE 1
<1>1. B \in Nat /\ B >= 1
  OBVIOUS
<1>. HIDE DEF B
<1>2. B * Interval \in Nat /\ B * Interval >= Interval
  BY <1>1
<1>. QED
  BY <1>2 DEF B, Capacity

\* What a grant has left grows with the time.
LEMMA LeftGrows ==
  ASSUME grants \in Seq(Nat), NEW i \in 1..Len(grants),
         NEW a \in Int, NEW b \in Int
  PROVE  Left(i, a) \in Int /\ Left(i, b) = Left(i, a) + (b - a)
<1>1. (Len(grants) - i + 1) * Interval \in Int /\ grants[i] \in Nat
  OBVIOUS
<1>. QED
  BY <1>1, CapacityNat DEF Left

\* A refill is bounded from both sides.
LEMMA RefillBounds ==
  ASSUME TypeOK
  PROVE  /\ Filled \in 0..Capacity
         /\ tokens <= Filled
         /\ Filled <= tokens + (now - last)
         /\ Filled = Capacity \/ Filled = tokens + (now - last)
BY CapacityNat DEF TypeOK, Filled, AtMost

\* A step that leaves the bucket and its history alone, at the same time.
LEMMA ThreadStep ==
  ASSUME IInv, UNCHANGED <<now, tokens, last, grants>>,
         thread' \in [Threads -> Thread]
  PROVE  IInv'
BY DEF IInv, TypeOK, WindowBound, Ceiling, Floor, Left, Capacity

-----------------------------------------------------------------------------
LEMMA InitIInv == Init => IInv
<1>. SUFFICES ASSUME Init PROVE IInv
  OBVIOUS
<1>1. TypeOK
  BY CapacityNat DEF Init, TypeOK, Thread, Idle, Stages, Never
<1>. QED
  BY <1>1 DEF Init, IInv, WindowBound, Ceiling, Floor

LEMMA IdleThread == Idle \in Thread
BY DEF Idle, Thread, Stages, Never

LEMMA GrantPreserves ==
  ASSUME IInv, NEW t \in Threads, Grant(t)
  PROVE  IInv'
<1>. DEFINE n == Len(grants)
<1>1. /\ now \in Nat /\ last \in Nat /\ tokens \in Nat /\ last <= now
      /\ grants \in Seq(0..now) /\ n \in Nat
  BY DEF IInv, TypeOK
<1>2. /\ now' = now /\ last' = now /\ tokens' = Filled - Interval
      /\ Filled >= Interval /\ grants' = Append(grants, now)
      /\ thread' = [thread EXCEPT ![t] = Idle]
  BY DEF Grant, RefilledAt
<1>3. /\ Filled \in 0..Capacity
      /\ Filled <= tokens + (now - last)
      /\ Filled = Capacity \/ Filled = tokens + (now - last)
  BY RefillBounds DEF IInv
<1>4. /\ Len(grants') = n + 1
      /\ grants'[n + 1] = now
      /\ \A i \in 1..n : grants'[i] = grants[i] /\ grants[i] \in 0..now
      /\ grants' \in Seq(0..now)
  BY <1>1, <1>2
<1>5. Capacity \in Nat /\ Interval <= Capacity
  BY CapacityNat
<1>14. /\ grants \in Seq(Nat) /\ last \in Int /\ now \in Int
  <2>1. \A i \in 1..n : grants[i] \in Nat
    BY <1>4, <1>1
  <2>. QED
    BY <1>1, <2>1
<1>15. \A i \in 1..n : /\ Left(i, last) \in Int /\ Left(i, now) \in Int
                       /\ Left(i, now) = Left(i, last) + (now - last)
  BY <1>14, LeftGrows
<1>6. TypeOK'
  BY <1>1, <1>2, <1>3, <1>4, <1>5, IdleThread DEF IInv, TypeOK
<1>7. \A i \in 1..n : Left(i, now)' = Left(i, now) - Interval
  <2>. SUFFICES ASSUME NEW i \in 1..n
                PROVE  Left(i, now)' = Left(i, now) - Interval
    OBVIOUS
  <2>1. (n + 1 - i + 1) * Interval = (n - i + 1) * Interval + Interval
    BY <1>1
  <2>. QED
    BY <2>1, <1>1, <1>2, <1>4, <1>5 DEF Left
<1>8. \A i \in 1..n : Filled <= Left(i, now)
  <2>. SUFFICES ASSUME NEW i \in 1..n PROVE Filled <= Left(i, now)
    OBVIOUS
  <2>1. tokens <= Left(i, last)
    BY DEF IInv, Ceiling
  <2>. QED
    BY <2>1, <1>15, <1>1, <1>3, <1>5
<1>9. Ceiling'
  <2>. SUFFICES ASSUME NEW i \in 1..(n + 1)
                PROVE  grants'[i] <= last' /\ tokens' <= Left(i, last)'
    BY <1>4 DEF Ceiling
  <2>1. CASE i = n + 1
    <3>1. Left(i, last)' = Capacity - Interval
      BY <2>1, <1>1, <1>2, <1>4, <1>5 DEF Left
    <3>. QED
      BY <3>1, <2>1, <1>1, <1>2, <1>3, <1>4, <1>5
  <2>2. CASE i \in 1..n
    <3>1. Left(i, last)' = Left(i, now) - Interval
      BY <2>2, <1>2, <1>7
    <3>2. grants'[i] <= now
      BY <2>2, <1>1, <1>4
    <3>. QED
      BY <3>1, <3>2, <2>2, <1>1, <1>2, <1>3, <1>5, <1>8, <1>15
  <2>. QED
    BY <2>1, <2>2, <1>1
<1>10. Floor'
  <2>1. CASE Filled = Capacity
    <3>1. PICK i \in 1..Len(grants') : i = n + 1
      BY <1>1, <1>4
    <3>2. Left(i, last)' = Capacity - Interval
      BY <3>1, <1>1, <1>2, <1>4, <1>5 DEF Left
    <3>. QED
      BY <3>1, <3>2, <2>1, <1>2, <1>3, <1>5 DEF Floor
  <2>2. CASE Filled = tokens + (now - last) /\ Filled # Capacity
    <3>1. CASE tokens = Capacity
      BY <3>1, <2>2, <1>1, <1>3, <1>5
    <3>2. CASE \E i \in 1..n : tokens >= Left(i, last)
      <4>1. PICK i \in 1..n : tokens >= Left(i, last)
        BY <3>2
      <4>4. Left(i, last)' = Left(i, now) - Interval
        BY <1>2, <1>7
      <4>5. tokens' >= Left(i, last)'
        BY <4>1, <4>4, <2>2, <1>1, <1>2, <1>15
      <4>. QED
        BY <4>5, <1>1, <1>4 DEF Floor
    <3>. QED
      BY <3>1, <3>2 DEF IInv, Floor
  <2>. QED
    BY <2>1, <2>2, <1>3
<1>11. WindowBound'
  <2>. SUFFICES ASSUME NEW i \in 1..(n + 1), NEW j \in 1..(n + 1), i <= j
                PROVE  (j - i + 1) * Interval
                         <= Capacity + (grants'[j] - grants'[i])
    BY <1>2, <1>4 DEF WindowBound, Capacity
  <2>1. CASE j \in 1..n
    <3>1. i \in 1..n
      BY <2>1, <1>1
    <3>. QED
      BY <3>1, <2>1, <1>4 DEF IInv, WindowBound
  <2>2. CASE j = n + 1
    <3>1. tokens' <= Left(i, last)' /\ tokens' >= 0
      BY <1>9, <1>4, <1>2, <1>3, <1>5 DEF Ceiling
    <3>2. Left(i, last)' = Capacity - (n + 1 - i + 1) * Interval
                             + (now - grants'[i])
      BY <1>2, <1>4, <1>1, <1>5 DEF Left, Capacity
    <3>3. grants'[i] \in Nat /\ (n + 1 - i + 1) * Interval \in Int
      BY <1>1, <1>4
    <3>. QED
      BY <3>1, <3>2, <3>3, <2>2, <1>1, <1>2, <1>3, <1>4, <1>5
  <2>. QED
    BY <2>1, <2>2, <1>1
<1>. QED
  BY <1>6, <1>9, <1>10, <1>11 DEF IInv

LEMMA MissPreserves ==
  ASSUME IInv, NEW t \in Threads, Miss(t)
  PROVE  IInv'
<1>1. /\ now \in Nat /\ last \in Nat /\ tokens \in Nat /\ last <= now
      /\ grants \in Seq(0..now) /\ Len(grants) \in Nat
  BY DEF IInv, TypeOK
<1>2. /\ now' = now /\ last' = now /\ tokens' = Filled /\ Filled < Interval
      /\ grants' = grants
      /\ thread' = [thread EXCEPT ![t].stage = "missed"]
  BY DEF Miss, Kept
<1>3. Capacity \in Nat /\ Interval <= Capacity
  BY CapacityNat
<1>4. Filled = tokens + (now - last)
  BY <1>2, <1>3, RefillBounds DEF IInv
<1>5. \A i \in 1..Len(grants) : grants[i] \in 0..now
  BY <1>1
<1>6. \A i \in 1..Len(grants) :
         /\ Left(i, last) \in Int
         /\ Left(i, last)' = Left(i, last) + (now - last)
  <2>1. grants \in Seq(Nat)
    BY <1>1, <1>5
  <2>. SUFFICES ASSUME NEW i \in 1..Len(grants)
                PROVE  /\ Left(i, last) \in Int
                       /\ Left(i, last)' = Left(i, last) + (now - last)
    OBVIOUS
  <2>2. Left(i, last)' = Left(i, now)
    BY <1>2 DEF Left
  <2>3. last \in Int /\ now \in Int
    BY <1>1
  <2>4. /\ Left(i, last) \in Int
        /\ Left(i, now) = Left(i, last) + (now - last)
    BY <2>1, <2>3, LeftGrows
  <2>. QED
    BY <2>2, <2>4
<1>7. TypeOK'
  <2>1. thread' \in [Threads -> Thread]
    BY <1>2 DEF IInv, TypeOK, Thread, Stages
  <2>2. Filled \in 0..Capacity
    BY RefillBounds DEF IInv
  <2>. QED
    BY <1>1, <1>2, <2>1, <2>2 DEF IInv, TypeOK
<1>8. WindowBound'
  BY <1>2 DEF IInv, WindowBound
<1>9. Ceiling'
  BY <1>1, <1>2, <1>4, <1>5, <1>6 DEF IInv, Ceiling
<1>10. Floor'
  <2>1. tokens # Capacity
    BY <1>1, <1>2, <1>3, <1>4
  <2>2. PICK i \in 1..Len(grants) : tokens >= Left(i, last)
    BY <2>1 DEF IInv, Floor
  <2>3. tokens' >= Left(i, last)'
    BY <2>2, <1>1, <1>2, <1>4, <1>6
  <2>. QED
    BY <2>2, <2>3, <1>2 DEF Floor
<1>. QED
  BY <1>7, <1>8, <1>9, <1>10 DEF IInv

LEMMA TickPreserves ==
  ASSUME IInv, Tick
  PROVE  IInv'
<1>1. TypeOK'
  <2>1. grants \in Seq(0..(now + 1))
    <3>1. /\ grants \in Seq(0..now) /\ now \in Nat
      BY DEF IInv, TypeOK
    <3>2. \A i \in 1..Len(grants) : grants[i] \in 0..(now + 1)
      BY <3>1
    <3>. QED
      BY <3>1, <3>2
  <2>. QED
    BY <2>1 DEF IInv, TypeOK, Tick
<1>2. Ceiling' /\ Floor' /\ WindowBound'
  BY DEF IInv, Tick, Ceiling, Floor, WindowBound, Left
<1>. QED
  BY <1>1, <1>2 DEF IInv

\* The threads' own steps: what they store stays of its type.
LEMMA WaitPreserves ==
  ASSUME IInv, NEW t \in Threads, Wait(t)
  PROVE  IInv'
<1>. DEFINE r == [Idle EXCEPT !.stage = "trying", !.blocks = TRUE, !.until = now]
<1>0. now \in Nat
  BY DEF IInv, TypeOK
<1>1. r \in Thread
  BY <1>0 DEF Thread, Idle, Stages
<1>2. thread' = [thread EXCEPT ![t] = r]
  BY DEF Wait
<1>3. thread' \in [Threads -> Thread]
  BY <1>1, <1>2 DEF IInv, TypeOK
<1>. QED
  BY <1>3, ThreadStep DEF Wait

LEMMA AcquirePreserves ==
  ASSUME IInv, NEW t \in Threads, NEW timeout \in Timeouts \cup {Never},
         Acquire(t, timeout)
  PROVE  IInv'
<1>. DEFINE d == IF timeout = Never THEN Never ELSE now + timeout
            r == [Idle EXCEPT !.stage = "trying", !.until = now, !.deadline = d]
<1>1. d \in Nat \cup {Never} /\ now \in Nat
  BY DEF IInv, TypeOK, Never
<1>. HIDE DEF d
<1>2. r \in Thread
  BY <1>1 DEF Thread, Idle, Stages, Never
<1>3. thread' = [thread EXCEPT ![t] = r]
  BY DEF Acquire, d
<1>4. thread' \in [Threads -> Thread]
  BY <1>2, <1>3 DEF IInv, TypeOK
<1>. QED
  BY <1>4, ThreadStep DEF Acquire

LEMMA RefusePreserves ==
  ASSUME IInv, NEW t \in Threads, Refuse(t)
  PROVE  IInv'
<1>1. thread' \in [Threads -> Thread]
  BY IdleThread DEF IInv, TypeOK, Refuse
<1>. QED
  BY <1>1, ThreadStep DEF Refuse

LEMMA SleepPreserves ==
  ASSUME IInv, NEW t \in Threads, Sleep(t)
  PROVE  IInv'
<1>. DEFINE pause == IF thread[t].blocks THEN Interval
                     ELSE AtMost(Interval, thread[t].deadline - now)
<1>1. thread[t] \in Thread /\ now \in Nat
  BY DEF IInv, TypeOK
<1>2. pause \in Nat
  BY <1>1 DEF Sleep, Over, AtMost, Thread, Never
<1>3. thread' = [thread EXCEPT ![t].stage = "trying", ![t].until = now + pause]
  BY DEF Sleep
<1>. HIDE DEF pause
<1>4. [thread[t] EXCEPT !.stage = "trying", !.until = now + pause] \in Thread
  <2>1. now + pause \in Nat
    BY <1>1, <1>2
  <2>. QED
    BY <1>1, <2>1 DEF Thread, Stages
<1>5. thread' \in [Threads -> Thread]
  BY <1>3, <1>4 DEF IInv, TypeOK
<1>. QED
  BY <1>5, ThreadStep DEF Sleep

-----------------------------------------------------------------------------
LEMMA NextIInv == IInv /\ [Next]_vars => IInv'
<1>. SUFFICES ASSUME IInv, [Next]_vars PROVE IInv'
  OBVIOUS
<1>1. ASSUME NEW t \in Threads, Wait(t) PROVE IInv'
  BY <1>1, WaitPreserves
<1>2. ASSUME NEW t \in Threads, NEW timeout \in Timeouts \cup {Never},
             Acquire(t, timeout)
      PROVE  IInv'
  BY <1>2, AcquirePreserves
<1>3. ASSUME NEW t \in Threads, Grant(t) PROVE IInv'
  BY <1>3, GrantPreserves
<1>4. ASSUME NEW t \in Threads, Miss(t) PROVE IInv'
  BY <1>4, MissPreserves
<1>5. ASSUME NEW t \in Threads, Refuse(t) PROVE IInv'
  BY <1>5, RefusePreserves
<1>6. ASSUME NEW t \in Threads, Sleep(t) PROVE IInv'
  BY <1>6, SleepPreserves
<1>7. CASE Tick
  BY <1>7, TickPreserves
<1>8. CASE UNCHANGED vars
  <2>1. thread' \in [Threads -> Thread]
    BY <1>8 DEF vars, IInv, TypeOK
  <2>. QED
    BY <1>8, <2>1, ThreadStep DEF vars
<1>. QED
  BY <1>1, <1>2, <1>3, <1>4, <1>5, <1>6, <1>7, <1>8 DEF Next

LEMMA Invariance == Spec => []IInv
BY InitIInv, NextIInv, PTL DEF Spec

\* The bucket never goes below zero nor above its capacity, and refills never
\* run ahead of the clock.
THEOREM TypeCorrect == Spec => []TypeOK
<1>1. IInv => TypeOK
  BY DEF IInv
<1>. QED
  BY <1>1, Invariance, PTL

\* However the threads interleave, wait and sleep, no window of time sees more
\* requests than the burst and the rate allow.
THEOREM NeverTooFast == Spec => []WindowBound
<1>1. IInv => WindowBound
  BY DEF IInv
<1>. QED
  BY <1>1, Invariance, PTL

\* A thread is only made to sleep when the provider's limit is really used up:
\* the refills of the threads that missed lose nothing.
THEOREM NothingLost == Spec => []NoTokenLost
<1>1. ASSUME IInv PROVE NoTokenLost
  <2>. SUFFICES ASSUME Filled < Interval PROVE NoTokenLost
    BY DEF NoTokenLost
  <2>1. /\ now \in Nat /\ last \in Nat /\ tokens \in Nat /\ last <= now
        /\ grants \in Seq(0..now) /\ Len(grants) \in Nat
    BY <1>1 DEF IInv, TypeOK
  <2>2. Capacity \in Nat /\ Interval <= Capacity
    BY CapacityNat
  <2>3. Filled = tokens + (now - last)
    BY <1>1, <2>2, RefillBounds DEF IInv
  <2>4. PICK i \in 1..Len(grants) : tokens >= Left(i, last)
    BY <1>1, <2>1, <2>2, <2>3 DEF IInv, Floor
  <2>5. grants \in Seq(Nat)
    <3>1. \A k \in 1..Len(grants) : grants[k] \in Nat
      BY <2>1
    <3>. QED
      BY <2>1, <3>1
  <2>6. Left(i, last) \in Int /\ Left(i, now) = Left(i, last) + (now - last)
    <3>1. last \in Int /\ now \in Int
      BY <2>1
    <3>. QED
      BY <2>5, <3>1, LeftGrows
  <2>7. Left(i, now) < Interval
    BY <2>1, <2>3, <2>4, <2>6
  <2>8. (Len(grants) - i + 2) * Interval
          = (Len(grants) - i + 1) * Interval + Interval
    BY <2>1
  <2>9. (Len(grants) - i + 1) * Interval \in Int /\ grants[i] \in Nat
    BY <2>1, <2>5
  <2>10. (Len(grants) - i + 2) * Interval > Capacity + (now - grants[i])
    BY <2>1, <2>2, <2>7, <2>8, <2>9 DEF Left
  <2>. QED
    BY <2>10 DEF NoTokenLost
<1>2. IInv => NoTokenLost
  BY <1>1
<1>. QED
  BY <1>2, Invariance, PTL

-----------------------------------------------------------------------------
(* The limiter below                                                       *)

LEMMA LimiterStep == [HttpNext]_httpVars => [Next]_vars
BY DEF HttpNext, httpVars, Next, Begin, Pass, Queue, Request, Resume, Poll,
       Clock

\* Calls, retries and polls together are a behaviour of the limiter.
THEOREM UsesLimiter == HttpSpec => LimiterUsed
<1>1. HttpInit => Init
  BY DEF HttpInit
<1>. QED
  BY <1>1, LimiterStep, PTL DEF HttpSpec, Spec, LimiterUsed

\* The grants to the calls of one client stay within the rate in every window
\* of time.
THEOREM ClientNeverTooFast == HttpSpec => []WindowBound
BY UsesLimiter, NeverTooFast DEF LimiterUsed

-----------------------------------------------------------------------------
(* The state of a call                                                     *)

\* A call as far as its contract goes, without its times: a call that may not be
\* repeated is at its first attempt, a call that is over is forgotten but for
\* its end.
Regular(c) ==
    /\ c = [stage |-> c.stage, retry |-> c.retry, direct |-> c.direct,
            attempt |-> c.attempt, until |-> c.until,
            applied |-> c.applied, heed |-> c.heed]
    /\ c.stage \in {"limited", "granted", "pausing"} \cup Ended
    /\ c.retry \in BOOLEAN /\ c.direct \in BOOLEAN
    /\ c.attempt \in Nat /\ c.applied \in Nat
    /\ c.attempt <= policy.max_retries
    /\ c.attempt > 0 => c.retry
    /\ c.stage \in Ended => c.attempt = 0 /\ c.applied = 0

CallInv ==
    /\ policy \in Policies
    /\ call = [t \in Threads |-> call[t]]
    /\ \A t \in Threads : Regular(call[t])

LEMMA PolicyFields ==
  ASSUME policy \in Policies
  PROVE  /\ policy.max_retries \in Nat
         /\ policy.max_retries <= MaxRetries
BY PolicyAssumption DEF Policy

LEMMA BlankRegular ==
  ASSUME policy \in Policies, NEW way \in Ended
  PROVE  Regular(Blank(way, FALSE, FALSE))
BY PolicyFields DEF Regular, Blank

\* What Outcome decides: it repeats only what may be repeated.
LEMMA OutcomeFacts ==
  ASSUME NEW c, c.retry \in BOOLEAN, NEW answer \in Answers
  PROVE  /\ Outcome(c, answer) \in {"pausing", "returned", "unchecked", "raised"}
         /\ Outcome(c, answer) = "pausing"
              => c.retry /\ c.attempt < policy.max_retries
         /\ Outcome(c, answer) = "returned" => answer = "ok"
BY DEF Outcome, ShouldRetry

\* What a request leaves: a call to be repeated, or a call that is over.
Goes(t, hit) ==
    /\ call[t].retry
    /\ call[t].attempt < policy.max_retries
    /\ \E until, heed :
         call' = [call EXCEPT ![t] = Repeated(call[t], hit, until, heed)]

Ends(t, hit) ==
    \E way \in {"returned", "unchecked", "raised"} :
      /\ way = "returned" => hit = 1
      /\ call' = [call EXCEPT ![t] = Blank(way, FALSE, FALSE)]

LEMMA RequestFacts ==
  ASSUME CallInv, NEW t \in Threads, NEW answer \in Answers, NEW after,
         NEW hit \in {0, 1}, Request(t, answer, after, hit)
  PROVE  Goes(t, hit) \/ Ends(t, hit)
<1>. DEFINE c == call[t]
            end == Outcome(c, answer)
            until == now + Pause(c.attempt, answer, after)
            heed == now + AtMost(after, policy.max_delay)
<1>1. Regular(c)
  BY DEF CallInv
<1>2. c.retry \in BOOLEAN
  BY <1>1 DEF Regular
<1>3. /\ end \in {"pausing", "returned", "unchecked", "raised"}
      /\ end = "pausing" => c.retry /\ c.attempt < policy.max_retries
      /\ end = "returned" => answer = "ok"
  BY <1>2, OutcomeFacts
<1>4. CASE end = "pausing"
  <2>1. call' = [call EXCEPT ![t] = Repeated(c, hit, until, heed)]
    BY <1>4 DEF Request
  <2>. HIDE DEF until, heed
  <2>. HIDE DEF c
  <2>4. \E u, h : call' = [call EXCEPT ![t] = Repeated(c, hit, u, h)]
    BY <2>1
  <2>. QED
    BY <1>3, <1>4, <2>4 DEF c, Goes
<1>5. CASE end # "pausing"
  <2>1. call' = [call EXCEPT ![t] = Blank(end, FALSE, FALSE)]
    BY <1>5 DEF Request
  <2>2. end = "returned" => hit = 1
    BY <1>3 DEF Request, Hit, MustApply
  <2>. HIDE DEF end
  <2>. QED
    BY <1>3, <1>5, <2>1, <2>2 DEF Ends
<1>. QED
  BY <1>4, <1>5

LEMMA InitCallInv == HttpInit => CallInv
<1>. SUFFICES ASSUME HttpInit PROVE CallInv
  OBVIOUS
<1>1. Regular(Blank("none", FALSE, FALSE))
  BY BlankRegular DEF HttpInit, Ended
<1>. QED
  BY <1>1 DEF HttpInit, CallInv, Regular

\* A step that changes the call of one thread, to a regular one.
LEMMA OneCall ==
  ASSUME CallInv, NEW t \in Threads, NEW c, policy' = policy,
         call' = [call EXCEPT ![t] = c], Regular(c)
  PROVE  CallInv'
<1>1. call' = [s \in Threads |-> call'[s]]
  BY DEF CallInv
<1>2. \A s \in Threads : Regular(call'[s])
  BY DEF CallInv
<1>3. \A s \in Threads : Regular(call[s])'
  BY <1>2 DEF Regular
<1>. QED
  BY <1>1, <1>3 DEF CallInv

\* The steps of a call before and after its request.
LEMMA StageFacts ==
  ASSUME CallInv, NEW t \in Threads, NEW stage \in {"limited", "granted"},
         call[t].stage \notin Ended, policy' = policy,
         call' = [call EXCEPT ![t].stage = stage]
  PROVE  CallInv'
<1>. DEFINE c == [call[t] EXCEPT !.stage = stage]
<1>1. Regular(call[t])
  BY DEF CallInv
<1>2. call' = [call EXCEPT ![t] = c]
  OBVIOUS
<1>3. c = [stage |-> stage, retry |-> call[t].retry,
           direct |-> call[t].direct, attempt |-> call[t].attempt,
           until |-> call[t].until, applied |-> call[t].applied,
           heed |-> call[t].heed]
  BY <1>1 DEF Regular
<1>. HIDE DEF c
<1>4. Regular(c)
  BY <1>1, <1>3 DEF Regular, Ended
<1>. QED
  BY <1>2, <1>4, OneCall

LEMMA BeginCallInv ==
  ASSUME CallInv, NEW t \in Threads, NEW retry \in BOOLEAN,
         NEW direct \in BOOLEAN, Begin(t, retry, direct)
  PROVE  CallInv'
<1>. DEFINE c == Blank("limited", retry, direct)
<1>1. call' = [call EXCEPT ![t] = c] /\ policy' = policy
  BY DEF Begin
<1>2. Regular(c)
  BY PolicyFields DEF Regular, CallInv, Ended, Blank
<1>. QED
  BY <1>1, <1>2, OneCall

LEMMA RequestCallInv ==
  ASSUME CallInv, NEW t \in Threads, NEW answer \in Answers, NEW after,
         NEW hit \in {0, 1}, Request(t, answer, after, hit)
  PROVE  CallInv'
<1>1. policy' = policy /\ Regular(call[t])
  BY DEF Request, CallInv
<1>2. ASSUME NEW until, NEW heed, call[t].retry,
             call[t].attempt < policy.max_retries,
             call' = [call EXCEPT ![t] = Repeated(call[t], hit, until, heed)]
      PROVE  CallInv'
  <2>1. Regular(Repeated(call[t], hit, until, heed))
    BY <1>1, <1>2, PolicyFields DEF Regular, Repeated, Ended, CallInv
  <2>. QED
    BY <1>1, <1>2, <2>1, OneCall
<1>3. ASSUME NEW way \in {"returned", "unchecked", "raised"},
             call' = [call EXCEPT ![t] = Blank(way, FALSE, FALSE)]
      PROVE  CallInv'
  <2>1. Regular(Blank(way, FALSE, FALSE))
    BY BlankRegular DEF CallInv, Ended
  <2>. QED
    BY <1>1, <1>3, <2>1, OneCall
<1>. QED
  <2>1. Goes(t, hit) \/ Ends(t, hit)
    BY RequestFacts
  <2>. QED
    BY <1>2, <1>3, <2>1 DEF Goes, Ends

LEMMA StepCallInv == CallInv /\ [HttpNext]_httpVars => CallInv'
<1>. SUFFICES ASSUME CallInv, [HttpNext]_httpVars PROVE CallInv'
  OBVIOUS
<1>1. ASSUME NEW t \in Threads, NEW retry \in BOOLEAN, NEW direct \in BOOLEAN,
             Begin(t, retry, direct)
      PROVE  CallInv'
  BY <1>1, BeginCallInv
<1>2. ASSUME NEW t \in Threads, Pass(t) PROVE CallInv'
  BY <1>2, StageFacts DEF Pass, Ended
<1>3. ASSUME NEW t \in Threads, Resume(t) PROVE CallInv'
  BY <1>3, StageFacts DEF Resume, Ended
<1>4. ASSUME NEW t \in Threads, NEW answer \in Answers,
             NEW after \in RetryAfters, NEW hit \in {0, 1},
             Request(t, answer, after, hit)
      PROVE  CallInv'
  BY <1>4, RequestCallInv
<1>5. ASSUME UNCHANGED <<policy, call>> PROVE CallInv'
  BY <1>5 DEF CallInv, Regular
<1>. QED
  BY <1>1, <1>2, <1>3, <1>4, <1>5
     DEF HttpNext, Queue, Poll, Clock, httpVars

LEMMA CallInvariance == HttpSpec => []CallInv
BY InitCallInv, StepCallInv, PTL DEF HttpSpec

-----------------------------------------------------------------------------
(* Every request has a token of its own                                    *)

Holders == {t \in Threads : call[t].stage = "granted"}

PaidInv ==
    /\ requests \in Nat
    /\ Len(grants) \in Nat
    /\ EveryRequestPaid

LEMMA HoldersFinite ==
    IsFiniteSet(Holders) /\ Cardinality(Holders) \in Nat
BY ThreadsAssumption, FS_Subset, FS_CardinalityType DEF Holders

LEMMA InitPaid == HttpInit => PaidInv
<1>. SUFFICES ASSUME HttpInit PROVE PaidInv
  OBVIOUS
<1>1. {t \in Threads : call[t].stage = "granted"} = {}
  BY DEF HttpInit, Blank
<1>2. Cardinality({t \in Threads : call[t].stage = "granted"}) = 0
  BY <1>1, FS_EmptySet
<1>3. requests = 0 /\ Len(grants) = 0
  BY DEF HttpInit, Init
<1>. QED
  BY <1>2, <1>3 DEF PaidInv, EveryRequestPaid

\* A step that lets no thread begin to hold a token and sends no request.
LEMMA NoRequest ==
  ASSUME PaidInv, CallInv, NEW t \in Threads, NEW c, c.stage # "granted",
         call[t].stage # "granted", call' = [call EXCEPT ![t] = c],
         requests' = requests, Len(grants') = Len(grants)
  PROVE  PaidInv'
<1>1. \A s \in Threads : call'[s].stage = "granted" <=> call[s].stage = "granted"
  BY DEF CallInv
<1>2. Holders' = Holders
  BY <1>1 DEF Holders
<1>. QED
  BY <1>2 DEF PaidInv, EveryRequestPaid, Holders

LEMMA StepPaid == CallInv /\ TypeOK /\ PaidInv /\ [HttpNext]_httpVars => PaidInv'
<1>. SUFFICES ASSUME CallInv, TypeOK, PaidInv, [HttpNext]_httpVars
              PROVE  PaidInv'
  OBVIOUS
<1>0. /\ Cardinality(Holders) \in Nat /\ IsFiniteSet(Holders)
      /\ requests \in Nat /\ Len(grants) \in Nat
      /\ requests + Cardinality(Holders) <= Len(grants)
  BY HoldersFinite DEF PaidInv, EveryRequestPaid, Holders
<1>1. ASSUME NEW t \in Threads, NEW retry \in BOOLEAN, NEW direct \in BOOLEAN,
             Begin(t, retry, direct)
      PROVE  PaidInv'
  <2>1. call[t].stage # "granted" /\ grants' = grants /\ requests' = requests
    BY <1>1 DEF Begin, Ended, Wait
  <2>2. call' = [call EXCEPT ![t] = Blank("limited", retry, direct)]
    BY <1>1 DEF Begin
  <2>. QED
    BY <2>1, <2>2, NoRequest DEF Blank
<1>2. ASSUME NEW t \in Threads, Pass(t) PROVE PaidInv'
  <2>1. /\ call[t].stage = "limited" /\ requests' = requests
        /\ grants' = Append(grants, now)
        /\ call' = [call EXCEPT ![t].stage = "granted"]
    BY <1>2 DEF Pass, Grant
  <2>2. Len(grants') = Len(grants) + 1
    <3>1. grants \in Seq(0..now)
      BY DEF TypeOK
    <3>. QED
      BY <2>1, <3>1
  <2>3. Holders' = Holders \cup {t} /\ t \notin Holders
    <3>1. Regular(call[t])
      BY DEF CallInv
    <3>2. call'[t].stage = "granted"
      BY <2>1, <3>1 DEF CallInv, Regular
    <3>. QED
      BY <2>1, <3>2 DEF Holders, CallInv
  <2>4. Cardinality(Holders') = Cardinality(Holders) + 1
    BY <1>0, <2>3, FS_AddElement
  <2>. QED
    BY <1>0, <2>1, <2>2, <2>4 DEF PaidInv, EveryRequestPaid, Holders
<1>3. ASSUME NEW t \in Threads, Resume(t) PROVE PaidInv'
  <2>. DEFINE c == [call[t] EXCEPT !.stage = "limited"]
  <2>1. /\ call[t].stage = "pausing" /\ grants' = grants
        /\ requests' = requests /\ call' = [call EXCEPT ![t] = c]
    BY <1>3 DEF Resume, Wait
  <2>2. c.stage # "granted"
    <3>1. Regular(call[t])
      BY DEF CallInv
    <3>. QED
      BY <3>1 DEF Regular
  <2>. HIDE DEF c
  <2>. QED
    BY <2>1, <2>2, NoRequest
<1>4. ASSUME NEW t \in Threads, NEW answer \in Answers,
             NEW after \in RetryAfters, NEW hit \in {0, 1},
             Request(t, answer, after, hit)
      PROVE  PaidInv'
  <2>1. /\ call[t].stage = "granted" /\ requests' = requests + 1
        /\ grants' = grants
    BY <1>4 DEF Request, vars
  <2>2. PICK c : call' = [call EXCEPT ![t] = c] /\ c.stage # "granted"
    <3>1. ASSUME Goes(t, hit)
          PROVE  \E c : call' = [call EXCEPT ![t] = c] /\ c.stage # "granted"
      <4>1. PICK until, heed :
              call' = [call EXCEPT ![t] = Repeated(call[t], hit, until, heed)]
        BY <3>1 DEF Goes
      <4>2. Repeated(call[t], hit, until, heed).stage # "granted"
        BY DEF Repeated
      <4>. QED
        BY <4>1, <4>2
    <3>2. ASSUME Ends(t, hit)
          PROVE  \E c : call' = [call EXCEPT ![t] = c] /\ c.stage # "granted"
      <4>1. PICK way \in {"returned", "unchecked", "raised"} :
              call' = [call EXCEPT ![t] = Blank(way, FALSE, FALSE)]
        BY <3>2 DEF Ends
      <4>2. Blank(way, FALSE, FALSE).stage # "granted"
        BY DEF Blank
      <4>. QED
        BY <4>1, <4>2
    <3>3. Goes(t, hit) \/ Ends(t, hit)
      BY <1>4, RequestFacts
    <3>. QED
      BY <3>1, <3>2, <3>3
  <2>3. Holders' = Holders \ {t} /\ t \in Holders
    BY <2>1, <2>2 DEF Holders, CallInv
  <2>4. Cardinality(Holders') = Cardinality(Holders) - 1
    BY <1>0, <2>3, FS_RemoveElement
  <2>. QED
    BY <1>0, <2>1, <2>4 DEF PaidInv, EveryRequestPaid, Holders
<1>5. ASSUME UNCHANGED call, UNCHANGED requests,
             Len(grants') \in Nat, Len(grants') >= Len(grants)
      PROVE  PaidInv'
  <2>1. Holders' = Holders
    BY <1>5 DEF Holders
  <2>. QED
    BY <1>0, <1>5, <2>1 DEF PaidInv, EveryRequestPaid, Holders
<1>6. ASSUME NEW t \in Threads, Queue(t) \/ Poll(t) PROVE PaidInv'
  <2>1. grants \in Seq(0..now) /\ UNCHANGED call /\ UNCHANGED requests
    BY <1>6 DEF Queue, Poll, TypeOK
  <2>2. grants' = grants \/ grants' = Append(grants, now)
    BY <1>6 DEF Queue, Poll, Acquire, Grant, Miss, Refuse, Sleep
  <2>. QED
    BY <1>0, <1>5, <2>1, <2>2
<1>7. CASE Clock \/ UNCHANGED httpVars
  BY <1>0, <1>5, <1>7 DEF Clock, Tick, httpVars, vars
<1>. QED
  BY <1>1, <1>2, <1>3, <1>4, <1>6, <1>7 DEF HttpNext

\* Every request, repeated ones too, has spent a token that no other request
\* and no poll has spent.
THEOREM RequestsArePaid == HttpSpec => []EveryRequestPaid
<1>1. HttpSpec => []TypeOK
  BY UsesLimiter, TypeCorrect, PTL DEF LimiterUsed
<1>2. PaidInv => EveryRequestPaid
  BY DEF PaidInv
<1>. QED
  BY <1>1, <1>2, CallInvariance, InitPaid, StepPaid, PTL DEF HttpSpec

-----------------------------------------------------------------------------
(* The contract of RemoteCall                                              *)

\* The mapping of the INSTANCE, by name.
Phases == [t \in Threads |-> Phase(call[t])]
Onces == [t \in Threads |-> Phase(call[t]) = "open" /\ ~call[t].retry]
Budgets == [t \in Threads |-> Budget(call[t])]
Effects == [t \in Threads |-> call[t].applied]

\* What the mapping makes of one call.
LEMMA MappedBlank ==
  ASSUME NEW way \in Ended
  PROVE  /\ Phase(Blank(way, FALSE, FALSE)) = way
         /\ Budget(Blank(way, FALSE, FALSE)) = 0
         /\ Blank(way, FALSE, FALSE).applied = 0
BY DEF Phase, Budget, Blank, Ended

\* A step that changes one call changes one place of the mapping.
LEMMA MappedStep ==
  ASSUME CallInv, NEW t \in Threads, NEW c, policy' = policy,
         call' = [call EXCEPT ![t] = c]
  PROVE  /\ Phases' = [Phases EXCEPT ![t] = Phase(c)]
         /\ Onces' = [Onces EXCEPT ![t] = Phase(c) = "open" /\ ~c.retry]
         /\ Budgets' = [Budgets EXCEPT ![t] = Budget(c)]
         /\ Effects' = [Effects EXCEPT ![t] = c.applied]
<1>1. \A s \in Threads : call'[s] = IF s = t THEN c ELSE call[s]
  BY DEF CallInv
<1>2. Phases' = [s \in Threads |-> IF s = t THEN Phase(c) ELSE Phase(call[s])]
  BY <1>1 DEF Phases, Phase
<1>3. Onces' = [s \in Threads |->
                  IF s = t THEN Phase(c) = "open" /\ ~c.retry
                  ELSE Phase(call[s]) = "open" /\ ~call[s].retry]
  BY <1>1 DEF Onces, Phase
<1>4. Budgets' = [s \in Threads |-> IF s = t THEN Budget(c)
                                            ELSE Budget(call[s])]
  BY <1>1 DEF Budgets, Budget, Phase
<1>5. Effects' = [s \in Threads |-> IF s = t THEN c.applied
                                            ELSE call[s].applied]
  BY <1>1 DEF Effects
<1>. QED
  BY <1>2, <1>3, <1>4, <1>5 DEF Phases, Onces, Budgets, Effects

LEMMA MappedSame ==
  ASSUME UNCHANGED <<policy, call>>
  PROVE  UNCHANGED <<Phases, Onces, Budgets, Effects>>
BY DEF Phases, Onces, Budgets, Effects, Phase, Budget

LEMMA MappedStage ==
  ASSUME CallInv, NEW t \in Threads, NEW stage \in {"limited", "granted"},
         call[t].stage \notin Ended, policy' = policy,
         call' = [call EXCEPT ![t].stage = stage]
  PROVE  UNCHANGED <<Phases, Onces, Budgets, Effects>>
<1>. DEFINE c == [call[t] EXCEPT !.stage = stage]
<1>1. Regular(call[t])
  BY DEF CallInv
<1>2. call' = [call EXCEPT ![t] = c]
  OBVIOUS
<1>3. c = [stage |-> stage, retry |-> call[t].retry,
           direct |-> call[t].direct, attempt |-> call[t].attempt,
           until |-> call[t].until, applied |-> call[t].applied,
           heed |-> call[t].heed]
  BY <1>1 DEF Regular
<1>. HIDE DEF c
<1>4. /\ Phase(c) = "open" /\ Phase(call[t]) = "open"
      /\ c.retry = call[t].retry /\ c.applied = call[t].applied
      /\ c.attempt = call[t].attempt
  BY <1>1, <1>3 DEF Phase, Regular, Ended
<1>5. Budget(c) = Budget(call[t])
  BY <1>4 DEF Budget
<1>6. /\ Phases' = [Phases EXCEPT ![t] = Phase(c)]
      /\ Onces' = [Onces EXCEPT ![t] = Phase(c) = "open" /\ ~c.retry]
      /\ Budgets' = [Budgets EXCEPT ![t] = Budget(c)]
      /\ Effects' = [Effects EXCEPT ![t] = c.applied]
  BY <1>2, MappedStep
<1>7. Phases' = Phases
  BY <1>4, <1>6 DEF Phases
<1>8. Onces' = Onces
  BY <1>4, <1>6 DEF Onces
<1>9. Budgets' = Budgets
  BY <1>5, <1>6 DEF Budgets
<1>10. Effects' = Effects
  BY <1>4, <1>6 DEF Effects
<1>. QED
  BY <1>7, <1>8, <1>9, <1>10

\* Beginning a call opens it.
LEMMA BeginOpens ==
  ASSUME CallInv, NEW t \in Threads, NEW retry \in BOOLEAN,
         NEW direct \in BOOLEAN, Begin(t, retry, direct)
  PROVE  Calls!Open(t)
<1>. DEFINE c == Blank("limited", retry, direct)
            n == IF retry THEN policy.max_retries + 1 ELSE 1
<1>1. /\ call[t].stage \in Ended /\ policy' = policy
      /\ call' = [call EXCEPT ![t] = c]
  BY DEF Begin
<1>2. /\ Phase(c) = "open" /\ c.retry = retry /\ c.applied = 0
      /\ c.attempt = 0
  BY DEF Phase, Blank
<1>3. Budget(c) = n
  BY <1>2, PolicyFields DEF Budget, CallInv
<1>4. n \in 1..(MaxRetries + 1) /\ (~retry => n = 1)
  BY PolicyFields, PolicyAssumption DEF CallInv
<1>. HIDE DEF c, n
<1>5. /\ Phases' = [Phases EXCEPT ![t] = "open"]
      /\ Onces' = [Onces EXCEPT ![t] = ~retry]
      /\ Budgets' = [Budgets EXCEPT ![t] = n]
      /\ Effects' = [Effects EXCEPT ![t] = 0]
  <2>1. /\ Phases' = [Phases EXCEPT ![t] = Phase(c)]
        /\ Onces' = [Onces EXCEPT ![t] = Phase(c) = "open" /\ ~c.retry]
        /\ Budgets' = [Budgets EXCEPT ![t] = Budget(c)]
        /\ Effects' = [Effects EXCEPT ![t] = c.applied]
    BY <1>1, MappedStep
  <2>2. (Phase(c) = "open" /\ ~c.retry) = ~retry
    BY <1>2
  <2>. QED
    BY <1>2, <1>3, <2>1, <2>2
<1>6. Phases[t] # "open"
  BY <1>1 DEF Phases, Phase, Ended
<1>7. \E forbidden \in BOOLEAN, k \in 1..(MaxRetries + 1) :
        /\ forbidden => k = 1
        /\ Onces' = [Onces EXCEPT ![t] = forbidden]
        /\ Budgets' = [Budgets EXCEPT ![t] = k]
  BY <1>4, <1>5
<1>. QED
  BY <1>5, <1>6, <1>7 DEF Calls!Open, Phases, Onces, Budgets, Effects

\* A request is one of the abstract call, whichever way it leaves the call.
LEMMA RequestCounts ==
  ASSUME CallInv, NEW t \in Threads, NEW answer \in Answers, NEW after,
         NEW hit \in {0, 1}, Request(t, answer, after, hit)
  PROVE  Calls!Request(t)
<1>1. /\ call[t].stage = "granted" /\ policy' = policy
      /\ Regular(call[t]) /\ policy \in Policies
  BY DEF Request, CallInv
<1>2. /\ Phases[t] = "open" /\ Budgets[t] = Budget(call[t])
      /\ Effects[t] = call[t].applied /\ Phase(call[t]) = "open"
  BY <1>1 DEF Phases, Budgets, Effects, Phase
<1>3. Budgets[t] =
        (IF call[t].retry THEN policy.max_retries + 1 ELSE 1) - call[t].attempt
  BY <1>2 DEF Budget
<1>4. Budgets[t] > 0
  BY <1>1, <1>3, PolicyFields DEF Regular
<1>5. ASSUME Goes(t, hit)
      PROVE  /\ Budgets[t] > 1
             /\ Budgets' = [Budgets EXCEPT ![t] = @ - 1]
             /\ Effects' = [Effects EXCEPT ![t] = @ + hit]
             /\ UNCHANGED <<Phases, Onces>>
  <2>1. PICK until, heed :
          call' = [call EXCEPT ![t] = Repeated(call[t], hit, until, heed)]
    BY <1>5 DEF Goes
  <2>. DEFINE c == Repeated(call[t], hit, until, heed)
  <2>2. /\ Phase(c) = "open" /\ c.retry = call[t].retry
        /\ c.applied = call[t].applied + hit
        /\ c.attempt = call[t].attempt + 1
    BY DEF Repeated, Phase
  <2>3. call[t].retry /\ call[t].attempt < policy.max_retries
    BY <1>5 DEF Goes
  <2>4. Budgets[t] > 1 /\ Budget(c) = Budgets[t] - 1
    BY <1>1, <1>3, <2>2, <2>3, PolicyFields DEF Budget, Regular
  <2>5. call' = [call EXCEPT ![t] = c]
    BY <2>1
  <2>. HIDE DEF c
  <2>6. /\ Phases' = [Phases EXCEPT ![t] = Phase(c)]
        /\ Onces' = [Onces EXCEPT ![t] = Phase(c) = "open" /\ ~c.retry]
        /\ Budgets' = [Budgets EXCEPT ![t] = Budget(c)]
        /\ Effects' = [Effects EXCEPT ![t] = c.applied]
    BY <1>1, <2>5, MappedStep
  <2>7. Phases' = Phases
    BY <1>2, <2>2, <2>6 DEF Phases
  <2>8. Onces' = Onces
    BY <1>2, <2>2, <2>6 DEF Onces
  <2>. QED
    BY <1>2, <2>2, <2>4, <2>6, <2>7, <2>8
<1>6. ASSUME Ends(t, hit)
      PROVE  \E way \in {"returned", "unchecked", "raised"} :
               /\ way = "returned" => Effects[t] + hit > 0
               /\ Phases' = [Phases EXCEPT ![t] = way]
               /\ Onces' = [Onces EXCEPT ![t] = FALSE]
               /\ Budgets' = [Budgets EXCEPT ![t] = 0]
               /\ Effects' = [Effects EXCEPT ![t] = 0]
  <2>1. PICK way \in {"returned", "unchecked", "raised"} :
          /\ way = "returned" => hit = 1
          /\ call' = [call EXCEPT ![t] = Blank(way, FALSE, FALSE)]
    BY <1>6 DEF Ends
  <2>. DEFINE c == Blank(way, FALSE, FALSE)
  <2>2. Phase(c) = way /\ Budget(c) = 0 /\ c.applied = 0
    BY MappedBlank DEF Ended
  <2>3. call' = [call EXCEPT ![t] = c]
    BY <2>1
  <2>. HIDE DEF c
  <2>4. /\ Phases' = [Phases EXCEPT ![t] = way]
        /\ Onces' = [Onces EXCEPT ![t] = way = "open" /\ ~c.retry]
        /\ Budgets' = [Budgets EXCEPT ![t] = 0]
        /\ Effects' = [Effects EXCEPT ![t] = 0]
    <3>1. /\ Phases' = [Phases EXCEPT ![t] = Phase(c)]
          /\ Onces' = [Onces EXCEPT ![t] = Phase(c) = "open" /\ ~c.retry]
          /\ Budgets' = [Budgets EXCEPT ![t] = Budget(c)]
          /\ Effects' = [Effects EXCEPT ![t] = c.applied]
      BY <1>1, <2>3, MappedStep
    <3>. QED
      BY <2>2, <3>1
  <2>5. (way = "open" /\ ~c.retry) = FALSE
    OBVIOUS
  <2>6. way = "returned" => Effects[t] + hit > 0
    BY <1>1, <1>2, <2>1 DEF Regular
  <2>. QED
    BY <2>4, <2>5, <2>6
<1>7. Goes(t, hit) \/ Ends(t, hit)
  BY RequestFacts
<1>. QED
  BY <1>2, <1>4, <1>5, <1>6, <1>7
     DEF Calls!Request, Calls!End, Phases, Onces, Budgets, Effects

\* Every step of the client is a step of the contract, or leaves it alone.
LEMMA StepCall ==
  CallInv /\ [HttpNext]_httpVars => [Calls!CallNext]_(Calls!callVars)
<1>. SUFFICES ASSUME CallInv, [HttpNext]_httpVars
              PROVE  [Calls!CallNext]_(Calls!callVars)
  OBVIOUS
<1>1. ASSUME NEW t \in Threads, NEW retry \in BOOLEAN, NEW direct \in BOOLEAN,
             Begin(t, retry, direct)
      PROVE  Calls!CallNext
  BY <1>1, BeginOpens DEF Calls!CallNext
<1>2. ASSUME NEW t \in Threads, NEW answer \in Answers,
             NEW after \in RetryAfters, NEW hit \in {0, 1},
             Request(t, answer, after, hit)
      PROVE  Calls!CallNext
  BY <1>2, RequestCounts DEF Calls!CallNext
<1>3. ASSUME UNCHANGED <<Phases, Onces, Budgets, Effects>>
      PROVE  UNCHANGED Calls!callVars
  BY <1>3 DEF Calls!callVars, Phases, Onces, Budgets, Effects
<1>4. ASSUME NEW t \in Threads, Pass(t) \/ Resume(t)
      PROVE  UNCHANGED <<Phases, Onces, Budgets, Effects>>
  BY <1>4, MappedStage DEF Pass, Resume, Ended
<1>5. ASSUME UNCHANGED <<policy, call>>
      PROVE  UNCHANGED <<Phases, Onces, Budgets, Effects>>
  BY <1>5, MappedSame
<1>. QED
  BY <1>1, <1>2, <1>3, <1>4, <1>5 DEF HttpNext, Queue, Poll, Clock, httpVars

LEMMA InitCall == HttpInit => Calls!CallInit
<1>. SUFFICES ASSUME HttpInit PROVE Calls!CallInit
  OBVIOUS
<1>1. call = [t \in Threads |-> Blank("none", FALSE, FALSE)]
  BY DEF HttpInit
<1>2. /\ Phase(Blank("none", FALSE, FALSE)) = "none"
      /\ Budget(Blank("none", FALSE, FALSE)) = 0
      /\ Blank("none", FALSE, FALSE).applied = 0
  BY MappedBlank DEF Ended
<1>3. Phases = [t \in Threads |-> "none"]
  BY <1>1, <1>2 DEF Phases
<1>4. Onces = [t \in Threads |-> FALSE]
  BY <1>1, <1>2 DEF Onces
<1>5. Budgets = [t \in Threads |-> 0]
  BY <1>1, <1>2 DEF Budgets
<1>6. Effects = [t \in Threads |-> 0]
  BY <1>1, <1>2 DEF Effects
<1>. QED
  BY <1>3, <1>4, <1>5, <1>6
     DEF Calls!CallInit, Phases, Onces, Budgets, Effects

\* The client keeps the contract of RemoteCall: a call sends no more requests
\* than its policy allows, one when its caller forbids to repeat it, and it
\* returns a value only when the provider has applied it.
THEOREM ContractKept == HttpSpec => CallsKept
BY InitCall, StepCall, CallInvariance, PTL
   DEF HttpSpec, CallsKept, Calls!CallSpec

-----------------------------------------------------------------------------
(* The times of a call                                                     *)

\* The provers know no power, but that of two counts the subsets of a set.
LEMMA PowerOfTwo ==
  ASSUME NEW n \in Nat
  PROVE  2 ^ n \in Nat
<1>1. IsFiniteSet(1..n) /\ Cardinality(1..n) = n
  BY FS_Interval
<1>2. IsFiniteSet(SUBSET (1..n)) /\ Cardinality(SUBSET (1..n)) = 2 ^ n
  BY <1>1, FS_SUBSET
<1>. QED
  BY <1>2, FS_CardinalityType

LEMMA DelayNat ==
  ASSUME policy \in Policies, NEW n \in Nat
  PROVE  Delay(n) \in Nat
<1>1. /\ policy.backoff \in {"none", "linear", "exponential"}
      /\ policy.base_delay \in Nat /\ policy.max_delay \in Nat
  BY PolicyAssumption DEF Policy
<1>2. policy.base_delay * (n + 1) \in Nat
  BY <1>1
<1>3. policy.base_delay * 2 ^ n \in Nat
  BY <1>1, PowerOfTwo
<1>4. \A a, b \in Nat : AtMost(a, b) \in Nat
  BY DEF AtMost
<1>5. CASE policy.backoff = "none"
  BY <1>5 DEF Delay
<1>6. CASE policy.backoff = "linear"
  BY <1>1, <1>2, <1>4, <1>6 DEF Delay
<1>7. CASE policy.backoff = "exponential"
  BY <1>1, <1>3, <1>4, <1>7 DEF Delay
<1>. QED
  BY <1>1, <1>5, <1>6, <1>7

\* The pause is no shorter than what the provider asks for, within max_delay.
LEMMA PauseHeeds ==
  ASSUME policy \in Policies, NEW n \in Nat, NEW answer, NEW after \in Nat,
         after > 0 => answer = "limited"
  PROVE  /\ Pause(n, answer, after) \in Nat
         /\ AtMost(after, policy.max_delay) \in Nat
         /\ AtMost(after, policy.max_delay) <= Pause(n, answer, after)
<1>1. Delay(n) \in Nat
  BY DelayNat
<1>2. policy.max_delay \in Nat
  BY PolicyAssumption DEF Policy
<1>. QED
  BY <1>1, <1>2 DEF Pause, AtMost

\* A call that pauses does so for as long as the provider asked, one that waits
\* for a token or has it has done so.
Timed(c) ==
    /\ c.until \in Nat /\ c.heed \in Nat
    /\ c.stage = "pausing" => c.heed <= c.until
    /\ c.stage \in {"limited", "granted"} => c.heed <= now

TimedInv == \A t \in Threads : Timed(call[t])

LEMMA BlankTimed ==
  ASSUME now \in Nat, NEW stage, NEW retry, NEW direct
  PROVE  Timed(Blank(stage, retry, direct))
BY DEF Timed, Blank

LEMMA InitTimed == HttpInit => TimedInv
<1>. SUFFICES ASSUME HttpInit, NEW t \in Threads PROVE Timed(call[t])
  BY DEF TimedInv
<1>1. now \in Nat /\ call[t] = Blank("none", FALSE, FALSE)
  BY DEF HttpInit, Init
<1>. QED
  BY <1>1, BlankTimed

\* A step of one thread, with what it makes of the call.
LEMMA OneTimed ==
  ASSUME CallInv, TimedInv, now \in Nat, now' = now,
         NEW t \in Threads, NEW c, call' = [call EXCEPT ![t] = c], Timed(c)
  PROVE  TimedInv'
<1>. SUFFICES ASSUME NEW s \in Threads PROVE Timed(call[s])'
  BY DEF TimedInv
<1>1. Timed(call'[s])
  <2>1. CASE s = t
    BY <2>1 DEF CallInv
  <2>2. CASE s # t
    BY <2>2 DEF CallInv, TimedInv
  <2>. QED
    BY <2>1, <2>2
<1>. QED
  BY <1>1 DEF Timed

LEMMA RequestTimed ==
  ASSUME CallInv, TimedInv, now \in Nat, NEW t \in Threads,
         NEW answer, NEW after \in RetryAfters, NEW hit,
         Request(t, answer, after, hit)
  PROVE  TimedInv'
<1>1. Regular(call[t]) /\ policy \in Policies /\ after \in Nat
  BY PolicyAssumption DEF CallInv
<1>2. /\ now' = now
      /\ after > 0 => answer = "limited"
  BY DEF Request, vars
<1>. DEFINE pause == Pause(call[t].attempt, answer, after)
            asked == AtMost(after, policy.max_delay)
            c == Repeated(call[t], hit, now + pause, now + asked)
<1>3. pause \in Nat /\ asked \in Nat /\ asked <= pause
  BY <1>1, <1>2, PauseHeeds DEF Regular
<1>4. CASE call' = [call EXCEPT ![t] = c]
  <2>1. /\ c.until = now + pause /\ c.heed = now + asked
        /\ c.stage = "pausing"
    BY DEF Repeated
  <2>. HIDE DEF c, pause, asked
  <2>2. Timed(c)
    BY <1>3, <2>1 DEF Timed
  <2>. QED
    BY <1>2, <1>4, <2>2, OneTimed
<1>5. ASSUME NEW end,
             call' = [call EXCEPT ![t] = Blank(end, FALSE, FALSE)]
      PROVE  TimedInv'
  BY <1>2, <1>5, BlankTimed, OneTimed
<1>6. \/ call' = [call EXCEPT ![t] = c]
      \/ call' = [call EXCEPT ![t] = Blank(Outcome(call[t], answer),
                                           FALSE, FALSE)]
  BY DEF Request
<1>. QED
  BY <1>4, <1>5, <1>6

LEMMA StepTimed ==
  CallInv /\ TypeOK /\ TypeOK' /\ TimedInv /\ [HttpNext]_httpVars => TimedInv'
<1>. SUFFICES ASSUME CallInv, TypeOK, TypeOK', TimedInv, [HttpNext]_httpVars
              PROVE  TimedInv'
  OBVIOUS
<1>1. now \in Nat
  BY DEF TypeOK
<1>2. ASSUME NEW t \in Threads, NEW retry, NEW direct, Begin(t, retry, direct)
      PROVE  TimedInv'
  BY <1>1, <1>2, BlankTimed, OneTimed DEF Begin, Wait
<1>3. ASSUME NEW t \in Threads, Pass(t) \/ Resume(t)
      PROVE  TimedInv'
  <2>1. PICK stage \in {"granted", "limited"} :
          call' = [call EXCEPT ![t].stage = stage]
    BY <1>3 DEF Pass, Resume
  <2>. DEFINE c == [call[t] EXCEPT !.stage = stage]
  <2>2. /\ now' = now
        /\ \/ call[t].stage = "limited"
           \/ call[t].stage = "pausing" /\ call[t].until <= now
    BY <1>3 DEF Pass, Grant, Resume, Wait
  <2>3. Regular(call[t]) /\ Timed(call[t])
    BY DEF CallInv, TimedInv
  <2>4. c = [stage |-> stage, retry |-> call[t].retry,
             direct |-> call[t].direct, attempt |-> call[t].attempt,
             until |-> call[t].until, applied |-> call[t].applied,
             heed |-> call[t].heed]
    BY <2>3 DEF Regular
  <2>5. call' = [call EXCEPT ![t] = c]
    BY <2>1
  <2>. HIDE DEF c
  <2>6. Timed(c)
    BY <1>1, <2>2, <2>3, <2>4 DEF Timed
  <2>. QED
    BY <1>1, <2>2, <2>5, <2>6, OneTimed
<1>4. ASSUME NEW t \in Threads, NEW answer \in Answers,
             NEW after \in RetryAfters, NEW hit \in {0, 1},
             Request(t, answer, after, hit)
      PROVE  TimedInv'
  BY <1>1, <1>4, RequestTimed
<1>5. ASSUME call' = call, now' \in {now, now + 1} PROVE TimedInv'
  BY <1>1, <1>5 DEF TimedInv, Timed
<1>6. ASSUME NEW t \in Threads, Queue(t) \/ Poll(t)
      PROVE  call' = call /\ now' = now
  BY <1>6 DEF Queue, Poll, Acquire, Grant, Miss, Refuse, Sleep
<1>7. CASE Clock
  BY <1>5, <1>7 DEF Clock, Tick
<1>8. CASE UNCHANGED httpVars
  BY <1>5, <1>8 DEF httpVars, vars
<1>. QED
  BY <1>2, <1>3, <1>4, <1>5, <1>6, <1>7, <1>8 DEF HttpNext

LEMMA TimedInvariance == HttpSpec => []TimedInv
<1>1. HttpSpec => []TypeOK
  BY UsesLimiter, TypeCorrect DEF LimiterUsed
<1>. QED
  BY <1>1, InitTimed, StepTimed, CallInvariance, PTL DEF HttpSpec

\* A call that the provider told when to come back sends nothing before that
\* time, or before max_delay is over: whatever the backoff, and however long it
\* waits for a token after its pause.
THEOREM ComesBackInTime == HttpSpec => RetryAfterHonoured
<1>1. TimedInv /\ TypeOK =>
        \A t \in Threads : call[t].stage = "granted" /\ call'[t] # call[t]
                             => now >= call[t].heed
  BY DEF TimedInv, Timed, TypeOK
<1>2. HttpSpec => []TypeOK
  BY UsesLimiter, TypeCorrect DEF LimiterUsed
<1>. QED
  BY <1>1, <1>2, TimedInvariance, PTL DEF RetryAfterHonoured, HttpSpec

\* The state of the client keeps its types, and no call is repeated more often
\* than its policy allows.
THEOREM HttpTypeCorrect == HttpSpec => []HttpTypeOK
<1>1. CallInv /\ TimedInv /\ TypeOK /\ PaidInv => HttpTypeOK
  <2>. SUFFICES ASSUME CallInv, TimedInv, TypeOK, PaidInv PROVE HttpTypeOK
    OBVIOUS
  <2>1. ASSUME NEW t \in Threads
        PROVE  call[t] \in Call /\ call[t].attempt <= policy.max_retries
    <3>1. Regular(call[t]) /\ Timed(call[t])
      BY DEF CallInv, TimedInv
    <3>. QED
      BY <3>1 DEF Regular, Timed, Call, Ended
  <2>2. call \in [Threads -> Call] /\ policy \in Policies
    BY <2>1 DEF CallInv
  <2>. QED
    BY <2>1, <2>2 DEF HttpTypeOK, PaidInv
<1>2. HttpSpec => []TypeOK
  BY UsesLimiter, TypeCorrect DEF LimiterUsed
<1>. QED
  BY <1>1, <1>2, TimedInvariance, CallInvariance, InitPaid, StepPaid, PTL
     DEF HttpSpec

============================================================================
