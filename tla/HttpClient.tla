---------------------------- MODULE HttpClient ----------------------------
(***************************************************************************)
(* ResilientHttpClient.call: threads that share one client and so one      *)
(* limiter.  Every attempt waits for a token of RateLimiter, sends one     *)
(* request, classifies the answer, and execute_with_retry decides whether  *)
(* another attempt follows and after which pause.                          *)
(*                                                                         *)
(* The clock is that of RateLimiter; pauses are counted in its ticks.      *)
(***************************************************************************)
EXTENDS RateLimiter, FiniteSets

CONSTANTS
    Policies,    \* the retry policies of the manifests
    MaxRetries,  \* the largest of their max_retries
    RetryAfters  \* what Retry-After asks for, in ticks; 0 when it is missing

\* The fields of RetryPolicy that should_retry reads.  The sets of status codes
\* it also carries are read by nothing but the tests.
Policy == [max_retries: Nat, backoff: {"none", "linear", "exponential"},
           base_delay: Nat, max_delay: Nat]

ASSUME PolicyAssumption ==
    /\ Policies # {} /\ Policies \subseteq Policy
    /\ MaxRetries \in Nat
    /\ \A p \in Policies : p.max_retries <= MaxRetries
    /\ RetryAfters \subseteq Nat
ASSUME ThreadsAssumption == IsFiniteSet(Threads)

VARIABLES
    policy,   \* the policy of the client, chosen once
    call,     \* the call each thread is making, or how its last one ended
    requests  \* history: requests sent by all threads

httpVars == <<vars, policy, call, requests>>

\* auth is 401 and 403, limited 428 and 429, client any other 4xx; lost is a
\* refused connection or a timeout, broken any other exception.
Answers == {"ok", "auth", "limited", "client", "server", "lost", "broken"}

Responses == {"ok", "auth", "limited", "client", "server"}

\* The provider has acted on a call it answers with success; an answer of the
\* fourth hundred means that it has not; of the others we know nothing.
MayApply == {"ok", "server", "lost", "broken"}
MustApply == {"ok"}

Call == [stage: {"none", "limited", "granted", "pausing",
                 "returned", "unchecked", "raised"},
         retry: BOOLEAN, direct: BOOLEAN,
         attempt: Nat, until: Nat, applied: Nat, heed: Nat]

\* A call that has sent nothing yet, or is over and forgotten but for its end.
Blank(stage, retry, direct) ==
    [stage |-> stage, retry |-> retry, direct |-> direct,
     attempt |-> 0, until |-> 0, applied |-> 0, heed |-> 0]

\* A call whose request is to be repeated.
Repeated(c, hit, until, heed) ==
    [stage |-> "pausing", retry |-> c.retry, direct |-> c.direct,
     attempt |-> c.attempt + 1, until |-> until,
     applied |-> c.applied + hit, heed |-> heed]

Ended == {"none", "returned", "unchecked", "raised"}

-----------------------------------------------------------------------------
(* RetryPolicy                                                             *)

Delay(n) ==
    CASE policy.backoff = "none" -> 0
      [] policy.backoff = "linear" ->
           AtMost(policy.max_delay, policy.base_delay * (n + 1))
      [] policy.backoff = "exponential" ->
           AtMost(policy.max_delay, policy.base_delay * 2 ^ n)

Retryable == {"limited", "server", "lost"}

\* Faulty variant: one attempt too many.
ShouldRetryOneMore(n, answer) ==
    n <= policy.max_retries /\ answer \in Retryable

ShouldRetry(n, answer) == n < policy.max_retries /\ answer \in Retryable

\* Faulty variant: what the provider asks for is ignored.
PauseOwn(n, answer, after) == Delay(n)

Pause(n, answer, after) ==
    IF answer = "limited" /\ after > 0 THEN AtMost(after, policy.max_delay)
                                       ELSE Delay(n)

-----------------------------------------------------------------------------
HttpInit ==
    /\ Init
    /\ policy \in Policies
    /\ call = [t \in Threads |-> Blank("none", FALSE, FALSE)]
    /\ requests = 0

\* call(): the first attempt begins with rate_limiter.wait().
Begin(t, retry, direct) ==
    /\ call[t].stage \in Ended
    /\ Wait(t)
    /\ call' = [call EXCEPT ![t] = Blank("limited", retry, direct)]
    /\ UNCHANGED <<policy, requests>>

\* wait() returns.
Pass(t) ==
    /\ call[t].stage = "limited"
    /\ Grant(t)
    /\ call' = [call EXCEPT ![t].stage = "granted"]
    /\ UNCHANGED <<policy, requests>>

\* Faulty variant: the client goes on when it finds no token.
QueueNot(t) ==
    /\ call[t].stage = "limited"
    /\ \/ Miss(t) /\ UNCHANGED call
       \/ /\ thread[t].stage = "missed"
          /\ thread' = [thread EXCEPT ![t] = Idle]
          /\ call' = [call EXCEPT ![t].stage = "granted"]
          /\ UNCHANGED <<now, tokens, last, grants>>
    /\ UNCHANGED <<policy, requests>>

\* A thread in wait() finds no token, and sleeps.
Queue(t) ==
    /\ call[t].stage = "limited"
    /\ Miss(t) \/ Sleep(t)
    /\ UNCHANGED <<policy, call, requests>>

\* How an attempt that was answered, or was not, ends.  A direct_response is
\* returned unclassified.
Outcome(c, answer) ==
    CASE c.direct /\ answer \in Responses -> "unchecked"
      [] ~c.direct /\ answer = "ok" -> "returned"
      [] c.retry /\ ShouldRetry(c.attempt, answer)
           /\ ~(c.direct /\ answer \in Responses) -> "pausing"
      [] OTHER -> "raised"

Hit(answer) == IF answer \in MustApply THEN {1}
               ELSE IF answer \in MayApply THEN {0, 1} ELSE {0}

\* One request, its answer and the decision of execute_with_retry.  heed is
\* history: when the provider lets the call come back.
Request(t, answer, after, hit) ==
    LET c   == call[t]
        end == Outcome(c, answer)
    IN
    /\ c.stage = "granted"
    /\ hit \in Hit(answer)
    /\ after > 0 => answer = "limited"
    /\ call' = [call EXCEPT ![t] =
         IF end = "pausing"
         THEN Repeated(c, hit, now + Pause(c.attempt, answer, after),
                       now + AtMost(after, policy.max_delay))
         ELSE Blank(end, FALSE, FALSE)]
    /\ requests' = requests + 1
    /\ UNCHANGED <<vars, policy>>

\* Faulty variant: an attempt that is repeated does not queue again.
ResumeGranted(t) ==
    /\ call[t].stage = "pausing"
    /\ call[t].until <= now
    /\ call' = [call EXCEPT ![t].stage = "granted"]
    /\ UNCHANGED <<vars, policy, requests>>

\* The pause is over: the next attempt waits for a token like the first.
Resume(t) ==
    /\ call[t].stage = "pausing"
    /\ call[t].until <= now
    /\ Wait(t)
    /\ call' = [call EXCEPT ![t].stage = "limited"]
    /\ UNCHANGED <<policy, requests>>

\* A thread without a call takes a token of the shared limiter by acquire().
Poll(t) ==
    /\ call[t].stage \in Ended
    /\ \/ \E timeout \in Timeouts \cup {Never} : Acquire(t, timeout)
       \/ Grant(t) \/ Miss(t) \/ Refuse(t) \/ Sleep(t)
    /\ UNCHANGED <<policy, call, requests>>

Clock ==
    /\ Tick
    /\ UNCHANGED <<policy, call, requests>>

HttpNext ==
    \/ \E t \in Threads :
         \/ \E retry, direct \in BOOLEAN : Begin(t, retry, direct)
         \/ Pass(t) \/ Queue(t) \/ Resume(t) \/ Poll(t)
         \/ \E answer \in Answers, after \in RetryAfters, hit \in {0, 1} :
              Request(t, answer, after, hit)
    \/ Clock

HttpSpec == HttpInit /\ [][HttpNext]_httpVars

-----------------------------------------------------------------------------
(* What the client promises                                                *)

HttpTypeOK ==
    /\ TypeOK
    /\ policy \in Policies
    /\ call \in [Threads -> Call]
    /\ \A t \in Threads : call[t].attempt <= policy.max_retries
    /\ requests \in Nat

\* Every request to the provider has a token of its own, repeated ones too: the
\* bound the limiter sets on its grants is one on the requests.
EveryRequestPaid ==
    requests + Cardinality({t \in Threads : call[t].stage = "granted"})
        <= Len(grants)

\* A call that was told when to come back sends nothing before that time, or
\* before max_delay has passed.
RetryAfterHonoured ==
    [][\A t \in Threads :
          call[t].stage = "granted" /\ call'[t] # call[t]
              => now >= call[t].heed]_httpVars

\* However calls and polls use it, the limiter sees only what it allows.
LimiterUsed == Spec

\* The contract of RemoteCall: no more requests than allowed, one for a caller
\* that passes retry=False, and a value only for a call that was applied.
Phase(c) ==
    CASE c.stage \in {"limited", "granted", "pausing"} -> "open"
      [] OTHER -> c.stage

Budget(c) ==
    IF Phase(c) = "open"
    THEN (IF c.retry THEN policy.max_retries + 1 ELSE 1) - c.attempt
    ELSE 0

Calls == INSTANCE RemoteCall WITH
    Callers     <- Threads,
    MaxRequests <- MaxRetries + 1,
    phase       <- [t \in Threads |-> Phase(call[t])],
    once        <- [t \in Threads |->
                      Phase(call[t]) = "open" /\ ~call[t].retry],
    budget      <- [t \in Threads |-> Budget(call[t])],
    effects     <- [t \in Threads |-> call[t].applied]

CallsKept == Calls!CallSpec

=============================================================================
