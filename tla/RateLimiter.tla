--------------------------- MODULE RateLimiter ---------------------------
(***************************************************************************)
(* The token bucket of core/http/rate_limit.py, shared by the threads that *)
(* call one provider.                                                      *)
(*                                                                         *)
(* Time passes in ticks.  Tokens are counted in the ticks it takes to earn *)
(* them, so a request costs Interval ticks (1 / requests_per_second) and   *)
(* the bucket earns one per tick.  The rounding of floats is left out.     *)
(***************************************************************************)
EXTENDS Integers, Sequences

CONSTANTS
    Threads,   \* threads that share the limiter
    Interval,  \* ticks between two requests at the sustained rate
    Burst,     \* burst of the constructor
    Timeouts,  \* the timeouts, in ticks, acquire is called with
    MaxTime    \* bound: ticks

ASSUME RateAssumption ==
    /\ Interval \in Nat \ {0}
    /\ Burst \in Nat
ASSUME TimeAssumption ==
    /\ Timeouts \subseteq Nat
    /\ MaxTime \in Nat

VARIABLES
    now,     \* time.monotonic()
    tokens,  \* _tokens, in ticks
    last,    \* _last_refill
    thread,  \* what each thread is doing in wait or acquire
    grants   \* history: when each token was granted, in that order

vars == <<now, tokens, last, thread, grants>>

Never == -1

\* A thread tries to take a token, or has missed it and has left the lock.
\* deadline is Never in wait and in acquire(None).
Stages == {"idle", "trying", "missed"}

Thread == [stage: Stages, blocks: BOOLEAN, deadline: Nat \cup {Never},
           until: Nat]

Idle == [stage |-> "idle", blocks |-> FALSE, deadline |-> Never,
         until |-> 0]

\* max(burst, 1) tokens.
Capacity == (IF Burst > 1 THEN Burst ELSE 1) * Interval

AtMost(a, b) == IF a < b THEN a ELSE b

Init ==
    /\ now = 0
    /\ tokens = Capacity
    /\ last = 0
    /\ thread = [t \in Threads |-> Idle]
    /\ grants = <<>>

-----------------------------------------------------------------------------
\* wait()
Wait(t) ==
    /\ thread[t].stage = "idle"
    /\ thread' = [thread EXCEPT ![t] =
                    [Idle EXCEPT !.stage = "trying", !.blocks = TRUE,
                                 !.until = now]]
    /\ UNCHANGED <<now, tokens, last, grants>>

\* acquire(timeout), Never for None
Acquire(t, timeout) ==
    /\ thread[t].stage = "idle"
    /\ thread' = [thread EXCEPT ![t] =
                    [Idle EXCEPT !.stage = "trying", !.until = now,
                                 !.deadline = IF timeout = Never THEN Never
                                              ELSE now + timeout]]
    /\ UNCHANGED <<now, tokens, last, grants>>

\* Faulty variant: an idle bucket fills without limit.
FilledUncapped == tokens + (now - last)

\* _refill under the lock.
Filled == AtMost(Capacity, tokens + (now - last))

\* Faulty variant: a refill that grants does not move _last_refill.
RefilledAtKept == last

RefilledAt == now

\* A sleeping thread wakes when its sleep is over, or later.
Trying(t) == thread[t].stage = "trying" /\ thread[t].until <= now

Grant(t) ==
    /\ Trying(t)
    /\ Filled >= Interval
    /\ tokens' = Filled - Interval
    /\ last' = RefilledAt
    /\ thread' = [thread EXCEPT ![t] = Idle]
    /\ grants' = Append(grants, now)
    /\ UNCHANGED now

\* A thread that finds too little leaves the refilled bucket to the next.
Kept == Filled

Miss(t) ==
    /\ Trying(t)
    /\ Filled < Interval
    /\ tokens' = Kept
    /\ last' = now
    /\ thread' = [thread EXCEPT ![t].stage = "missed"]
    /\ UNCHANGED <<now, grants>>

\* acquire has no deadline to wait for, or has reached it.
Over(t) ==
    ~thread[t].blocks
        /\ (thread[t].deadline = Never \/ thread[t].deadline - now <= 0)

Refuse(t) ==
    /\ thread[t].stage = "missed"
    /\ Over(t)
    /\ thread' = [thread EXCEPT ![t] = Idle]
    /\ UNCHANGED <<now, tokens, last, grants>>

\* Sleep for the time of one token, but not past the deadline.
Sleep(t) ==
    LET pause == IF thread[t].blocks THEN Interval
                 ELSE AtMost(Interval, thread[t].deadline - now)
    IN
    /\ thread[t].stage = "missed"
    /\ ~Over(t)
    /\ thread' = [thread EXCEPT ![t].stage = "trying",
                                ![t].until = now + pause]
    /\ UNCHANGED <<now, tokens, last, grants>>

Tick ==
    /\ now < MaxTime
    /\ now' = now + 1
    /\ UNCHANGED <<tokens, last, thread, grants>>

Next ==
    \/ \E t \in Threads :
         \/ Wait(t)
         \/ \E timeout \in Timeouts \cup {Never} : Acquire(t, timeout)
         \/ Grant(t) \/ Miss(t) \/ Refuse(t) \/ Sleep(t)
    \/ Tick

Spec == Init /\ [][Next]_vars

-----------------------------------------------------------------------------
(* What the limiter promises                                               *)

TypeOK ==
    /\ now \in 0..MaxTime
    /\ tokens \in 0..Capacity
    /\ last \in 0..now
    /\ thread \in [Threads -> Thread]
    /\ grants \in Seq(0..now)

\* In every window of time, the threads together are granted no more than the
\* burst and what the rate earns in that time.
WindowBound ==
    \A i, j \in 1..Len(grants) :
        i <= j => (j - i + 1) * Interval <= Capacity + (grants[j] - grants[i])

\* No token is lost: who finds the bucket short is within a window that the
\* grants have used up, one more would break WindowBound.
NoTokenLost ==
    Filled < Interval =>
        \E i \in 1..Len(grants) :
            (Len(grants) - i + 2) * Interval > Capacity + (now - grants[i])

=============================================================================
