------------------------------ MODULE Courier ------------------------------
(***************************************************************************)
(* Booking shipments with a courier: generate_awb of the courier adapters  *)
(* and the session token that their clients keep.                          *)
(*                                                                         *)
(* Several callers share one adapter.  A call looks up what the booking    *)
(* needs, books the shipment, for eColet waits until it is booked, and     *)
(* fetches the label.  Every request needs a token, which the courier may  *)
(* revoke at any time.  Nothing guards the token that the callers share:   *)
(* one looks whether there is one and then reads it, one stores the token  *)
(* of its login and another's refusal clears it, in any order.             *)
(***************************************************************************)
EXTENDS Naturals

CONSTANTS
    Callers,    \* threads that book, each its own shipments
    Setups,     \* the couriers the adapter may be of
    MaxTries,   \* requests per call of the HTTP client: max_retries + 1
    MaxCalls,   \* bound: calls of generate_awb for one shipment
    MaxLogins,  \* bound: logins
    MaxFaults   \* bound: requests whose answer is lost, outages

Couriers == {"fan", "cargus", "ecolet", "sameday", "colete", "dpd", "gls"}

ASSUME SetupsAssumption == Setups # {} /\ Setups \subseteq Couriers
ASSUME BoundsAssumption ==
    /\ MaxTries \in Nat \ {0} /\ MaxCalls \in Nat \ {0}
    /\ MaxLogins \in Nat /\ MaxFaults \in Nat

VARIABLES
    courier,   \* of the adapter, chosen once
    token,     \* _token of the client; 0: none
    fresh,     \* whether the clock has not reached _expires_at
    alive,     \* tokens the courier accepts
    logins,    \* the last token issued
    call,      \* what each caller is doing
    booked,    \* how often each caller's present shipment was booked
    faults,    \* faults so far
    unearned   \* history: a caller failed with a token that was good when it
               \* could last be told

vars == <<courier, token, fresh, alive, logins, call, booked, faults, unearned>>

\* stage: of generate_awb.  step: of _ensure_token before the next request.
\* header: the token of that request; 0: an empty one.  attempt: of the loop in
\* _call.  tries: requests for the booking.  struck: a token was lost since this
\* was last cleared.
Call == [stage: {"none", "prepare", "create", "wait", "label"},
         outcome: {"none", "label", "invalid", "auth", "failed"},
         step: {"ask", "answer", "read", "send"},
         header: Nat, attempt: 1..2, tries: 0..MaxTries, calls: 0..MaxCalls,
         struck: BOOLEAN]

NoCall == [stage |-> "none", outcome |-> "none", step |-> "ask", header |-> 0,
           attempt |-> 1, tries |-> 0, calls |-> 0, struck |-> FALSE]

-----------------------------------------------------------------------------
(* The clients                                                             *)

\* Credentials travel in every request.
Sessionless == {"dpd", "gls"}

\* A 401 makes the client log in again, once per call.
LogsInAgain == {"fan", "cargus"}

\* A 401 clears the token and is raised.
Clears == {"ecolet"}

\* The others keep a refused token until its time is over.

\* After a login the token is read again from the client.
ReReads == {"ecolet", "sameday", "colete"}

\* The adapter first asks the courier for what the booking needs: the branch,
\* the pickup point, the localities and the form of eColet.
LooksUp == {"fan", "cargus", "ecolet", "sameday", "dpd"}

\* The booking is sent under the retry policy of the HTTP client.
Retries == {"sameday", "colete"}

\* Faulty variant: any error of the courier reads as a refusal of the data.
RefusalAny(status) == courier \in {"cargus", "dpd", "gls", "fan"}

\* Whether an answer that is no booking becomes a ValidationError: the report of
\* a parcel in an answer with status 200 (fan, gls), a status below 500
\* (cargus), or an error object, whatever the status (dpd).
Refusal(status) ==
    \/ courier \in {"fan", "gls", "cargus", "dpd"} /\ status = "refused"
    \/ courier = "dpd" /\ status = "error"

\* Faulty variant: the refused token stays.
ClearedNot == token

\* What is left of the token after a 401.
Cleared == IF courier \in LogsInAgain \cup Clears THEN 0 ELSE token

\* AuthenticationError is no ProviderError: while a label is fetched it is
\* caught only where everything is.
SwallowsAuth == courier \in {"sameday", "colete"}

-----------------------------------------------------------------------------
Init ==
    /\ courier \in Setups
    /\ token = 0
    /\ fresh = FALSE
    /\ alive = {}
    /\ logins = 0
    /\ call = [c \in Callers |-> NoCall]
    /\ booked = [c \in Callers |-> 0]
    /\ faults = 0
    /\ unearned = FALSE

\* The courier drops a session: it expired early, or its server restarted.
Revoke(t) ==
    /\ t \in alive
    /\ alive' = alive \ {t}
    /\ call' = [c \in Callers |-> [call[c] EXCEPT !.struck = TRUE]]
    /\ UNCHANGED <<courier, token, fresh, logins, booked, faults, unearned>>

\* The clock reaches _expires_at; the courier may accept the token still.
Elapse ==
    /\ token # 0 /\ fresh
    /\ fresh' = FALSE
    /\ UNCHANGED <<courier, token, alive, logins, call, booked, faults,
                   unearned>>

\* A call that has no token yet for its next request.
Between(c, stage, outcome) ==
    [NoCall EXCEPT !.stage = stage, !.outcome = outcome,
                   !.calls = call[c].calls, !.struck = call[c].struck]

\* generate_awb is called; again for a shipment only when it was refused for
\* its data, which somebody then corrects.  Nothing is looked up that the
\* adapter was told or has found before; eColet always asks for the form.
Generate(c) ==
    /\ call[c].stage = "none"
    /\ call[c].outcome \in {"none", "invalid"}
    /\ call[c].calls < MaxCalls
    /\ \E stage \in (IF courier \in LooksUp THEN {"prepare"} ELSE {})
                      \cup (IF courier = "ecolet" THEN {} ELSE {"create"}) :
         call' = [call EXCEPT ![c] =
                   [Between(c, stage, "none") EXCEPT
                      !.calls = @ + 1,
                      !.struck = courier \notin LogsInAgain /\ @]]
    /\ UNCHANGED <<courier, token, fresh, alive, logins, booked, faults,
                   unearned>>

\* The caller is done with a shipment, whatever became of it, and goes on to
\* another one.
NextShipment(c) ==
    /\ call[c].stage = "none" /\ call[c].outcome # "none"
    /\ call' = [call EXCEPT ![c] = [NoCall EXCEPT !.struck = call[c].struck]]
    /\ booked' = [booked EXCEPT ![c] = 0]
    /\ UNCHANGED <<courier, token, fresh, alive, logins, faults, unearned>>

\* The caller is at this step of _ensure_token.
AtStep(c, step) ==
    /\ courier \notin Sessionless
    /\ call[c].stage # "none" /\ call[c].step = step

\* _ensure_token finds a stored token whose time is not over...
Look(c) ==
    /\ AtStep(c, "ask")
    /\ token # 0 /\ fresh
    /\ call' = [call EXCEPT ![c].step = "read"]
    /\ UNCHANGED <<courier, token, fresh, alive, logins, booked, faults,
                   unearned>>

\* ...and reads it again: another caller may have cleared it meanwhile.
Take(c) ==
    /\ AtStep(c, "read")
    /\ call' = [call EXCEPT ![c].step = "send", ![c].header = token]
    /\ UNCHANGED <<courier, token, fresh, alive, logins, booked, faults,
                   unearned>>

\* _ensure_token finds none and logs in: the courier issues a token.
LogIn(c) ==
    /\ AtStep(c, "ask")
    /\ token = 0 \/ ~fresh
    /\ logins < MaxLogins
    /\ logins' = logins + 1
    /\ alive' = alive \cup {logins'}
    /\ call' = [call EXCEPT ![c].step = "answer", ![c].header = logins']
    /\ UNCHANGED <<courier, token, fresh, booked, faults, unearned>>

\* The client stores the token of the answer, and uses it (fan, cargus) or reads
\* the stored one again.  One that was revoked on the way is lost to all.
Store(c) ==
    /\ AtStep(c, "answer")
    /\ token' = call[c].header
    /\ fresh' = TRUE
    /\ LET next == IF courier \in ReReads THEN "read" ELSE "send"
       IN  call' = [d \in Callers |->
                     [call[d] EXCEPT
                        !.step = IF d = c THEN next ELSE @,
                        !.struck = @ \/ call[c].header \notin alive]]
    /\ UNCHANGED <<courier, alive, logins, booked, faults, unearned>>

\* The call ends, with a label or an exception.
Ends(c, outcome) == call' = [call EXCEPT ![c] = Between(c, "none", outcome)]

\* The next request of the call: the token is asked for again.
Goes(c, stage) ==
    call' = [call EXCEPT ![c] = Between(c, stage, call[c].outcome)]

Granted(c) == courier \in Sessionless \/ call[c].header \in alive

Sends(c, stage) ==
    /\ call[c].stage = stage
    /\ courier \in Sessionless \/ call[c].step = "send"

\* The courier refuses the token, or the empty one.
Unauthorized(c) ==
    /\ \E stage \in {"prepare", "create", "wait", "label"} : Sends(c, stage)
    /\ ~Granted(c)
    /\ token' = IF courier \in LogsInAgain /\ call[c].attempt = 2 THEN token
                ELSE Cleared
    /\ IF courier \in LogsInAgain /\ call[c].attempt = 1
       THEN /\ call' = [call EXCEPT ![c] =
                         [Between(c, @.stage, @.outcome) EXCEPT !.attempt = 2]]
            /\ UNCHANGED unearned
       ELSE IF call[c].stage = "label" /\ SwallowsAuth
       THEN /\ Ends(c, "label")
            /\ UNCHANGED unearned
       ELSE /\ call' = [call EXCEPT ![c] =
                         [Between(c, "none", "auth") EXCEPT !.struck = FALSE]]
            /\ unearned' = (unearned
                             \/ (call[c].header # 0 /\ ~call[c].struck))
    /\ UNCHANGED <<courier, fresh, alive, logins, booked, faults>>

\* What the booking needs arrives, or not all of it yet; or there is no branch,
\* no pickup point, no service for this shipment; or the request fails.
Prepare(c) ==
    /\ Sends(c, "prepare") /\ Granted(c)
    /\ \/ \E stage \in {"prepare", "create"} : Goes(c, stage)
       \/ courier \in {"fan", "cargus", "ecolet"} /\ Ends(c, "invalid")
       \/ Ends(c, "failed")
    /\ UNCHANGED <<courier, token, fresh, alive, logins, booked, faults,
                   unearned>>

\* The shipment is booked; eColet only queues it.
Book(c) ==
    /\ Sends(c, "create") /\ Granted(c)
    /\ booked' = [booked EXCEPT ![c] = @ + 1]
    /\ Goes(c, IF courier = "ecolet" THEN "wait" ELSE "label")
    /\ UNCHANGED <<courier, token, fresh, alive, logins, faults, unearned>>

\* The courier refuses the data: nothing is booked.
Refuse(c) ==
    /\ Sends(c, "create") /\ Granted(c)
    /\ Ends(c, IF Refusal("refused") THEN "invalid" ELSE "failed")
    /\ UNCHANGED <<courier, token, fresh, alive, logins, booked, faults,
                   unearned>>

\* The booking goes wrong on the way: the courier may have made it or not, and
\* the caller gets no answer (timeout) or one of an outage (status 500), which
\* may hold an error object.  Under the retry policy the same request is sent
\* again.
Fail(c) ==
    /\ Sends(c, "create") /\ Granted(c)
    /\ faults < MaxFaults
    /\ faults' = faults + 1
    /\ \E made \in {0, 1}, status \in {"timeout", "outage", "error"} :
         /\ booked' = [booked EXCEPT ![c] = @ + made]
         /\ IF courier \in Retries /\ call[c].tries + 1 < MaxTries
            THEN call' = [call EXCEPT ![c].tries = @ + 1]
            ELSE Ends(c, IF status # "timeout" /\ Refusal(status)
                         THEN "invalid" ELSE "failed")
    /\ UNCHANGED <<courier, token, fresh, alive, logins, unearned>>

\* _wait_for_order: the order is booked, was refused, or is still queued when
\* the caller gives up.
Wait(c) ==
    /\ Sends(c, "wait") /\ Granted(c)
    /\ \/ /\ Goes(c, "label")
          /\ UNCHANGED booked
       \/ /\ Ends(c, "failed")
          /\ booked' = [booked EXCEPT ![c] = @ - 1]
       \/ /\ Goes(c, "wait")
          /\ UNCHANGED booked
       \/ /\ Ends(c, "failed")
          /\ UNCHANGED booked
    /\ UNCHANGED <<courier, token, fresh, alive, logins, faults, unearned>>

\* The label arrives or not: the number of the shipment is returned.
Label(c) ==
    /\ Sends(c, "label") /\ Granted(c)
    /\ Ends(c, "label")
    /\ UNCHANGED <<courier, token, fresh, alive, logins, booked, faults,
                   unearned>>

Step(c) ==
    \/ Look(c) \/ Take(c) \/ LogIn(c) \/ Store(c) \/ Unauthorized(c)
    \/ Prepare(c) \/ Book(c) \/ Refuse(c) \/ Wait(c) \/ Label(c)

Next ==
    \/ Elapse
    \/ \E t \in alive : Revoke(t)
    \/ \E c \in Callers : Generate(c) \/ NextShipment(c) \/ Step(c) \/ Fail(c)

Spec == Init /\ [][Next]_vars

-----------------------------------------------------------------------------
(* What callers rely on                                                    *)

TypeOK ==
    /\ courier \in Setups
    /\ token \in 0..logins
    /\ fresh \in BOOLEAN
    /\ alive \subseteq 1..logins
    /\ logins \in Nat
    /\ call \in [Callers -> Call]
    /\ booked \in [Callers -> Nat]
    /\ faults \in 0..MaxFaults
    /\ unearned \in BOOLEAN

\* A shipment is booked once at most, although it is sent again each time it is
\* refused for its data and although the courier may have booked it when the
\* answer was lost or was an error of its own.  Three couriers are left out:
\* Sameday and Colete Online send such a request again by themselves, and an
\* outage of DPD that answers with an error object reads as a refusal of the
\* data, which asks for the shipment to be sent again.
BookedOnce ==
    courier \notin Retries \cup {"dpd"} => \A c \in Callers : booked[c] <= 1

\* A session that the courier drops is replaced, whatever the callers do to the
\* token they share: a request that is refused for the token it bears fails its
\* call only if a token was lost since the call began (FAN Courier, Cargus), and
\* with eColet, which does not ask again, since the last call of the same caller
\* that failed so.  A token is lost when it is revoked, or stored after it was.
\* Left out are requests that bear an empty token, because another caller's
\* refusal cleared the shared one between look and use: they do fail calls.
SessionReplaced == courier \in LogsInAgain \cup Clears => ~unearned

=============================================================================
