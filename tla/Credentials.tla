---------------------------- MODULE Credentials ----------------------------
(***************************************************************************)
(* How the stored credentials of one connection are replaced while they    *)
(* are used: SAGA Web hands out a new key with any answer and blocks the   *)
(* old one; OAuth providers replace tokens when they are refreshed or when *)
(* the user authorizes the application again.                              *)
(*                                                                         *)
(* Every job loads a copy of the row, sends a key of the copy, and saves   *)
(* the copy with what the provider issued merged in.  Between the          *)
(* provider's switch to a new key and its save the answer can be lost, the *)
(* save can fail, the process can die and other jobs can run.              *)
(***************************************************************************)
EXTENDS TokenGrants

CONSTANTS
    Workers,       \* tasks, web requests and scripts that use the connection
    Setups,        \* the providers the connection may be of
    MaxTries,      \* requests per call: max_retries + 1
    MaxIssued,     \* bound: keys SAGA Web issues
    MaxDue,        \* bound: access tokens that expire
    MaxAuthorize,  \* bound: authorizations and keys set by an operator
    MaxFaults      \* bound: lost answers, failed saves, deaths, junk

ASSUME SetupsAssumption == Setups # {} /\ Setups \subseteq Providers
ASSUME BoundsAssumption ==
    /\ MaxTries \in Nat \ {0}
    /\ MaxIssued \in Nat /\ MaxDue \in Nat
    /\ MaxAuthorize \in Nat /\ MaxFaults \in Nat

VARIABLES
    provider,  \* of the connection, chosen once
    row,       \* Connection.credentials
    accepted,  \* the keys the provider takes: for a call of SAGA Web, or for
               \* a refresh
    live,      \* access tokens for which no refresh is due
    issued,    \* the last key or token issued
    job,       \* what each worker is doing
    due,       \* access tokens that expired so far
    granted,   \* authorizations so far, and keys set by an operator
    faults,    \* faults so far
    spoiled,   \* history: the row has a key nobody takes, through a fault or
               \* because the adapter forgets refresh tokens
    lockout    \* history: the provider refused a job that nothing disturbed

vars == <<provider, row, accepted, live, issued, job, due, granted, faults,
          spoiled, lockout>>

Kinds == {"read", "import", "refresh", "authorize"}
Stages == {"none", "ready", "answered", "captured"}
Statuses == {"none", "ok", "error", "refused"}

\* key: what the next request sends; the client of SAGA Web moves it on.
\* taken: how often the provider acted on the request of this job.
\* alone: no other job ran beside this one.
Idle ==
    [kind |-> "read", stage |-> "none", copy |-> [f \in Fields |-> 0],
     key |-> 0, status |-> "none", answer |-> [f \in Fields |-> 0],
     tries |-> 0, taken |-> 0, alone |-> TRUE]

NoAnswer == Idle.answer

Active(w) == job[w].stage # "none"

-----------------------------------------------------------------------------
(* The provider                                                            *)

\* A grant to the application: new tokens, next to those granted before.
GrantAnswer ==
    [access  |-> issued + 1,
     refresh |-> IF provider \in Steady \cup Rotating THEN issued + 2 ELSE 0]

\* What the provider takes of a grant: in a refresh, or as the key of SAGA Web.
Latest(a) == IF a.refresh # 0 THEN a.refresh ELSE a.access

\* The connection was authorized once, or given a key.
Init ==
    /\ provider \in Setups
    /\ LET first == [access  |-> 1,
                     refresh |-> IF provider \in Steady \cup Rotating
                                 THEN 2 ELSE 0]
       IN /\ row = IF provider = "saga_web" THEN first
                   ELSE Merged(NoAnswer, ExchangePatch(provider, first))
          /\ accepted = {Latest(first)}
          /\ issued = Latest(first)
    /\ live = {1}
    /\ job = [w \in Workers |-> Idle]
    /\ due = 0
    /\ granted = 0
    /\ faults = 0
    /\ spoiled = (provider \in Forgetting)
    /\ lockout = FALSE

\* The access token of a connection that can be refreshed expires.
Expire ==
    /\ due < MaxDue
    /\ provider \notin Permanent \cup {"saga_web"}
    /\ row.access \in live
    /\ due' = due + 1
    /\ live' = live \ {row.access}
    /\ UNCHANGED <<provider, row, accepted, issued, job, granted, faults,
                   spoiled, lockout>>

\* The request of w arrives.  The answer is left in the job.
Answered(w, status, answer) ==
    job' = [job EXCEPT ![w].stage = "answered", ![w].status = status,
                       ![w].answer = answer, ![w].tries = @ + 1,
                       ![w].taken = IF status = "refused" THEN @ ELSE @ + 1]

\* SAGA Web takes the key, and may send a new one with whatever it answers.
SagaAnswers(w) ==
    /\ job[w].kind \in {"read", "import"}
    /\ job[w].key \in accepted
    /\ \E status \in {"ok", "error"} :
         \/ /\ Answered(w, status, NoAnswer)
            /\ UNCHANGED <<accepted, issued>>
         \/ /\ issued < MaxIssued
            /\ issued' = issued + 1
            /\ accepted' = {issued'}
            /\ Answered(w, status, [access |-> issued', refresh |-> 0])
    /\ UNCHANGED live

RefreshAnswers(w) ==
    /\ job[w].kind = "refresh"
    /\ job[w].key \in accepted
    /\ LET fresh == issued + 1
           token == IF provider \in Rotating THEN issued + 2 ELSE 0
       IN /\ Answered(w, "ok", [access |-> fresh, refresh |-> token])
          /\ issued' = fresh + (IF provider \in Rotating THEN 1 ELSE 0)
          /\ live' = live \cup {fresh}
          /\ accepted' =
               CASE provider \in Rotating ->
                      (accepted \ {job[w].key}) \cup {token}
                 [] provider \in Exchanging -> accepted \cup {fresh}
                 [] OTHER -> accepted

\* The code is good once.
ExchangeAnswers(w) ==
    /\ job[w].kind = "authorize"
    /\ job[w].taken = 0
    /\ Answered(w, "ok", GrantAnswer)
    /\ issued' = Latest(GrantAnswer)
    /\ live' = live \cup {GrantAnswer.access}
    /\ accepted' = accepted \cup {Latest(GrantAnswer)}

Refuses(w) ==
    /\ \/ job[w].kind # "authorize" /\ job[w].key \notin accepted
       \/ job[w].kind = "authorize" /\ job[w].taken > 0
    /\ Answered(w, "refused", NoAnswer)
    /\ UNCHANGED <<accepted, issued, live>>

-----------------------------------------------------------------------------
(* The jobs                                                                *)

\* The access token of the row has expired or is about to.
RefreshDue ==
    /\ provider \notin Permanent \cup {"saga_web"}
    /\ row.access \notin live

\* The kinds of job there are with this provider; the host refreshes when it
\* is time.
Wanted(k) ==
    CASE k \in {"read", "import"} -> provider = "saga_web"
      [] k = "refresh"   -> RefreshDue
      [] k = "authorize" -> /\ provider # "saga_web"
                            /\ granted < MaxAuthorize

\* The job loads the row and builds its adapter.
Begin(w, k) ==
    /\ ~Active(w)
    /\ Wanted(k)
    /\ granted' = granted + (IF k = "authorize" THEN 1 ELSE 0)
    /\ LET busy == \E v \in Workers : Active(v)
           started == [Idle EXCEPT !.kind = k, !.stage = "ready", !.copy = row,
                         !.key = CASE k = "refresh"   -> Current(row)
                                   [] k = "authorize" -> 0
                                   [] OTHER           -> row.access,
                         !.alone = ~busy]
       IN job' = [v \in Workers |->
                    IF v = w THEN started
                    ELSE IF Active(v) THEN [job[v] EXCEPT !.alone = FALSE]
                    ELSE job[v]]
    /\ UNCHANGED <<provider, row, accepted, live, issued, due, faults, spoiled,
                   lockout>>

Finished(w) == job' = [job EXCEPT ![w] = Idle]

\* Faulty variant: a retry policy without the exception.
MayRetryAny(k, tries) == tries < MaxTries

\* Whether a failed request is sent again: an import never is.
MayRetry(k, tries) == k # "import" /\ tries < MaxTries

\* The next request, with the key the client holds now.
Again(j) == [j EXCEPT !.stage = "ready", !.status = "none", !.answer = NoAnswer]

\* The exchange of a request, its answer received.
Exchange(w) ==
    /\ job[w].stage = "ready"
    /\ \/ SagaAnswers(w)
       \/ RefreshAnswers(w)
       \/ ExchangeAnswers(w)
       \/ Refuses(w)
    /\ UNCHANGED <<provider, row, due, granted, faults, spoiled, lockout>>

\* No answer arrives: the provider was not reached, or its answer is dropped.
\* The request is sent again, or the call raises.
NoReply(w) ==
    LET tries == job[w].tries + (IF job[w].stage = "ready" THEN 1 ELSE 0)
    IN /\ job[w].stage \in {"ready", "answered"}
       /\ faults < MaxFaults
       /\ faults' = faults + 1
       /\ spoiled' = (spoiled \/ Current(row) \notin accepted)
       /\ IF MayRetry(job[w].kind, tries)
          THEN job' = [job EXCEPT ![w] = [Again(job[w]) EXCEPT !.tries = tries]]
          ELSE Finished(w)
       /\ UNCHANGED <<provider, row, accepted, live, issued, due, granted,
                      lockout>>

\* A page of some proxy answers instead, with status 200: an empty answer.
Junk(w) ==
    /\ job[w].stage = "ready"
    /\ job[w].kind \in {"refresh", "authorize"}
    /\ faults < MaxFaults
    /\ faults' = faults + 1
    /\ job' = [job EXCEPT ![w].stage = "answered", ![w].status = "ok",
                          ![w].answer = NoAnswer, ![w].tries = @ + 1]
    /\ UNCHANGED <<provider, row, accepted, live, issued, due, granted,
                   spoiled, lockout>>

\* What the answer replaces in the copy.
Patch(w) ==
    CASE job[w].kind = "refresh" ->
           RefreshPatch(provider, job[w].answer, job[w].key)
      [] job[w].kind = "authorize" -> ExchangePatch(provider, job[w].answer)
      [] OTHER -> SagaWebPatch(job[w].answer)

\* Faulty variant: an answer with an error status is not looked at.
NewKeyIfOk(w) ==
    job[w].status = "ok" /\ job[w].answer.access \notin {0, job[w].key}

\* SAGA Web: the header names a key other than the one in use.
NewKey(w) == job[w].answer.access \notin {0, job[w].key}

\* Faulty variant: the new key is saved, and the client goes on with the old.
ClientKeyOld(w) == job[w].key

\* The key of the client once it has looked at the answer.
ClientKey(w) == job[w].answer.access

\* _capture_refresh: the new key is saved before anything else is decided.
Capture(w) ==
    /\ job[w].stage = "answered"
    /\ job[w].kind \in {"read", "import"}
    /\ NewKey(w)
    /\ row' = Merged(job[w].copy, Patch(w))
    /\ job' = [job EXCEPT ![w].stage = "captured", ![w].copy = row',
                          ![w].key = ClientKey(w)]
    /\ UNCHANGED <<provider, accepted, live, issued, due, granted, faults,
                   spoiled, lockout>>

CaptureNothing(w) ==
    /\ job[w].stage = "answered"
    /\ job[w].kind \in {"read", "import"}
    /\ ~NewKey(w)
    /\ job' = [job EXCEPT ![w].stage = "captured"]
    /\ UNCHANGED <<provider, row, accepted, live, issued, due, granted, faults,
                   spoiled, lockout>>

\* apply_tokens.  An empty answer can wipe what it does not carry.
Apply(w) ==
    /\ job[w].stage = "answered"
    /\ job[w].kind \in {"refresh", "authorize"}
    /\ job[w].status = "ok"
    /\ Usable(provider, job[w].answer)
    /\ row' = Merged(job[w].copy, Patch(w))
    /\ spoiled' = \/ spoiled
                  \/ job[w].answer = NoAnswer /\ Current(row') \notin accepted
    /\ Finished(w)
    /\ UNCHANGED <<provider, accepted, live, issued, due, granted, faults,
                   lockout>>

\* The save raises, SagaWebCredentialsNotSaved or a database error: the job
\* ends, and the key that was issued goes with it.
SaveFails(w) ==
    /\ job[w].stage = "answered"
    /\ \/ job[w].kind \in {"read", "import"} /\ NewKey(w)
       \/ /\ job[w].kind \in {"refresh", "authorize"}
          /\ job[w].status = "ok"
          /\ Usable(provider, job[w].answer)
    /\ faults < MaxFaults
    /\ faults' = faults + 1
    /\ spoiled' = (spoiled \/ Current(row) \notin accepted)
    /\ Finished(w)
    /\ UNCHANGED <<provider, row, accepted, live, issued, due, granted, lockout>>

\* The provider refused the key, or the tokens are not usable.
Raise(w) ==
    /\ \/ /\ job[w].stage = "captured"
          /\ job[w].status = "refused"
       \/ /\ job[w].stage = "answered"
          /\ job[w].kind \in {"refresh", "authorize"}
          /\ job[w].status = "refused" \/ ~Usable(provider, job[w].answer)
    /\ lockout' = \/ lockout
                  \/ /\ job[w].status = "refused" /\ job[w].kind # "authorize"
                     /\ job[w].alone /\ ~spoiled
    /\ Finished(w)
    /\ UNCHANGED <<provider, row, accepted, live, issued, due, granted, faults,
                   spoiled>>

\* SAGA Web's status is handled: done, sent again, or raised.
Conclude(w) ==
    /\ job[w].stage = "captured"
    /\ job[w].status \in {"ok", "error"}
    /\ IF job[w].status = "error" /\ MayRetry(job[w].kind, job[w].tries)
       THEN job' = [job EXCEPT ![w] = Again(job[w])]
       ELSE Finished(w)
    /\ UNCHANGED <<provider, row, accepted, live, issued, due, granted, faults,
                   spoiled, lockout>>

Die(w) ==
    /\ Active(w)
    /\ faults < MaxFaults
    /\ faults' = faults + 1
    /\ spoiled' = (spoiled \/ Current(row) \notin accepted)
    /\ Finished(w)
    /\ UNCHANGED <<provider, row, accepted, live, issued, due, granted, lockout>>

\* ConnectionService.rotate_credentials with credentials from the provider's
\* own pages.  It repairs the connection, unless jobs with older ones are under
\* way, which may save theirs over them, or the adapter will leave out the next
\* refresh token as well.
RotateCredentials ==
    /\ granted < MaxAuthorize
    /\ granted' = granted + 1
    /\ row' = GrantAnswer
    /\ issued' = Latest(GrantAnswer)
    /\ accepted' = (IF provider = "saga_web" THEN {} ELSE accepted)
                     \cup {Latest(GrantAnswer)}
    /\ live' = live \cup {GrantAnswer.access}
    /\ spoiled' = \/ \E w \in Workers : Active(w)
                  \/ provider \in Forgetting \cap Rotating
    /\ UNCHANGED <<provider, job, due, faults, lockout>>

Work(w) ==
    \/ Exchange(w)
    \/ Capture(w)
    \/ CaptureNothing(w)
    \/ Apply(w)
    \/ Raise(w)
    \/ Conclude(w)

Next ==
    \/ Expire
    \/ RotateCredentials
    \/ \E w \in Workers :
         \/ \E k \in Kinds : Begin(w, k)
         \/ Work(w)
         \/ NoReply(w)
         \/ Junk(w)
         \/ SaveFails(w)
         \/ Die(w)

Spec == Init /\ [][Next]_vars

\* A job that runs goes on, and the host refreshes tokens on a schedule.
Fairness == \A w \in Workers : WF_vars(Work(w) \/ Begin(w, "refresh"))

FairSpec == Spec /\ Fairness

-----------------------------------------------------------------------------
(* What the stored credentials are good for                                *)

TypeOK ==
    /\ provider \in Setups
    /\ row \in [Fields -> Nat]
    /\ accepted \subseteq 1..issued /\ live \subseteq 1..issued
    /\ issued \in Nat
    /\ \A w \in Workers :
         /\ job[w].kind \in Kinds /\ job[w].stage \in Stages
         /\ job[w].status \in Statuses
         /\ job[w].copy \in [Fields -> Nat] /\ job[w].answer \in [Fields -> Nat]
         /\ job[w].key \in Nat
         /\ job[w].tries \in 0..MaxTries /\ job[w].taken \in 0..MaxTries
         /\ job[w].alone \in BOOLEAN
    /\ due \in 0..MaxDue
    /\ granted \in 0..MaxAuthorize
    /\ faults \in 0..MaxFaults
    /\ spoiled \in BOOLEAN /\ lockout \in BOOLEAN

\* The key that the provider takes is never lost by the code itself: it is in
\* the row, or a job that has just been given it is about to save it there.
\* Only a fault between the provider's switch and that save can lose it.
KeyKept ==
    \/ spoiled
    \/ Current(row) \in accepted
    \/ \E w \in Workers :
         /\ job[w].stage = "answered" /\ job[w].answer # NoAnswer
         /\ Current(Merged(job[w].copy, Patch(w))) \in accepted

\* A job that runs alone, on a row no fault has spoiled, is never refused: not
\* at its first request, nor at a retry after an answer that brought a new key.
NotLockedOut == ~lockout

\* The file of one import_file call is handed to SAGA Web at most once, whatever
\* is lost or answered with an error.
ImportOnce ==
    \A w \in Workers : job[w].kind = "import" => job[w].taken <= 1

\* Periodic refreshes keep the connection usable: an access token that expired
\* is replaced, unless a fault spoiled what it could be refreshed with.
Refreshed == RefreshDue ~> (~RefreshDue \/ spoiled)

=============================================================================
