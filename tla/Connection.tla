---------------------------- MODULE Connection ----------------------------
(***************************************************************************)
(* The circuit breaker of one row of AbstractConnection, as the concurrent *)
(* workers and operators of the Django layer drive it.                     *)
(*                                                                         *)
(* A worker never edits the row itself: it loads a copy, calls the         *)
(* provider with the credentials of that copy, edits the copy and saves    *)
(* some of its fields (update_fields).  Whatever other workers saved in    *)
(* between is neither seen nor merged.                                     *)
(***************************************************************************)
EXTENDS Naturals

CONSTANTS
    Workers,    \* Celery workers, web requests and operators at a shell
    Keys,       \* the credentials a row may hold
    Kinds,      \* the kinds of job that run in this deployment
    Threshold,  \* AUTH_FAILURE_THRESHOLD
    MaxCount,   \* where the failure counters of the model saturate
    MayCrash    \* whether a worker may be killed in the middle of a job

AllKinds ==
    {"execute", "sync", "pull", "webhook", "test", "service_test",
     "oauth", "re_enable", "edit"}

ASSUME ThresholdAssumption ==
    /\ Threshold \in Nat \ {0}
    /\ MaxCount \in Nat
    /\ MaxCount >= Threshold
ASSUME KeysAssumption == Keys # {}
ASSUME KindsAssumption == Kinds \subseteq AllKinds
ASSUME CrashAssumption == MayCrash \in BOOLEAN

VARIABLES
    row,       \* the database row
    accepted,  \* the keys the provider still accepts
    job,       \* what each worker is doing, with its copy of the row
    heard,     \* the status last announced by connection_status_changed
    alerted,   \* whether connection_disabled was ever sent
    total,     \* history: auth failures that account for the row's state
    streak,    \* history: consecutive refusals since a success or a re-enable
    muted      \* history: a worker died between a save and its signals

vars == <<row, accepted, job, heard, alerted, total, streak, muted>>

-----------------------------------------------------------------------------
(* Data                                                                    *)

Row == [is_enabled: BOOLEAN, is_connected: BOOLEAN,
        auth_failure_count: 0..MaxCount, disabled_reason: BOOLEAN,
        credentials: Keys]

\* disabled_reason is kept as "is it non-empty"; timestamps are left out.

Status(r) == <<r.is_enabled, r.is_connected>>

Stages == {"idle", "loaded", "answered", "saved"}
Answers == {"none", "ok", "refused", "down"}

Job == [kind: AllKinds, stage: Stages, answer: Answers,
        copy: Row, was: BOOLEAN \X BOOLEAN]

IsOperational(r) == r.is_enabled /\ r.is_connected

\* Tasks that call _guard_operational before anything else.
Guarded == {"execute", "sync"}

\* Jobs whose own handler records an AuthenticationError.  A "sync" job does
\* not: SyncService.incremental_sync catches the exception before its task.
Recording == {"execute", "pull", "webhook"}

Calling == AllKinds \ {"re_enable", "edit"}

Up(n) == IF n < MaxCount THEN n + 1 ELSE n

\* What save(update_fields=fields) leaves in the row, from the copy d.
Saved(d, fields) ==
    [is_enabled |->
        IF "is_enabled" \in fields THEN d.is_enabled ELSE row.is_enabled,
     is_connected |->
        IF "is_connected" \in fields THEN d.is_connected ELSE row.is_connected,
     auth_failure_count |->
        IF "auth_failure_count" \in fields THEN d.auth_failure_count
                                           ELSE row.auth_failure_count,
     disabled_reason |->
        IF "disabled_reason" \in fields THEN d.disabled_reason
                                        ELSE row.disabled_reason,
     credentials |->
        IF "credentials" \in fields THEN d.credentials ELSE row.credentials]

\* An idle worker holds no copy worth keeping.
Idle ==
    LET blank == [is_enabled |-> TRUE, is_connected |-> FALSE,
                  auth_failure_count |-> 0, disabled_reason |-> FALSE,
                  credentials |-> CHOOSE k \in Keys : TRUE]
    IN [kind |-> "execute", stage |-> "idle", answer |-> "none",
        copy |-> blank, was |-> Status(blank)]

-----------------------------------------------------------------------------
Init ==
    \E k \in Keys, c \in BOOLEAN :
        /\ row = [is_enabled |-> TRUE, is_connected |-> c,
                  auth_failure_count |-> 0, disabled_reason |-> FALSE,
                  credentials |-> k]
        /\ accepted = Keys
        /\ job = [w \in Workers |-> Idle]
        /\ heard = Status(row)
        /\ alerted = FALSE
        /\ total = 0
        /\ streak = 0
        /\ muted = FALSE

\* A job loads the row.  A guarded task that finds it not operational returns.
Begin(w, k) ==
    /\ job[w].stage = "idle"
    /\ k \in Guarded => IsOperational(row)
    /\ job' = [job EXCEPT ![w] =
                [kind |-> k, stage |-> "loaded", answer |-> "none",
                 copy |-> row, was |-> Status(row)]]
    /\ UNCHANGED <<row, accepted, heard, alerted, total, streak, muted>>

\* The provider answers the credentials of the copy: AuthenticationError when
\* it no longer accepts them, any other failure at any time.  The exchange of
\* an OAuth code does not use the stored credentials.
Answer(w) ==
    /\ job[w].stage = "loaded"
    /\ job[w].kind \in Calling
    /\ \E a \in Answers \ {"none"} :
         /\ a = "ok" => \/ job[w].kind = "oauth"
                        \/ job[w].copy.credentials \in accepted
         /\ a = "refused" => /\ job[w].kind # "oauth"
                             /\ job[w].copy.credentials \notin accepted
         /\ job' = [job EXCEPT ![w].stage = "answered", ![w].answer = a]
    /\ UNCHANGED <<row, accepted, heard, alerted, total, streak, muted>>

\* The copy d is saved; the signal handlers run before the job ends.
Persist(w, d, fields) ==
    /\ row' = Saved(d, fields)
    /\ job' = [job EXCEPT ![w].stage = "saved", ![w].copy = d]
    /\ UNCHANGED <<accepted, heard, alerted, muted>>

Tally(w) ==
    streak' = CASE job[w].answer = "ok" -> 0
                [] job[w].answer = "refused" -> Up(streak)
                [] OTHER -> streak

\* n recorded failures account for a version of the row.
Earns(n, r) ==
    /\ r.auth_failure_count <= n
    /\ ~r.is_enabled => Threshold <= n

MayStillSave(w) == job[w].stage \in {"loaded", "answered"}

\* The count starts anew from the row r that worker w leaves: as few failures
\* as account for r and for every copy that another job may still save.
Recount(w, r) ==
    LET Accounts(n) ==
          /\ Earns(n, r)
          /\ \A v \in Workers \ {w} :
                MayStillSave(v) => Earns(n, job[v].copy)
    IN total' \in {n \in 0..MaxCount :
                    /\ Accounts(n)
                    /\ \A m \in 0..MaxCount : Accounts(m) => n <= m}

RecordsTestsOnly(j) ==
    j.kind = "test" /\ j.answer # "ok"

RecordsFailure(j) ==
    \/ j.kind \in Recording /\ j.answer = "refused"
    \/ j.kind = "test" /\ j.answer # "ok"

MarksConnected(j) ==
    /\ j.answer = "ok"
    /\ \/ j.kind \in {"test", "oauth"}
       \/ j.kind \in Guarded /\ ~j.copy.is_connected

\* A faulty variant: the breaker opens above the threshold only.
FailedOneLate(c) ==
    LET n == Up(c.auth_failure_count) IN
    [c EXCEPT !.auth_failure_count = n, !.is_connected = FALSE,
              !.is_enabled = @ /\ n <= Threshold]

\* record_auth_failure on the job's copy.
Failed(c) ==
    LET n == Up(c.auth_failure_count) IN
    IF n >= Threshold
    THEN [c EXCEPT !.auth_failure_count = n, !.is_connected = FALSE,
                   !.is_enabled = FALSE, !.disabled_reason = TRUE]
    ELSE [c EXCEPT !.auth_failure_count = n, !.is_connected = FALSE]

FailedFieldsWholeStatus(d) ==
    {"auth_failure_count", "is_connected", "is_enabled", "disabled_reason"}

FailedFields(d) ==
    {"auth_failure_count", "is_connected"}
        \cup IF d.auth_failure_count >= Threshold
             THEN {"is_enabled", "disabled_reason"} ELSE {}

RecordAuthFailure(w) ==
    /\ job[w].stage = "answered"
    /\ RecordsFailure(job[w])
    /\ LET d == Failed(job[w].copy) IN Persist(w, d, FailedFields(d))
    /\ total' = Up(total)
    /\ Tally(w)

\* mark_connected on the job's copy; complete_authorization saves the new
\* credentials first.
Connected(c) ==
    [c EXCEPT !.is_connected = TRUE, !.auth_failure_count = 0,
              !.disabled_reason = FALSE]

ConnectedFields == {"is_connected", "auth_failure_count", "disabled_reason"}

MarkConnected(w) ==
    /\ job[w].stage = "answered"
    /\ MarksConnected(job[w])
    /\ \/ /\ job[w].kind # "oauth"
          /\ Persist(w, Connected(job[w].copy), ConnectedFields)
       \/ /\ job[w].kind = "oauth"
          /\ \E k \in Keys :
               Persist(w, [Connected(job[w].copy) EXCEPT !.credentials = k],
                       ConnectedFields \cup {"credentials"})
    /\ Tally(w)
    /\ Recount(w, [row EXCEPT !.auth_failure_count = 0])

\* re_enable on the job's copy.
ReEnabled(c) ==
    [c EXCEPT !.is_enabled = TRUE, !.auth_failure_count = 0,
              !.disabled_reason = FALSE]

\* A faulty variant: the flag alone is saved.
ReEnabledFieldsFlagOnly == {"is_enabled", "disabled_reason"}

ReEnabledFields == {"is_enabled", "auth_failure_count", "disabled_reason"}

ReEnable(w) ==
    /\ job[w].stage = "loaded"
    /\ job[w].kind = "re_enable"
    /\ Persist(w, ReEnabled(job[w].copy), ReEnabledFields)
    /\ streak' = 0
    /\ Recount(w, [row EXCEPT !.auth_failure_count = 0, !.is_enabled = TRUE])

\* ConnectionService.test_connection: is_connected alone, and no signal.
ServiceTest(w) ==
    /\ job[w].stage = "answered"
    /\ job[w].kind = "service_test"
    /\ row' = [row EXCEPT !.is_connected = job[w].answer = "ok"]
    /\ job' = [job EXCEPT ![w] = Idle]
    /\ Tally(w)
    /\ UNCHANGED <<accepted, heard, alerted, total, muted>>

\* The documented recovery: new credentials on a copy, then a plain save(),
\* which writes every field of the copy and sends no signal.
Edit(w) ==
    /\ job[w].stage = "loaded"
    /\ job[w].kind = "edit"
    /\ \E k \in Keys : row' = [job[w].copy EXCEPT !.credentials = k]
    /\ job' = [job EXCEPT ![w] = Idle]
    /\ Recount(w, job[w].copy)
    /\ UNCHANGED <<accepted, heard, alerted, streak, muted>>

\* Every answer that leads to no write on the connection.
Dismiss(w) ==
    /\ job[w].stage = "answered"
    /\ ~RecordsFailure(job[w])
    /\ ~MarksConnected(job[w])
    /\ job[w].kind # "service_test"
    /\ job' = [job EXCEPT ![w] = Idle]
    /\ Tally(w)
    /\ UNCHANGED <<row, accepted, heard, alerted, total, muted>>

EmitConnectedOnly(w) ==
    LET c == job[w].copy IN
    /\ job[w].stage = "saved"
    /\ heard' = IF Status(c)[2] # job[w].was[2] THEN Status(c) ELSE heard
    /\ alerted' = alerted
    /\ job' = [job EXCEPT ![w] = Idle]
    /\ UNCHANGED <<row, accepted, total, streak, muted>>

\* _emit_status_changed compares the copy with what the copy was when it was
\* loaded; connection_disabled goes out whenever the count is at the threshold.
Emit(w) ==
    LET c == job[w].copy IN
    /\ job[w].stage = "saved"
    /\ heard' = IF Status(c) # job[w].was THEN Status(c) ELSE heard
    /\ alerted' = (alerted \/ (/\ RecordsFailure(job[w])
                               /\ c.auth_failure_count >= Threshold))
    /\ job' = [job EXCEPT ![w] = Idle]
    /\ UNCHANGED <<row, accepted, total, streak, muted>>

\* The worker is killed (Celery's hard time_limit, a deploy, an OOM).
Crash(w) ==
    /\ MayCrash
    /\ job[w].stage # "idle"
    /\ muted' = (muted \/ job[w].stage = "saved")
    /\ job' = [job EXCEPT ![w] = Idle]
    /\ UNCHANGED <<row, accepted, heard, alerted, total, streak>>

\* rotate_credentials and refresh_tokens save the credentials alone.
RotateCredentials(k) ==
    /\ row' = [row EXCEPT !.credentials = k]
    /\ UNCHANGED <<accepted, job, heard, alerted, total, streak, muted>>

\* The provider stops accepting a key.
Revoke(k) ==
    /\ accepted' = accepted \ {k}
    /\ UNCHANGED <<row, job, heard, alerted, total, streak, muted>>

\* The next step of a job that has begun.
Proceed(w) ==
    \/ Answer(w) \/ RecordAuthFailure(w) \/ MarkConnected(w) \/ ReEnable(w)
    \/ ServiceTest(w) \/ Edit(w) \/ Dismiss(w) \/ Emit(w)

Next ==
    \/ \E w \in Workers :
        \/ \E k \in Kinds : Begin(w, k)
        \/ Proceed(w)
        \/ Crash(w)
    \/ \E k \in Keys : RotateCredentials(k) \/ Revoke(k)

Spec == Init /\ [][Next]_vars

\* A job that has started runs on; Celery beat keeps starting guarded tasks.
Fairness ==
    /\ \A w \in Workers : WF_vars(Proceed(w))
    /\ WF_vars(\E w \in Workers, k \in Guarded \cap Kinds : Begin(w, k))

FairSpec == Spec /\ Fairness

-----------------------------------------------------------------------------
(* What the circuit breaker promises                                       *)

TypeOK ==
    /\ row \in Row
    /\ accepted \subseteq Keys
    /\ job \in [Workers -> Job]
    /\ heard \in BOOLEAN \X BOOLEAN
    /\ alerted \in BOOLEAN
    /\ total \in 0..MaxCount
    /\ streak \in 0..MaxCount
    /\ muted \in BOOLEAN

\* One recorded failure suspends the guarded tasks at once: whatever copies the
\* workers hold and in whatever order they save them, a row with failures on
\* its count is not connected.  (record_auth_failure, mark_connected and
\* re_enable write the two fields in step; needs Kinds without "service_test".)
SuspectNotOperational ==
    row.auth_failure_count > 0 => ~row.is_connected

\* A count at the threshold always comes with a disabled row, stale saves or not.
ThresholdDisables ==
    row.auth_failure_count >= Threshold => ~row.is_enabled

\* Lost updates only ever lose failures: no row is disabled before Threshold
\* failures were really recorded since the count was last reset, by a success,
\* a re_enable or an edit, on top of what the row it left and the copies of
\* the jobs then under way carried.  So every trip is earned anew, and a job
\* that outlives a repair can bring back no more than it had loaded.
NoSpuriousTrip ==
    ~row.is_enabled => total >= Threshold

\* A tripped breaker stays tripped until an operator acts: the step that turns
\* is_enabled back on is one of re_enable or of an edit by hand, never a late
\* answer, a stale copy or a successful test.
OnlyManualReenable ==
    [][~row.is_enabled /\ row'.is_enabled
        => \E w \in Workers :
              /\ job[w].kind \in {"re_enable", "edit"}
              /\ job'[w] # job[w]]_vars

Quiet == \A w \in Workers : job[w].stage = "idle"

\* Threshold refusals in a row leave the connection disabled.  (Holds with one
\* worker; with two, the second save hides the first, see the README.)
ConsecutiveFailuresDisable ==
    Quiet /\ streak >= Threshold => ~row.is_enabled

\* A listener of connection_status_changed knows the status of the row whenever
\* no job is under way, unless a worker died with its signals unsent.  (Holds
\* with one worker and no "service_test".)
StatusAnnounced ==
    Quiet /\ ~muted => heard = Status(row)

\* No cron loop hammers a broken provider: once the stored credentials stay
\* refused and operators stop repairing the row by hand, the guarded tasks get
\* finitely many refusals.
StormEnds ==
    <>[](/\ row.credentials \notin accepted
         /\ \A w \in Workers : job[w].kind \notin {"re_enable", "edit"})
    => <>[](\A w \in Workers :
              ~(job[w].kind \in Guarded /\ job[w].answer = "refused"))

\* A trip is announced by connection_disabled, with the same exception.
TripAlerted ==
    ~row.is_enabled ~> (alerted \/ muted)

=============================================================================
