----------------------------- MODULE Webhook -----------------------------
(***************************************************************************)
(* Incoming webhooks: the receiver view verifies a request, looks its      *)
(* idempotency key up, stores a WebhookEvent row under that unique key,    *)
(* and hands the row to the Celery task process_webhook.  The provider may *)
(* send a notification again, also while the first request still runs.     *)
(*                                                                         *)
(* The key is computed from the body, so a notification is its own key.    *)
(***************************************************************************)
EXTENDS Naturals, FiniteSets

CONSTANTS
    Notifications,  \* what the provider has to tell us, one key each
    NoNotification, \* the subject of an idle request or worker
    Requests,       \* web requests handled at the same time
    Workers,        \* Celery workers
    MaxDeliveries,  \* bound: requests the provider sends for a notification
    MaxFaults,      \* bound: failures of the database, the broker, a worker
    MayCrash        \* whether a request or a worker may die

ASSUME BoundsAssumption ==
    /\ MaxDeliveries \in Nat \ {0}
    /\ MaxFaults \in Nat
ASSUME IdleAssumption == NoNotification \notin Notifications
ASSUME CrashAssumption == MayCrash \in BOOLEAN
ASSUME FiniteAssumption == IsFiniteSet(Requests) /\ IsFiniteSet(Workers)

VARIABLES
    event,       \* the status of the row stored under each key
    rejected,    \* rows stored for requests that failed verification
    request,     \* what each web request is doing
    queue,       \* process_webhook tasks waiting in the broker, per row
    task,        \* what each Celery worker is doing
    deliveries,  \* requests sent so far for each notification
    announced,   \* history: webhook_event_received signals of each row
    processed,   \* history: webhook_event_processed signals of each row
    accepted,    \* history: notifications that passed verification and were answered
    hit,         \* history: notifications a failure fell upon
    faults

vars == <<event, rejected, request, queue, task, deliveries, announced,
          processed, accepted, hit, faults>>

history == <<announced, processed, accepted>>

Statuses == {"received", "processing", "processed", "failed", "duplicate"}

RequestStages == {"idle", "new", "known", "stored", "announced"}
TaskStages == {"idle", "processing", "signalling"}

Init ==
    /\ event = [n \in Notifications |-> "absent"]
    /\ rejected = [n \in Notifications |-> 0]
    /\ request = [r \in Requests |-> [stage |-> "idle", about |-> NoNotification]]
    /\ queue = [n \in Notifications |-> 0]
    /\ task = [w \in Workers |-> [stage |-> "idle", about |-> NoNotification]]
    /\ deliveries = [n \in Notifications |-> 0]
    /\ announced = [n \in Notifications |-> 0]
    /\ processed = [n \in Notifications |-> 0]
    /\ accepted = {}
    /\ hit = {}
    /\ faults = 0

\* A failure of the database, the broker or a process, while n is handled.
FaultOn(n) ==
    /\ faults < MaxFaults
    /\ faults' = faults + 1
    /\ hit' = hit \cup {n}

-----------------------------------------------------------------------------
(* The receiver view                                                       *)

Go(r, stage) == request' = [request EXCEPT ![r].stage = stage]

Leave(r) ==
    request' = [request EXCEPT ![r] = [stage |-> "idle",
                                       about |-> NoNotification]]

Arrives(r, n) ==
    /\ request[r].stage = "idle"
    /\ deliveries[n] < MaxDeliveries
    /\ deliveries' = [deliveries EXCEPT ![n] = @ + 1]

\* Faulty variant: a rejected request takes the key of its body.
StoreRejectedUnderKey(n) ==
    /\ rejected' = rejected
    /\ event' = [event EXCEPT ![n] = IF @ = "absent" THEN "duplicate" ELSE @]

\* _store_rejected keeps the request under a random key.
StoreRejected(n) ==
    /\ rejected' = [rejected EXCEPT ![n] = @ + 1]
    /\ event' = event

\* The signature is wrong: the request is stored for inspection and answered.
Reject(r, n) ==
    /\ Arrives(r, n)
    /\ StoreRejected(n)
    /\ UNCHANGED <<request, queue, task, history, hit, faults>>

\* The signature is right; is_duplicate asks whether the key is stored.
Verify(r, n) ==
    /\ Arrives(r, n)
    /\ request' = [request EXCEPT ![r] =
                    [stage |-> IF event[n] = "absent" THEN "new" ELSE "known",
                     about |-> n]]
    /\ UNCHANGED <<event, rejected, queue, task, history, hit, faults>>

\* Faulty variant: the key is not unique, a second row is stored and announced.
TakenNever(n) == FALSE

\* The database refuses a second row under the same key.
Taken(n) == event[n] # "absent"

Create(r) ==
    LET n == request[r].about IN
    /\ request[r].stage = "new"
    /\ ~Taken(n)
    /\ event' = [event EXCEPT ![n] = "received"]
    /\ Go(r, "stored")
    /\ UNCHANGED <<rejected, queue, task, deliveries, history, hit, faults>>

\* IntegrityError: the view swallows it and answers 200; nothing is dispatched.
Conflict(r) ==
    LET n == request[r].about IN
    /\ request[r].stage = "new"
    /\ Taken(n)
    /\ accepted' = accepted \cup {n}
    /\ Leave(r)
    /\ UNCHANGED <<event, rejected, queue, task, deliveries, announced,
                   processed, hit, faults>>

\* webhook_event_received is sent by the request that stored the row.
Announce(r) ==
    LET n == request[r].about IN
    /\ request[r].stage = "stored"
    /\ announced' = [announced EXCEPT ![n] = @ + 1]
    /\ Go(r, "announced")
    /\ UNCHANGED <<event, rejected, queue, task, deliveries, processed,
                   accepted, hit, faults>>

\* The row of an earlier request is marked, whatever has become of it.
MarkDuplicate(r) ==
    /\ request[r].stage = "known"
    /\ event' = [event EXCEPT ![request[r].about] = "duplicate"]
    /\ Go(r, "announced")
    /\ UNCHANGED <<rejected, queue, task, deliveries, history, hit, faults>>

Dispatching(r) ==
    /\ request[r].stage = "announced"
    /\ accepted' = accepted \cup {request[r].about}
    /\ Leave(r)

\* Faulty variants: a row marked as a duplicate is not dispatched; every row is
\* dispatched twice.
TasksUnlessDuplicate(n) == IF event[n] = "duplicate" THEN 0 ELSE 1
TasksTwo(n) == 2

\* receive returned a row, new or not: one task is sent for it.
Tasks(n) == 1

\* process_webhook.delay, then the answer 200.
Dispatch(r) ==
    LET n == request[r].about IN
    /\ Dispatching(r)
    /\ queue' = [queue EXCEPT ![n] = @ + Tasks(n)]
    /\ UNCHANGED <<event, rejected, task, deliveries, announced, processed,
                   hit, faults>>

\* The broker cannot be reached: the task is skipped, the answer is 200.
DispatchSkipped(r) ==
    /\ Dispatching(r)
    /\ FaultOn(request[r].about)
    /\ UNCHANGED <<event, rejected, queue, task, deliveries, announced,
                   processed>>

\* The database fails in receive: the view logs it and answers 200.
StoreFailed(r) ==
    /\ request[r].stage \in {"new", "known"}
    /\ FaultOn(request[r].about)
    /\ accepted' = accepted \cup {request[r].about}
    /\ Leave(r)
    /\ UNCHANGED <<event, rejected, queue, task, deliveries, announced,
                   processed>>

\* A request dies half way, unanswered: the provider will send it again.
RequestDies(r) ==
    /\ MayCrash
    /\ request[r].stage # "idle"
    /\ FaultOn(request[r].about)
    /\ Leave(r)
    /\ UNCHANGED <<event, rejected, queue, task, deliveries, history>>

-----------------------------------------------------------------------------
(* The task process_webhook                                                *)

Rest(w) ==
    task' = [task EXCEPT ![w] = [stage |-> "idle", about |-> NoNotification]]

\* A worker takes a task off the queue and marks the row.
Take(w, n) ==
    /\ task[w].stage = "idle"
    /\ queue[n] > 0
    /\ queue' = [queue EXCEPT ![n] = @ - 1]
    /\ event' = [event EXCEPT ![n] = "processing"]
    /\ task' = [task EXCEPT ![w] = [stage |-> "processing", about |-> n]]
    /\ UNCHANGED <<rejected, request, deliveries, history, hit, faults>>

\* The adapter parsed the payload: the row is saved first, then the signal sent.
MarkProcessed(w) ==
    /\ task[w].stage = "processing"
    /\ event' = [event EXCEPT ![task[w].about] = "processed"]
    /\ task' = [task EXCEPT ![w].stage = "signalling"]
    /\ UNCHANGED <<rejected, request, queue, deliveries, history, hit, faults>>

Signal(w) ==
    /\ task[w].stage = "signalling"
    /\ processed' = [processed EXCEPT ![task[w].about] = @ + 1]
    /\ Rest(w)
    /\ UNCHANGED <<event, rejected, request, queue, deliveries, announced,
                   accepted, hit, faults>>

\* The adapter or its parse raised: the task is not retried.
MarkFailed(w) ==
    /\ task[w].stage = "processing"
    /\ event' = [event EXCEPT ![task[w].about] = "failed"]
    /\ Rest(w)
    /\ UNCHANGED <<rejected, request, queue, deliveries, history, hit, faults>>

\* A worker dies; Celery acknowledged the task when it was taken.
WorkerDies(w) ==
    /\ MayCrash
    /\ task[w].stage # "idle"
    /\ FaultOn(task[w].about)
    /\ Rest(w)
    /\ UNCHANGED <<event, rejected, request, queue, deliveries, history>>

-----------------------------------------------------------------------------
Receive(r) ==
    \/ Create(r) \/ Conflict(r) \/ Announce(r)
    \/ MarkDuplicate(r) \/ Dispatch(r)

Process(w) ==
    \/ \E n \in Notifications : Take(w, n)
    \/ MarkProcessed(w) \/ MarkFailed(w) \/ Signal(w)

Next ==
    \/ \E r \in Requests :
         \/ \E n \in Notifications : Verify(r, n) \/ Reject(r, n)
         \/ Receive(r)
         \/ DispatchSkipped(r) \/ StoreFailed(r) \/ RequestDies(r)
    \/ \E w \in Workers : Process(w) \/ WorkerDies(w)

Spec == Init /\ [][Next]_vars

\* A request that was accepted runs on, the workers work their queue off.
Fairness ==
    /\ \A r \in Requests : WF_vars(Receive(r))
    /\ \A w \in Workers : WF_vars(Process(w))

FairSpec == Spec /\ Fairness

-----------------------------------------------------------------------------
(* What the receiver promises                                              *)

TypeOK ==
    /\ event \in [Notifications -> Statuses \cup {"absent"}]
    /\ rejected \in [Notifications -> 0..MaxDeliveries]
    /\ request \in [Requests ->
                     [stage: RequestStages,
                      about: Notifications \cup {NoNotification}]]
    /\ queue \in [Notifications -> 0..MaxDeliveries]
    /\ task \in [Workers ->
                  [stage: TaskStages,
                   about: Notifications \cup {NoNotification}]]
    /\ deliveries \in [Notifications -> 0..MaxDeliveries]
    /\ announced \in [Notifications -> 0..MaxDeliveries]
    /\ processed \in [Notifications -> 0..MaxDeliveries]
    /\ accepted \subseteq Notifications
    /\ hit \subseteq Notifications
    /\ faults \in 0..MaxFaults

\* However the requests race, webhook_event_received is sent at most once for a
\* row: the unique key decides between two requests that both found no row.
AnnouncedOnce == \A n \in Notifications : announced[n] <= 1

\* A verified request is processed at most once, a rejected one never.
ProcessedPerDelivery ==
    \A n \in Notifications : processed[n] <= deliveries[n] - rejected[n]

Answered == \A r \in Requests : request[r].stage = "idle"

\* A rejected request does not block the genuine one: a notification that was
\* verified and answered was announced to the consumer, unless a failure fell on
\* one of its deliveries.
AcceptedWasAnnounced ==
    Answered => \A n \in accepted \ hit : announced[n] = 1

\* Every stored row ends processed or failed, also when later deliveries of it
\* mark it as a duplicate on the way, and whatever failures fall on others.
RowsSettle ==
    \A n \in Notifications :
        <>[](n \in hit \/ event[n] \in {"absent", "processed", "failed"})

=============================================================================
