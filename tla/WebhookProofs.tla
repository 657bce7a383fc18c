--------------------------- MODULE WebhookProofs ---------------------------
(***************************************************************************)
(* Proofs about Webhook, for any number of notifications, requests,        *)
(* workers, deliveries and faults.                                         *)
(***************************************************************************)
EXTENDS WebhookContent, FiniteSetTheorems, TLAPS

RequestRecord == [stage: RequestStages, about: Notifications \cup {NoNotification}]
TaskRecord == [stage: TaskStages, about: Notifications \cup {NoNotification}]

\* Types with the counters as large as they like; who idles has no subject.
Typed ==
    /\ event \in [Notifications -> Statuses \cup {"absent"}]
    /\ rejected \in [Notifications -> Nat]
    /\ request \in [Requests -> RequestRecord]
    /\ \A r \in Requests :
         request[r].stage = "idle" <=> request[r].about = NoNotification
    /\ queue \in [Notifications -> Nat]
    /\ task \in [Workers -> TaskRecord]
    /\ \A w \in Workers :
         task[w].stage = "idle" <=> task[w].about = NoNotification
    /\ deliveries \in [Notifications -> 0..MaxDeliveries]
    /\ announced \in [Notifications -> Nat]
    /\ processed \in [Notifications -> Nat]
    /\ accepted \subseteq Notifications
    /\ hit \subseteq Notifications
    /\ faults \in 0..MaxFaults

-----------------------------------------------------------------------------
(* How the records of requests and workers change                          *)

\* A request goes on with its notification.
LEMMA GoStep ==
    ASSUME Typed, NEW r \in Requests, request[r].stage # "idle",
           NEW s \in RequestStages \ {"idle"}, Go(r, s)
    PROVE  /\ request' \in [Requests -> RequestRecord]
           /\ \A q \in Requests :
                request'[q].stage = "idle" <=> request'[q].about = NoNotification
           /\ request[r].about \in Notifications
           /\ request'[r].stage = s
           /\ \A q \in Requests : q # r => request'[q] = request[q]
           /\ \A q \in Requests : request'[q].about = request[q].about
<1> DEFINE new == [request[r] EXCEPT !.stage = s]
<1>1. request[r] \in RequestRecord /\ s \in RequestStages
  BY DEF Typed
<1>2. /\ new \in RequestRecord /\ new.stage = s
      /\ new.about = request[r].about
  BY <1>1 DEF RequestRecord
<1>3. request' = [request EXCEPT ![r] = new]
  BY DEF Go
<1>4. request[r].about \in Notifications
  BY <1>1 DEF Typed, RequestRecord
<1> HIDE DEF new
<1>5. /\ request' \in [Requests -> RequestRecord] /\ request'[r] = new
      /\ \A q \in Requests : q # r => request'[q] = request[q]
  BY <1>2, <1>3 DEF Typed
<1> QED
  BY <1>2, <1>4, <1>5, IdleAssumption DEF Typed

\* A request is answered or dies.
LEMMA LeaveStep ==
    ASSUME Typed, NEW r \in Requests, request[r].stage # "idle", Leave(r)
    PROVE  /\ request' \in [Requests -> RequestRecord]
           /\ \A q \in Requests :
                request'[q].stage = "idle" <=> request'[q].about = NoNotification
           /\ request[r].about \in Notifications
           /\ request'[r].stage = "idle" /\ request'[r].about = NoNotification
           /\ \A q \in Requests : q # r => request'[q] = request[q]
<1> DEFINE new == [stage |-> "idle", about |-> NoNotification]
<1>1. new \in RequestRecord
  BY DEF RequestRecord, RequestStages
<1>2. request[r].about \in Notifications
  BY DEF Typed, RequestRecord
<1>3. new.stage = "idle" /\ new.about = NoNotification
  OBVIOUS
<1>4. request' = [request EXCEPT ![r] = new]
  BY DEF Leave
<1> HIDE DEF new
<1> QED
  BY <1>1, <1>2, <1>3, <1>4 DEF Typed

\* A request that verified begins.
LEMMA VerifyStep ==
    ASSUME Typed, NEW r \in Requests, NEW n \in Notifications, Verify(r, n)
    PROVE  /\ request' \in [Requests -> RequestRecord]
           /\ \A q \in Requests :
                request'[q].stage = "idle" <=> request'[q].about = NoNotification
           /\ request[r].about = NoNotification /\ request'[r].about = n
           /\ request'[r].stage = IF event[n] = "absent" THEN "new" ELSE "known"
           /\ \A q \in Requests : q # r => request'[q] = request[q]
<1> DEFINE new == [stage |-> IF event[n] = "absent" THEN "new" ELSE "known",
                   about |-> n]
<1>1. new \in RequestRecord
  BY DEF RequestRecord, RequestStages
<1>2. request[r].about = NoNotification
  BY DEF Typed, Verify, Arrives
<1>3. /\ new.stage = IF event[n] = "absent" THEN "new" ELSE "known"
      /\ new.stage # "idle" /\ new.about = n /\ n # NoNotification
  BY IdleAssumption
<1>4. request' = [request EXCEPT ![r] = new]
  BY DEF Verify
<1> HIDE DEF new
<1> QED
  BY <1>1, <1>2, <1>3, <1>4 DEF Typed

\* A worker is done with its task or dies.
LEMMA RestStep ==
    ASSUME Typed, NEW w \in Workers, task[w].stage # "idle", Rest(w)
    PROVE  /\ task' \in [Workers -> TaskRecord]
           /\ \A v \in Workers :
                task'[v].stage = "idle" <=> task'[v].about = NoNotification
           /\ task[w].about \in Notifications
           /\ task'[w].about = NoNotification
           /\ \A v \in Workers : v # w => task'[v] = task[v]
<1> DEFINE new == [stage |-> "idle", about |-> NoNotification]
<1>1. new \in TaskRecord
  BY DEF TaskRecord, TaskStages
<1>2. task[w].about \in Notifications
  BY DEF Typed, TaskRecord
<1>3. new.stage = "idle" /\ new.about = NoNotification
  OBVIOUS
<1>4. task' = [task EXCEPT ![w] = new]
  BY DEF Rest
<1> HIDE DEF new
<1> QED
  BY <1>1, <1>2, <1>3, <1>4 DEF Typed

LEMMA TakeStep ==
    ASSUME Typed, NEW w \in Workers, NEW n \in Notifications, Take(w, n)
    PROVE  /\ task' \in [Workers -> TaskRecord]
           /\ \A v \in Workers :
                task'[v].stage = "idle" <=> task'[v].about = NoNotification
           /\ task[w].about = NoNotification /\ task'[w].about = n
           /\ \A v \in Workers : v # w => task'[v] = task[v]
<1> DEFINE new == [stage |-> "processing", about |-> n]
<1>1. new \in TaskRecord
  BY DEF TaskRecord, TaskStages
<1>2. task[w].about = NoNotification
  BY DEF Typed, Take
<1>3. new.stage # "idle" /\ new.about = n /\ n # NoNotification
  BY IdleAssumption
<1>4. task' = [task EXCEPT ![w] = new]
  BY DEF Take
<1> HIDE DEF new
<1> QED
  BY <1>1, <1>2, <1>3, <1>4 DEF Typed

LEMMA MarkStep ==
    ASSUME Typed, NEW w \in Workers, MarkProcessed(w)
    PROVE  /\ task' \in [Workers -> TaskRecord]
           /\ \A v \in Workers :
                task'[v].stage = "idle" <=> task'[v].about = NoNotification
           /\ task[w].about \in Notifications
           /\ \A v \in Workers : task'[v].about = task[v].about
<1> DEFINE new == [task[w] EXCEPT !.stage = "signalling"]
<1>1. task[w] \in TaskRecord /\ task[w].stage = "processing"
  BY DEF Typed, MarkProcessed
<1>2. /\ new \in TaskRecord /\ new.stage = "signalling"
      /\ new.about = task[w].about
  BY <1>1 DEF TaskRecord, TaskStages
<1>3. task' = [task EXCEPT ![w] = new]
  BY DEF MarkProcessed
<1>4. task[w].about \in Notifications
  BY <1>1 DEF Typed, TaskRecord
<1> HIDE DEF new
<1>5. /\ task' \in [Workers -> TaskRecord] /\ task'[w] = new
      /\ \A v \in Workers : v # w => task'[v] = task[v]
  BY <1>2, <1>3 DEF Typed
<1> QED
  BY <1>2, <1>4, <1>5, IdleAssumption DEF Typed

-----------------------------------------------------------------------------
(* Types                                                                   *)

LEMMA FaultStep ==
    ASSUME Typed, NEW n \in Notifications, FaultOn(n)
    PROVE  hit' \subseteq Notifications /\ faults' \in 0..MaxFaults
BY BoundsAssumption DEF FaultOn, Typed

LEMMA InitTyped == Init => Typed
<1> SUFFICES ASSUME Init PROVE Typed
  OBVIOUS
<1>1. [stage |-> "idle", about |-> NoNotification] \in RequestRecord
  BY DEF RequestRecord, RequestStages
<1>2. [stage |-> "idle", about |-> NoNotification] \in TaskRecord
  BY DEF TaskRecord, TaskStages
<1>3. request \in [Requests -> RequestRecord] /\ task \in [Workers -> TaskRecord]
  BY <1>1, <1>2 DEF Init
<1>4. /\ \A r \in Requests : /\ request[r].stage = "idle"
                             /\ request[r].about = NoNotification
      /\ \A w \in Workers : /\ task[w].stage = "idle"
                            /\ task[w].about = NoNotification
  BY DEF Init
<1>5. deliveries \in [Notifications -> 0..MaxDeliveries]
  BY BoundsAssumption DEF Init
<1>6. faults \in 0..MaxFaults
  BY BoundsAssumption DEF Init
<1> QED
  BY <1>3, <1>4, <1>5, <1>6 DEF Init, Typed

LEMMA RequestTyped ==
    ASSUME Typed, NEW r \in Requests,
           \/ \E n \in Notifications : Verify(r, n) \/ Reject(r, n)
           \/ Receive(r)
           \/ DispatchSkipped(r) \/ StoreFailed(r) \/ RequestDies(r)
    PROVE  Typed'
<1>1. ASSUME NEW n \in Notifications, Verify(r, n) PROVE Typed'
  <2>1. deliveries' \in [Notifications -> 0..MaxDeliveries]
    BY <1>1, BoundsAssumption DEF Verify, Arrives, Typed
  <2>2. /\ request' \in [Requests -> RequestRecord]
        /\ \A q \in Requests :
             request'[q].stage = "idle" <=> request'[q].about = NoNotification
    BY <1>1, VerifyStep
  <2>3. UNCHANGED <<event, rejected, queue, task, history, hit, faults>>
    BY <1>1 DEF Verify
  <2> QED
    BY <2>1, <2>2, <2>3 DEF Typed, history
<1>2. ASSUME NEW n \in Notifications, Reject(r, n) PROVE Typed'
  <2>1. deliveries' \in [Notifications -> 0..MaxDeliveries]
    BY <1>2, BoundsAssumption DEF Reject, Arrives, Typed
  <2>2. rejected' \in [Notifications -> Nat] /\ event' = event
    BY <1>2 DEF Reject, StoreRejected, Typed
  <2>3. UNCHANGED <<request, queue, task, history, hit, faults>>
    BY <1>2 DEF Reject
  <2> QED
    BY <2>1, <2>2, <2>3 DEF Typed, history
<1>3. CASE Create(r)
  <2>1. Go(r, "stored") /\ request[r].stage # "idle"
    BY <1>3 DEF Create
  <2>2. /\ request' \in [Requests -> RequestRecord]
        /\ \A q \in Requests :
             request'[q].stage = "idle" <=> request'[q].about = NoNotification
    BY <2>1, GoStep DEF RequestStages
  <2>3. event' \in [Notifications -> Statuses \cup {"absent"}]
    BY <1>3 DEF Create, Typed, Statuses
  <2> QED
    BY <1>3, <2>2, <2>3 DEF Create, Typed, history
<1>4. CASE Conflict(r)
  <2>1. Leave(r) /\ request[r].stage # "idle"
    BY <1>4 DEF Conflict
  <2>2. /\ request' \in [Requests -> RequestRecord]
        /\ \A q \in Requests :
             request'[q].stage = "idle" <=> request'[q].about = NoNotification
        /\ request[r].about \in Notifications
    BY <2>1, LeaveStep
  <2> QED
    BY <1>4, <2>2 DEF Conflict, Typed
<1>5. CASE Announce(r)
  <2>1. Go(r, "announced") /\ request[r].stage # "idle"
    BY <1>5 DEF Announce
  <2>2. /\ request' \in [Requests -> RequestRecord]
        /\ \A q \in Requests :
             request'[q].stage = "idle" <=> request'[q].about = NoNotification
        /\ request[r].about \in Notifications
    BY <2>1, GoStep DEF RequestStages
  <2>3. announced' \in [Notifications -> Nat]
    BY <1>5, <2>2 DEF Announce, Typed
  <2> QED
    BY <1>5, <2>2, <2>3 DEF Announce, Typed
<1>6. CASE MarkDuplicate(r)
  <2>1. Go(r, "announced") /\ request[r].stage # "idle"
    BY <1>6 DEF MarkDuplicate
  <2>2. /\ request' \in [Requests -> RequestRecord]
        /\ \A q \in Requests :
             request'[q].stage = "idle" <=> request'[q].about = NoNotification
    BY <2>1, GoStep DEF RequestStages
  <2>3. event' \in [Notifications -> Statuses \cup {"absent"}]
    BY <1>6 DEF MarkDuplicate, Typed, Statuses
  <2> QED
    BY <1>6, <2>2, <2>3 DEF MarkDuplicate, Typed, history
<1>7. CASE Dispatch(r) \/ DispatchSkipped(r)
  <2>1. Leave(r) /\ request[r].stage # "idle"
    BY <1>7 DEF Dispatch, DispatchSkipped, Dispatching
  <2>2. /\ request' \in [Requests -> RequestRecord]
        /\ \A q \in Requests :
             request'[q].stage = "idle" <=> request'[q].about = NoNotification
        /\ request[r].about \in Notifications
    BY <2>1, LeaveStep
  <2>3. queue' \in [Notifications -> Nat]
    BY <1>7 DEF Dispatch, DispatchSkipped, Tasks, Typed
  <2>4. hit' \subseteq Notifications /\ faults' \in 0..MaxFaults
    BY <1>7, <2>2, FaultStep DEF Dispatch, DispatchSkipped, Typed
  <2>5. accepted' \subseteq Notifications
    BY <1>7, <2>2 DEF Dispatch, DispatchSkipped, Dispatching, Typed
  <2>6. UNCHANGED <<event, rejected, task, deliveries, announced, processed>>
    BY <1>7 DEF Dispatch, DispatchSkipped
  <2> QED
    BY <2>2, <2>3, <2>4, <2>5, <2>6 DEF Typed
<1>8. CASE StoreFailed(r) \/ RequestDies(r)
  <2>1. Leave(r) /\ request[r].stage # "idle"
    BY <1>8 DEF StoreFailed, RequestDies
  <2>2. /\ request' \in [Requests -> RequestRecord]
        /\ \A q \in Requests :
             request'[q].stage = "idle" <=> request'[q].about = NoNotification
        /\ request[r].about \in Notifications
    BY <2>1, LeaveStep
  <2>3. hit' \subseteq Notifications /\ faults' \in 0..MaxFaults
    BY <1>8, <2>2, FaultStep DEF StoreFailed, RequestDies
  <2>4. accepted' \subseteq Notifications
    BY <1>8, <2>2 DEF StoreFailed, RequestDies, Typed, history
  <2>5. UNCHANGED <<event, rejected, queue, task, deliveries, announced,
                    processed>>
    BY <1>8 DEF StoreFailed, RequestDies, history
  <2> QED
    BY <2>2, <2>3, <2>4, <2>5 DEF Typed
<1> QED
  BY <1>1, <1>2, <1>3, <1>4, <1>5, <1>6, <1>7, <1>8 DEF Receive

LEMMA WorkerTyped ==
    ASSUME Typed, NEW w \in Workers, Process(w) \/ WorkerDies(w)
    PROVE  Typed'
<1>1. ASSUME NEW n \in Notifications, Take(w, n) PROVE Typed'
  <2>1. queue' \in [Notifications -> Nat]
    BY <1>1 DEF Take, Typed
  <2>2. event' \in [Notifications -> Statuses \cup {"absent"}]
    BY <1>1 DEF Take, Typed, Statuses
  <2>3. /\ task' \in [Workers -> TaskRecord]
        /\ \A v \in Workers :
             task'[v].stage = "idle" <=> task'[v].about = NoNotification
    BY <1>1, TakeStep
  <2> QED
    BY <1>1, <2>1, <2>2, <2>3 DEF Take, Typed, history
<1>2. CASE MarkProcessed(w)
  <2>1. /\ task' \in [Workers -> TaskRecord]
        /\ \A v \in Workers :
             task'[v].stage = "idle" <=> task'[v].about = NoNotification
    BY <1>2, MarkStep
  <2>2. event' \in [Notifications -> Statuses \cup {"absent"}]
    BY <1>2 DEF MarkProcessed, Typed, Statuses
  <2>3. UNCHANGED <<rejected, request, queue, deliveries, history, hit, faults>>
    BY <1>2 DEF MarkProcessed
  <2> QED
    BY <2>1, <2>2, <2>3 DEF Typed, history
<1>3. CASE Signal(w) \/ MarkFailed(w) \/ WorkerDies(w)
  <2>1. Rest(w) /\ task[w].stage # "idle"
    BY <1>3 DEF Signal, MarkFailed, WorkerDies
  <2>2. /\ task' \in [Workers -> TaskRecord]
        /\ \A v \in Workers :
             task'[v].stage = "idle" <=> task'[v].about = NoNotification
        /\ task[w].about \in Notifications
    BY <2>1, RestStep
  <2>3. event' \in [Notifications -> Statuses \cup {"absent"}]
    BY <1>3 DEF Signal, MarkFailed, WorkerDies, Typed, Statuses
  <2>4. processed' \in [Notifications -> Nat]
    BY <1>3 DEF Signal, MarkFailed, WorkerDies, Typed, history
  <2>5. hit' \subseteq Notifications /\ faults' \in 0..MaxFaults
    BY <1>3, <2>2, FaultStep DEF Signal, MarkFailed, WorkerDies, Typed
  <2>6. UNCHANGED <<rejected, request, queue, deliveries, announced, accepted>>
    BY <1>3 DEF Signal, MarkFailed, WorkerDies, history
  <2> QED
    BY <2>2, <2>3, <2>4, <2>5, <2>6 DEF Typed
<1> QED
  BY <1>1, <1>2, <1>3 DEF Process

LEMMA StepTyped == Typed /\ [Next]_vars => Typed'
<1> SUFFICES ASSUME Typed, [Next]_vars PROVE Typed'
  OBVIOUS
<1>1. CASE UNCHANGED vars
  BY <1>1 DEF vars, Typed
<1> QED
  BY <1>1, RequestTyped, WorkerTyped DEF Next

-----------------------------------------------------------------------------
(* A task for every verified delivery                                      *)

Handling(n) == {r \in Requests : request[r].about = n}
Working(n) == {w \in Workers : task[w].about = n}

\* Every delivery is a request that failed verification, or one under way, or
\* a task queued or under way, or has been processed, or was lost on the way.
Counted ==
    \A n \in Notifications :
        processed[n] + queue[n] + Cardinality(Handling(n))
            + Cardinality(Working(n)) + rejected[n] <= deliveries[n]

LEMMA Countable ==
    /\ \A S \in SUBSET Requests : IsFiniteSet(S) /\ Cardinality(S) \in Nat
    /\ \A S \in SUBSET Workers : IsFiniteSet(S) /\ Cardinality(S) \in Nat
BY FiniteAssumption, FS_Subset, FS_CardinalityType

LEMMA Finite ==
    \A n : /\ IsFiniteSet(Handling(n)) /\ Cardinality(Handling(n)) \in Nat
           /\ IsFiniteSet(Working(n)) /\ Cardinality(Working(n)) \in Nat
<1> TAKE n
<1>1. Handling(n) \in SUBSET Requests /\ Working(n) \in SUBSET Workers
  BY DEF Handling, Working
<1> QED
  BY <1>1, Countable

\* One request less is under way about its notification.
LEMMA HandlingLess ==
    ASSUME Typed, NEW r \in Requests, request[r].stage # "idle", Leave(r)
    PROVE  \A n \in Notifications :
             Cardinality(Handling(n)') =
               IF n = request[r].about THEN Cardinality(Handling(n)) - 1
               ELSE Cardinality(Handling(n))
<1> TAKE n \in Notifications
<1>1. /\ request'[r].about = NoNotification
      /\ \A q \in Requests : q # r => request'[q] = request[q]
  BY LeaveStep
<1>2. Handling(n)' = Handling(n) \ {r}
  BY <1>1, IdleAssumption DEF Handling
<1>3. r \in Handling(n) <=> n = request[r].about
  BY DEF Handling
<1> QED
  BY <1>2, <1>3, Finite, FS_RemoveElement

\* The other steps of a request change no subject, but for the first.
LEMMA HandlingMore ==
    ASSUME Typed, NEW r \in Requests, NEW m \in Notifications, Verify(r, m)
    PROVE  \A n \in Notifications :
             Cardinality(Handling(n)') =
               IF n = m THEN Cardinality(Handling(n)) + 1
               ELSE Cardinality(Handling(n))
<1> TAKE n \in Notifications
<1>1. /\ request[r].about = NoNotification /\ request'[r].about = m
      /\ \A q \in Requests : q # r => request'[q] = request[q]
  BY VerifyStep
<1>2. r \notin Handling(n)
  BY <1>1, IdleAssumption DEF Handling
<1>3. Handling(n)' = IF n = m THEN Handling(n) \cup {r} ELSE Handling(n)
  BY <1>1, <1>2, IdleAssumption DEF Handling
<1> QED
  BY <1>2, <1>3, Finite, FS_AddElement

LEMMA WorkingLess ==
    ASSUME Typed, NEW w \in Workers, task[w].stage # "idle", Rest(w)
    PROVE  \A n \in Notifications :
             Cardinality(Working(n)') =
               IF n = task[w].about THEN Cardinality(Working(n)) - 1
               ELSE Cardinality(Working(n))
<1> TAKE n \in Notifications
<1>1. /\ task'[w].about = NoNotification
      /\ \A v \in Workers : v # w => task'[v] = task[v]
  BY RestStep
<1>2. Working(n)' = Working(n) \ {w}
  BY <1>1, IdleAssumption DEF Working
<1>3. w \in Working(n) <=> n = task[w].about
  BY DEF Working
<1> QED
  BY <1>2, <1>3, Finite, FS_RemoveElement

LEMMA WorkingMore ==
    ASSUME Typed, NEW w \in Workers, NEW m \in Notifications, Take(w, m)
    PROVE  \A n \in Notifications :
             Cardinality(Working(n)') =
               IF n = m THEN Cardinality(Working(n)) + 1
               ELSE Cardinality(Working(n))
<1> TAKE n \in Notifications
<1>1. /\ task[w].about = NoNotification /\ task'[w].about = m
      /\ \A v \in Workers : v # w => task'[v] = task[v]
  BY TakeStep
<1>2. w \notin Working(n)
  BY <1>1, IdleAssumption DEF Working
<1>3. Working(n)' = IF n = m THEN Working(n) \cup {w} ELSE Working(n)
  BY <1>1, <1>2, IdleAssumption DEF Working
<1> QED
  BY <1>2, <1>3, Finite, FS_AddElement

\* What does not touch the records of requests, or of workers, keeps the counts.
LEMMA Steady ==
    /\ (\A q \in Requests : request'[q].about = request[q].about) =>
         \A n \in Notifications : Cardinality(Handling(n)') = Cardinality(Handling(n))
    /\ (\A v \in Workers : task'[v].about = task[v].about) =>
         \A n \in Notifications : Cardinality(Working(n)') = Cardinality(Working(n))
<1>1. ASSUME \A q \in Requests : request'[q].about = request[q].about,
             NEW n \in Notifications
      PROVE  Cardinality(Handling(n)') = Cardinality(Handling(n))
  <2>1. Handling(n)' = Handling(n)
    BY <1>1 DEF Handling
  <2> QED
    BY <2>1
<1>2. ASSUME \A v \in Workers : task'[v].about = task[v].about,
             NEW n \in Notifications
      PROVE  Cardinality(Working(n)') = Cardinality(Working(n))
  <2>1. Working(n)' = Working(n)
    BY <1>2 DEF Working
  <2> QED
    BY <2>1
<1> QED
  BY <1>1, <1>2

\* The bookkeeping of one notification: nothing comes from nowhere.
LEMMA Balance ==
    ASSUME Typed, Typed', Counted, NEW n \in Notifications,
           processed'[n] + queue'[n] + Cardinality(Handling(n)')
             + Cardinality(Working(n)') + rejected'[n]
             - (processed[n] + queue[n] + Cardinality(Handling(n))
                  + Cardinality(Working(n)) + rejected[n])
             <= deliveries'[n] - deliveries[n]
    PROVE  processed'[n] + queue'[n] + Cardinality(Handling(n)')
             + Cardinality(Working(n)') + rejected'[n] <= deliveries'[n]
<1>1. /\ Cardinality(Handling(n)) \in Nat /\ Cardinality(Working(n)) \in Nat
      /\ Cardinality(Handling(n)') \in Nat /\ Cardinality(Working(n)') \in Nat
  <2>1. Handling(n)' \in SUBSET Requests /\ Working(n)' \in SUBSET Workers
    BY DEF Handling, Working
  <2> QED
    BY <2>1, Finite, Countable
<1> QED
  BY <1>1 DEF Counted, Typed

LEMMA InitCounted == Init => Counted
<1> SUFFICES ASSUME Init, NEW n \in Notifications
             PROVE  processed[n] + queue[n] + Cardinality(Handling(n))
                      + Cardinality(Working(n)) + rejected[n] <= deliveries[n]
  BY DEF Counted
<1>1. Handling(n) = {} /\ Working(n) = {}
  BY IdleAssumption DEF Init, Handling, Working
<1>2. Cardinality(Handling(n)) = 0 /\ Cardinality(Working(n)) = 0
  BY <1>1, FS_EmptySet
<1> QED
  BY <1>2 DEF Init

LEMMA RequestCounted ==
    ASSUME Typed, Counted, [Next]_vars, NEW r \in Requests,
           \/ \E n \in Notifications : Verify(r, n) \/ Reject(r, n)
           \/ Receive(r)
           \/ DispatchSkipped(r) \/ StoreFailed(r) \/ RequestDies(r)
    PROVE  Counted'
<1> SUFFICES ASSUME NEW k \in Notifications
             PROVE  processed'[k] + queue'[k] + Cardinality(Handling(k)')
                      + Cardinality(Working(k)') + rejected'[k] <= deliveries'[k]
  BY DEF Counted
<1> DEFINE handling == Cardinality(Handling(k))
           working  == Cardinality(Working(k))
           Goal == processed'[k] + queue'[k] + Cardinality(Handling(k)')
                     + Cardinality(Working(k)') + rejected'[k] <= deliveries'[k]
<1>1. Typed'
  BY StepTyped
<1>2. /\ Cardinality(Handling(k)) \in Nat /\ Cardinality(Working(k)) \in Nat
      /\ processed[k] \in Nat /\ queue[k] \in Nat /\ rejected[k] \in Nat
      /\ deliveries[k] \in Nat
  BY Finite DEF Typed
<1>3. ASSUME NEW n \in Notifications, Verify(r, n)
      PROVE  Goal
  <2>1. Cardinality(Handling(k)') = IF k = n THEN handling + 1 ELSE handling
    BY <1>3, HandlingMore
  <2>2. Cardinality(Working(k)') = working
    BY <1>3, Steady DEF Verify
  <2>3. deliveries'[k] = IF k = n THEN deliveries[k] + 1 ELSE deliveries[k]
    BY <1>3 DEF Verify, Arrives, Typed
  <2>4. UNCHANGED <<processed, queue, rejected>>
    BY <1>3 DEF Verify, history
  <2> QED
    BY <1>1, <1>2, <2>1, <2>2, <2>3, <2>4, Balance
<1>4. ASSUME NEW n \in Notifications, Reject(r, n)
      PROVE  Goal
  <2>1. Cardinality(Handling(k)') = handling /\ Cardinality(Working(k)') = working
    BY <1>4, Steady DEF Reject
  <2>2. /\ rejected'[k] = IF k = n THEN rejected[k] + 1 ELSE rejected[k]
        /\ deliveries'[k] = IF k = n THEN deliveries[k] + 1 ELSE deliveries[k]
    BY <1>4 DEF Reject, StoreRejected, Arrives, Typed
  <2>3. UNCHANGED <<processed, queue>>
    BY <1>4 DEF Reject, history
  <2> QED
    BY <1>1, <1>2, <2>1, <2>2, <2>3, Balance
<1>5. CASE Create(r) \/ Announce(r) \/ MarkDuplicate(r)
  <2>1. PICK s \in RequestStages \ {"idle"} : Go(r, s) /\ request[r].stage # "idle"
    BY <1>5 DEF Create, Announce, MarkDuplicate, RequestStages
  <2>2. \A q \in Requests : request'[q].about = request[q].about
    BY <2>1, GoStep
  <2>3. UNCHANGED <<processed, queue, rejected, task, deliveries>>
    BY <1>5 DEF Create, Announce, MarkDuplicate, history
  <2>4. Cardinality(Handling(k)') = handling /\ Cardinality(Working(k)') = working
    BY <2>2, <2>3, Steady
  <2> QED
    BY <1>1, <1>2, <2>3, <2>4, Balance
<1>6. CASE \/ Conflict(r) \/ Dispatch(r) \/ DispatchSkipped(r)
             \/ StoreFailed(r) \/ RequestDies(r)
  <2>1. Leave(r) /\ request[r].stage # "idle"
    BY <1>6 DEF Conflict, Dispatch, DispatchSkipped, Dispatching, StoreFailed,
                RequestDies
  <2>2. Cardinality(Handling(k)') =
          IF k = request[r].about THEN handling - 1 ELSE handling
    BY <2>1, HandlingLess
  <2>3. \/ queue'[k] = queue[k]
        \/ k = request[r].about /\ queue'[k] = queue[k] + 1
    <3>1. CASE Dispatch(r)
      <4>1. queue' = [queue EXCEPT ![request[r].about] = @ + 1]
        BY <3>1 DEF Dispatch, Tasks
      <4> QED
        BY <4>1 DEF Typed
    <3>2. CASE Conflict(r) \/ DispatchSkipped(r) \/ StoreFailed(r) \/ RequestDies(r)
      BY <3>2 DEF Conflict, DispatchSkipped, StoreFailed, RequestDies
    <3> QED
      BY <1>6, <3>1, <3>2
  <2>4. UNCHANGED <<processed, rejected, task, deliveries>>
    BY <1>6 DEF Conflict, Dispatch, DispatchSkipped, StoreFailed, RequestDies,
                history
  <2>5. Cardinality(Working(k)') = working
    BY <2>4, Steady
  <2> QED
    BY <1>1, <1>2, <2>2, <2>3, <2>4, <2>5, Balance
<1> QED
  BY <1>3, <1>4, <1>5, <1>6 DEF Receive

LEMMA WorkerCounted ==
    ASSUME Typed, Counted, [Next]_vars, NEW w \in Workers,
           Process(w) \/ WorkerDies(w)
    PROVE  Counted'
<1> SUFFICES ASSUME NEW k \in Notifications
             PROVE  processed'[k] + queue'[k] + Cardinality(Handling(k)')
                      + Cardinality(Working(k)') + rejected'[k] <= deliveries'[k]
  BY DEF Counted
<1> DEFINE handling == Cardinality(Handling(k))
           working  == Cardinality(Working(k))
           Goal == processed'[k] + queue'[k] + Cardinality(Handling(k)')
                     + Cardinality(Working(k)') + rejected'[k] <= deliveries'[k]
<1>1. Typed'
  BY StepTyped
<1>2. /\ Cardinality(Handling(k)) \in Nat /\ Cardinality(Working(k)) \in Nat
      /\ processed[k] \in Nat /\ queue[k] \in Nat /\ rejected[k] \in Nat
      /\ deliveries[k] \in Nat
  BY Finite DEF Typed
<1>3. ASSUME NEW n \in Notifications, Take(w, n)
      PROVE  Goal
  <2>1. Cardinality(Working(k)') = IF k = n THEN working + 1 ELSE working
    BY <1>3, WorkingMore
  <2>2. Cardinality(Handling(k)') = handling
    BY <1>3, Steady DEF Take
  <2>3. queue'[k] = IF k = n THEN queue[k] - 1 ELSE queue[k]
    BY <1>3 DEF Take, Typed
  <2>4. UNCHANGED <<processed, rejected, deliveries>>
    BY <1>3 DEF Take, history
  <2> QED
    BY <1>1, <1>2, <2>1, <2>2, <2>3, <2>4, Balance
<1>4. CASE MarkProcessed(w)
  <2>1. UNCHANGED <<processed, queue, rejected, request, deliveries>>
    BY <1>4 DEF MarkProcessed, history
  <2>2. \A v \in Workers : task'[v].about = task[v].about
    BY <1>4, MarkStep
  <2>3. Cardinality(Handling(k)') = handling /\ Cardinality(Working(k)') = working
    BY <2>1, <2>2, Steady
  <2> QED
    BY <1>1, <1>2, <2>1, <2>3, Balance
<1>5. CASE Signal(w) \/ MarkFailed(w) \/ WorkerDies(w)
  <2>1. Rest(w) /\ task[w].stage # "idle"
    BY <1>5 DEF Signal, MarkFailed, WorkerDies
  <2>2. Cardinality(Working(k)') =
          IF k = task[w].about THEN working - 1 ELSE working
    BY <2>1, WorkingLess
  <2>3. \/ processed'[k] = processed[k]
        \/ k = task[w].about /\ processed'[k] = processed[k] + 1
    BY <1>5 DEF Signal, MarkFailed, WorkerDies, Typed, history
  <2>4. UNCHANGED <<queue, rejected, request, deliveries>>
    BY <1>5 DEF Signal, MarkFailed, WorkerDies
  <2>5. Cardinality(Handling(k)') = handling
    BY <2>4, Steady
  <2> QED
    BY <1>1, <1>2, <2>2, <2>3, <2>4, <2>5, Balance
<1> QED
  BY <1>3, <1>4, <1>5 DEF Process

LEMMA StepCounted == Typed /\ Counted /\ [Next]_vars => Counted'
<1> SUFFICES ASSUME Typed, Counted, [Next]_vars PROVE Counted'
  OBVIOUS
<1>1. CASE UNCHANGED vars
  <2>1. UNCHANGED <<processed, queue, rejected, request, task, deliveries>>
    BY <1>1 DEF vars
  <2>2. \A n \in Notifications : /\ Handling(n)' = Handling(n)
                                /\ Working(n)' = Working(n)
    BY <2>1 DEF Handling, Working
  <2> QED
    BY <2>1, <2>2 DEF Counted
<1> QED
  BY <1>1, RequestCounted, WorkerCounted DEF Next

-----------------------------------------------------------------------------
(* One announcement for every row                                          *)

\* A request with this notification has stored its row and not announced it.
Announcing(r, n) == request[r].stage = "stored" /\ request[r].about = n

\* A row that is missing has left no trace.
Traceless(n) ==
    /\ announced[n] = 0 /\ queue[n] = 0
    /\ n \in accepted => n \in hit
    /\ \A r \in Requests :
         request[r].about = n => request[r].stage = "new"
    /\ \A w \in Workers : task[w].about # n

\* The request that stores a row is the only one to announce it, and does so
\* unless it fails.
Rows ==
    \A n \in Notifications :
        /\ event[n] = "absent" => Traceless(n)
        /\ announced[n] <= 1
        /\ \A r \in Requests : Announcing(r, n) => announced[n] = 0
        /\ \A r, q \in Requests : Announcing(r, n) /\ Announcing(q, n) => r = q
        /\ event[n] # "absent" =>
             \/ n \in hit
             \/ announced[n] = 1
             \/ \E r \in Requests : Announcing(r, n)

LEMMA InitRows == Init => Rows
<1> SUFFICES ASSUME Init, NEW n \in Notifications
             PROVE  /\ Traceless(n) /\ event[n] = "absent" /\ announced[n] = 0
                    /\ \A r \in Requests : ~Announcing(r, n)
  BY DEF Rows
<1>1. /\ \A r \in Requests : request[r].about = NoNotification
      /\ \A w \in Workers : task[w].about = NoNotification
      /\ n # NoNotification
  BY IdleAssumption DEF Init
<1> QED
  BY <1>1 DEF Init, Traceless, Announcing

LEMMA RequestRows ==
    ASSUME Typed, Rows, NEW r \in Requests,
           \/ \E n \in Notifications : Verify(r, n) \/ Reject(r, n)
           \/ Receive(r)
           \/ DispatchSkipped(r) \/ StoreFailed(r) \/ RequestDies(r)
    PROVE  Rows'
<1>1. ASSUME NEW n \in Notifications, Verify(r, n) PROVE Rows'
  <2>1. /\ request[r].about = NoNotification /\ request'[r].about = n
        /\ request'[r].stage = IF event[n] = "absent" THEN "new" ELSE "known"
        /\ \A q \in Requests : q # r => request'[q] = request[q]
    BY <1>1, VerifyStep
  <2>2. UNCHANGED <<event, queue, task, history, hit>>
    BY <1>1 DEF Verify
  <2>3. \A k \in Notifications, q \in Requests :
          Announcing(q, k)' <=> Announcing(q, k)
    BY <2>1, IdleAssumption DEF Announcing
  <2>4. \A k \in Notifications :
          event[k] = "absent" /\ Traceless(k) => Traceless(k)'
    BY <2>1, <2>2, IdleAssumption DEF Traceless, history
  <2> QED
    BY <2>2, <2>3, <2>4 DEF Rows, history
<1>2. ASSUME NEW n \in Notifications, Reject(r, n) PROVE Rows'
  <2>1. UNCHANGED <<event, request, queue, task, history, hit>>
    BY <1>2 DEF Reject, StoreRejected
  <2> QED
    BY <2>1 DEF Rows, Traceless, Announcing, history
<1>3. ASSUME NEW m \in Notifications, request[r].about = m,
             Create(r)
      PROVE  Rows'
  <2>1. /\ request[r].stage = "new" /\ event[m] = "absent" /\ m \in Notifications
        /\ request'[r].stage = "stored" /\ request'[r].about = m
        /\ \A q \in Requests : q # r => request'[q] = request[q]
    BY <1>3, GoStep DEF Create, Taken, RequestStages
  <2>2. event' = [event EXCEPT ![m] = "received"]
    BY <1>3 DEF Create
  <2>3. UNCHANGED <<queue, task, history, hit>>
    BY <1>3 DEF Create
  <2>4. Traceless(m)
    BY <2>1 DEF Rows
  <2>5. \A k \in Notifications \ {m} :
          /\ event'[k] = event[k]
          /\ Traceless(k) => Traceless(k)'
          /\ \A q \in Requests : Announcing(q, k)' <=> Announcing(q, k)
    BY <2>1, <2>2, <2>3 DEF Typed, Traceless, Announcing, history
  <2>6. event'[m] # "absent" /\ announced'[m] = 0
    BY <2>1, <2>2, <2>3, <2>4 DEF Typed, Traceless, history
  <2>7. \A q \in Requests : Announcing(q, m)' <=> q = r
    BY <2>1, <2>4 DEF Announcing, Traceless
  <2>8. UNCHANGED <<hit, announced>>
    BY <2>3 DEF history
  <2> QED
    BY <2>1, <2>5, <2>6, <2>7, <2>8 DEF Rows
<1>4. ASSUME NEW m \in Notifications, request[r].about = m,
             Announce(r)
      PROVE  Rows'
  <2>1. /\ request[r].stage = "stored" /\ m \in Notifications
        /\ request'[r].stage = "announced" /\ request'[r].about = m
        /\ \A q \in Requests : q # r => request'[q] = request[q]
    BY <1>4, GoStep DEF Announce, RequestStages
  <2>2. announced' = [announced EXCEPT ![m] = @ + 1]
    BY <1>4 DEF Announce
  <2>3. UNCHANGED <<event, queue, task, accepted, hit>>
    BY <1>4 DEF Announce
  <2>4. Announcing(r, m)
    BY <1>4, <2>1 DEF Announcing
  <2>5. announced[m] = 0 /\ \A q \in Requests : Announcing(q, m) => q = r
    BY <2>1, <2>4 DEF Rows
  <2>6. event[m] # "absent"
    BY <1>4, <2>1 DEF Rows, Traceless
  <2>7. announced'[m] = 1
    BY <2>1, <2>2, <2>5 DEF Typed
  <2>8. \A q \in Requests : ~Announcing(q, m)'
    BY <2>1, <2>5 DEF Announcing
  <2>9. \A k \in Notifications \ {m} :
          /\ announced'[k] = announced[k]
          /\ Traceless(k) => Traceless(k)'
          /\ \A q \in Requests : Announcing(q, k)' <=> Announcing(q, k)
    BY <1>4, <2>1, <2>2, <2>3 DEF Typed, Traceless, Announcing
  <2> QED
    BY <2>1, <2>3, <2>6, <2>7, <2>8, <2>9 DEF Rows
<1>5. ASSUME NEW m \in Notifications, request[r].about = m,
             MarkDuplicate(r)
      PROVE  Rows'
  <2>1. /\ request[r].stage = "known" /\ m \in Notifications
        /\ request'[r].stage = "announced" /\ request'[r].about = m
        /\ \A q \in Requests : q # r => request'[q] = request[q]
    BY <1>5, GoStep DEF MarkDuplicate, RequestStages
  <2>2. event' = [event EXCEPT ![m] = "duplicate"]
    BY <1>5 DEF MarkDuplicate
  <2>3. UNCHANGED <<queue, task, announced, accepted, hit>>
    BY <1>5 DEF MarkDuplicate, history
  <2>4. event[m] # "absent"
    BY <1>5, <2>1 DEF Rows, Traceless
  <2>5. \A k \in Notifications : event'[k] = "absent" <=> event[k] = "absent"
    BY <2>1, <2>2, <2>4 DEF Typed
  <2>6. \A k \in Notifications, q \in Requests :
          Announcing(q, k)' <=> Announcing(q, k)
    BY <2>1 DEF Announcing
  <2>7. \A k \in Notifications \ {m} : Traceless(k) => Traceless(k)'
    BY <2>1, <2>3 DEF Traceless
  <2> QED
    BY <2>1, <2>3, <2>4, <2>5, <2>6, <2>7 DEF Rows
<1>6. ASSUME NEW m \in Notifications, request[r].about = m,
             Conflict(r) \/ Dispatch(r) \/ DispatchSkipped(r)
      PROVE  Rows'
  <2>1. Leave(r) /\ request[r].stage \in {"new", "announced"}
    BY <1>6 DEF Conflict, Dispatch, DispatchSkipped, Dispatching
  <2>2. /\ m \in Notifications /\ request'[r].about = NoNotification
        /\ \A q \in Requests : q # r => request'[q] = request[q]
    BY <2>1, LeaveStep
  <2>3. event[m] # "absent"
    <3>1. CASE Conflict(r)
      BY <1>6, <3>1 DEF Conflict, Taken
    <3>2. CASE Dispatch(r) \/ DispatchSkipped(r)
      <4>1. request[r].stage = "announced"
        BY <3>2 DEF Dispatch, DispatchSkipped, Dispatching
      <4> QED
        BY <1>6, <2>2, <4>1 DEF Rows, Traceless
    <3> QED
      BY <1>6, <3>1, <3>2
  <2>4. accepted' = accepted \cup {m} /\ UNCHANGED <<event, task, announced>>
    BY <1>6 DEF Conflict, Dispatch, DispatchSkipped, Dispatching
  <2>5. hit \subseteq hit' /\ hit' \subseteq hit \cup {m}
    BY <1>6 DEF Conflict, Dispatch, DispatchSkipped, FaultOn
  <2>6. \A k \in Notifications \ {m} : queue'[k] = queue[k]
    <3>1. queue' = queue \/ queue' = [queue EXCEPT ![m] = @ + Tasks(m)]
      BY <1>6 DEF Conflict, Dispatch, DispatchSkipped
    <3> QED
      BY <3>1 DEF Typed
  <2>7. \A k \in Notifications, q \in Requests :
          Announcing(q, k)' <=> Announcing(q, k)
    BY <2>1, <2>2, IdleAssumption DEF Announcing
  <2>8. \A k \in Notifications \ {m} : Traceless(k) => Traceless(k)'
    BY <2>2, <2>4, <2>5, <2>6, IdleAssumption DEF Traceless
  <2> QED
    BY <2>2, <2>3, <2>4, <2>5, <2>7, <2>8 DEF Rows
<1>7. ASSUME NEW m \in Notifications, request[r].about = m,
             StoreFailed(r) \/ RequestDies(r)
      PROVE  Rows'
  <2>1. Leave(r) /\ request[r].stage # "idle"
    BY <1>7 DEF StoreFailed, RequestDies
  <2>2. /\ m \in Notifications /\ request'[r].about = NoNotification
        /\ \A q \in Requests : q # r => request'[q] = request[q]
    BY <2>1, LeaveStep
  <2>3. hit' = hit \cup {m} /\ UNCHANGED <<event, queue, task, announced>>
    BY <1>7 DEF StoreFailed, RequestDies, FaultOn, history
  <2>4. accepted' \subseteq accepted \cup {m}
    BY <1>7 DEF StoreFailed, RequestDies, history
  <2>5. \A k \in Notifications, q \in Requests :
          /\ Announcing(q, k)' => Announcing(q, k)
          /\ Announcing(q, k) /\ k # m => Announcing(q, k)'
    BY <1>7, <2>1, <2>2, IdleAssumption DEF Announcing
  <2>6. \A k \in Notifications : Traceless(k) => Traceless(k)'
    BY <2>2, <2>3, <2>4, IdleAssumption DEF Traceless
  <2> QED
    BY <2>2, <2>3, <2>5, <2>6 DEF Rows
<1>8. CASE Receive(r) \/ DispatchSkipped(r) \/ StoreFailed(r) \/ RequestDies(r)
  <2>1. request[r].stage # "idle"
    BY <1>8 DEF Receive, Create, Conflict, Announce, MarkDuplicate, Dispatch,
                DispatchSkipped, Dispatching, StoreFailed, RequestDies
  <2>2. request[r].about \in Notifications
    BY <2>1 DEF Typed, RequestRecord
  <2> QED
    BY <1>3, <1>4, <1>5, <1>6, <1>7, <1>8, <2>2 DEF Receive
<1> QED
  BY <1>1, <1>2, <1>8

LEMMA WorkerRows ==
    ASSUME Typed, Rows, NEW w \in Workers, Process(w) \/ WorkerDies(w)
    PROVE  Rows'
<1>1. ASSUME NEW m \in Notifications,
             event'[m] # "absent",
             \A k \in Notifications \ {m} : /\ event'[k] = event[k]
                                            /\ queue'[k] = queue[k],
             event[m] # "absent",
             \A v \in Workers :
                 task'[v].about \in {m, task[v].about, NoNotification},
             UNCHANGED <<request, announced, accepted>>, hit \subseteq hit'
      PROVE  Rows'
  <2>1. \A k \in Notifications : event'[k] = "absent" <=> event[k] = "absent"
    BY <1>1
  <2>2. \A k \in Notifications, q \in Requests :
          Announcing(q, k)' <=> Announcing(q, k)
    BY <1>1 DEF Announcing
  <2>3. \A k \in Notifications \ {m} : Traceless(k) => Traceless(k)'
    BY <1>1, IdleAssumption DEF Traceless
  <2> QED
    BY <1>1, <2>1, <2>2, <2>3 DEF Rows
<1>2. ASSUME NEW m \in Notifications, Take(w, m) PROVE Rows'
  <2>1. event[m] # "absent"
    BY <1>2 DEF Take, Rows, Traceless
  <2>2. /\ event' = [event EXCEPT ![m] = "processing"]
        /\ queue' = [queue EXCEPT ![m] = @ - 1]
        /\ UNCHANGED <<request, announced, accepted, hit>>
    BY <1>2 DEF Take, history
  <2>3. \A v \in Workers : task'[v].about \in {m, task[v].about}
    BY <1>2, TakeStep
  <2> QED
    BY <1>1, <2>1, <2>2, <2>3 DEF Typed
<1>3. CASE MarkProcessed(w) \/ Signal(w) \/ MarkFailed(w) \/ WorkerDies(w)
  <2> DEFINE m == task[w].about
  <2>1. task[w].stage # "idle" /\ m \in Notifications
    BY <1>3 DEF MarkProcessed, Signal, MarkFailed, WorkerDies, Typed, TaskRecord
  <2>2. event[m] # "absent"
    BY <2>1 DEF Rows, Traceless
  <2>3. \A v \in Workers : task'[v].about \in {task[v].about, NoNotification}
    BY <1>3, MarkStep, RestStep DEF Signal, MarkFailed, WorkerDies
  <2>4. \/ event' = event
        \/ event' = [event EXCEPT ![m] = "processed"]
        \/ event' = [event EXCEPT ![m] = "failed"]
    BY <1>3 DEF MarkProcessed, Signal, MarkFailed, WorkerDies
  <2>5. UNCHANGED <<queue, request, announced, accepted>> /\ hit \subseteq hit'
    BY <1>3 DEF MarkProcessed, Signal, MarkFailed, WorkerDies, history, FaultOn
  <2>6. /\ event'[m] # "absent"
        /\ \A k \in Notifications \ {m} : event'[k] = event[k]
    BY <2>1, <2>2, <2>4 DEF Typed
  <2> HIDE DEF m
  <2> QED
    BY <1>1, <2>1, <2>2, <2>3, <2>5, <2>6
<1> QED
  BY <1>2, <1>3 DEF Process

LEMMA StepRows == Typed /\ Rows /\ [Next]_vars => Rows'
<1> SUFFICES ASSUME Typed, Rows, [Next]_vars PROVE Rows'
  OBVIOUS
<1>1. CASE UNCHANGED vars
  BY <1>1 DEF vars, Rows, Traceless, Announcing
<1> QED
  BY <1>1, RequestRows, WorkerRows DEF Next

-----------------------------------------------------------------------------
(* Results                                                                 *)

LEMMA Invariants == Spec => [](Typed /\ Counted /\ Rows)
BY InitTyped, InitCounted, InitRows, StepTyped, StepCounted, StepRows, PTL
   DEF Spec

\* Rows, tasks and histories keep their types, and nothing is counted beyond the
\* deliveries of its notification.
THEOREM TypeCorrect == Spec => []TypeOK
<1>1. Typed /\ Counted /\ Rows => TypeOK
  <2> SUFFICES ASSUME Typed, Counted, Rows PROVE TypeOK
    OBVIOUS
  <2>1. ASSUME NEW n \in Notifications
        PROVE  /\ rejected[n] \in 0..MaxDeliveries
               /\ queue[n] \in 0..MaxDeliveries
               /\ processed[n] \in 0..MaxDeliveries
               /\ announced[n] \in 0..MaxDeliveries
    BY Finite, BoundsAssumption DEF Typed, Counted, Rows
  <2> QED
    BY <2>1 DEF Typed, TypeOK, RequestRecord, TaskRecord
<1> QED
  BY <1>1, Invariants, PTL

\* However requests, duplicates and failures interleave, the consumer hears of
\* a row at most once.
THEOREM RowsAnnouncedOnce == Spec => []AnnouncedOnce
<1>1. Rows => AnnouncedOnce
  BY DEF Rows, AnnouncedOnce
<1> QED
  BY <1>1, Invariants, PTL

\* No notification is processed more often than it was delivered and verified.
THEOREM OneTaskPerDelivery == Spec => []ProcessedPerDelivery
<1>1. Typed /\ Counted => ProcessedPerDelivery
  BY Finite DEF Typed, Counted, ProcessedPerDelivery
<1> QED
  BY <1>1, Invariants, PTL

\* What was verified and answered was announced, unless a failure fell on it: a
\* rejected request, a race or a duplicate does not keep it from the consumer.
THEOREM AcceptedAnnounced == Spec => []AcceptedWasAnnounced
<1>1. Typed /\ Rows => AcceptedWasAnnounced
  <2> SUFFICES ASSUME Typed, Rows, Answered, NEW n \in accepted \ hit
               PROVE  announced[n] = 1
    BY DEF AcceptedWasAnnounced
  <2>1. n \in Notifications
    BY DEF Typed
  <2>2. event[n] # "absent"
    BY <2>1 DEF Rows, Traceless
  <2>3. \A r \in Requests : ~Announcing(r, n)
    BY DEF Answered, Announcing
  <2> QED
    BY <2>1, <2>2, <2>3 DEF Rows
<1> QED
  BY <1>1, Invariants, PTL

-----------------------------------------------------------------------------
(* The content beside the rows                                             *)

\* A row is named by a notification.
LEMMA RowExists ==
    ASSUME NEW i \in Notifications
    PROVE  Row(i) \in Notifications
BY DEF Row, SameKey

\* Requests that carry notifications, whichever share a key, make the receiver
\* take steps of its own specification and no others: what is proved of it above
\* holds of the rows whatever keys the adapters choose.
THEOREM ContentKeepsRows == ContentSpec => Spec
<1>1. ContentInit => Init
  BY DEF ContentInit
<1>2. [ContentNext]_contentVars => [Next]_vars
  <2> SUFFICES ASSUME [ContentNext]_contentVars
               PROVE  [Next]_vars
    OBVIOUS
  <2>1. CASE UNCHANGED contentVars
    BY <2>1 DEF contentVars
  <2>2. CASE \E r \in Requests, i \in Notifications : Deliver(r, i)
    <3>1. PICK r \in Requests, i \in Notifications :
             Verify(r, Row(i)) \/ Reject(r, Row(i))
      BY <2>2 DEF Deliver
    <3> QED
      BY <3>1, RowExists DEF Next
  <2>3. CASE \E r \in Requests :
               Store(r) \/ Continue(r) \/ Answer200(r) \/ Vanish(r)
    BY <2>3 DEF Store, Continue, Answer200, Vanish, Next, Receive
  <2>4. CASE \E w \in Workers : Work(w)
    BY <2>4 DEF Work, Next
  <2> QED
    BY <2>1, <2>2, <2>3, <2>4 DEF ContentNext
<1> QED
  BY <1>1, <1>2, PTL DEF ContentSpec, Spec

-----------------------------------------------------------------------------
(* What the keys tell apart                                                *)

\* Keys made of the same parts are equal when those parts are.
LEMMA ByTells ==
    ASSUME NEW f, NEW g, NEW A, NEW q \in A, q \in Parts, By(f, A) = By(g, A)
    PROVE  f[q] = g[q]
<1>1. By(f, A)[q] = f[q] /\ By(g, A)[q] = g[q]
  BY DEF By
<1> QED BY <1>1

\* A key the adapter made is told from the dispatcher's, and either from others.
LEMMA KeyCases ==
    ASSUME NEW p, NEW f, NEW g, Key(p, f) = Key(p, g)
    PROVE  \/ AdapterKey(p, f) # NoKey /\ AdapterKey(p, f) = AdapterKey(p, g)
           \/ /\ AdapterKey(p, f) = NoKey /\ AdapterKey(p, g) = NoKey
              /\ f.subject = g.subject /\ f.status = g.status
              /\ f.code = g.code /\ f.time = g.time
<1> DEFINE a == AdapterKey(p, f)
           b == AdapterKey(p, g)
<1>1. Key(p, f) = IF a = NoKey THEN [own |-> FALSE, parts |-> BodyKey(f)]
                               ELSE [own |-> TRUE, parts |-> a]
  BY DEF Key
<1>2. Key(p, g) = IF b = NoKey THEN [own |-> FALSE, parts |-> BodyKey(g)]
                               ELSE [own |-> TRUE, parts |-> b]
  BY DEF Key
<1> HIDE DEF a, b
<1>a. /\ a # NoKey => Key(p, f).own = TRUE /\ Key(p, f).parts = a
      /\ a = NoKey => Key(p, f).own = FALSE /\ Key(p, f).parts = BodyKey(f)
  BY <1>1
<1>b. /\ b # NoKey => Key(p, g).own = TRUE /\ Key(p, g).parts = b
      /\ b = NoKey => Key(p, g).own = FALSE /\ Key(p, g).parts = BodyKey(g)
  BY <1>2
<1>4. CASE a # NoKey
  <2>1. b # NoKey
    BY <1>a, <1>b, <1>4
  <2>2. a = b
    BY <1>a, <1>b, <1>4, <2>1
  <2> QED BY <1>4, <2>2 DEF a, b
<1>5. CASE a = NoKey
  <2>1. b = NoKey
    BY <1>a, <1>b, <1>5
  <2>2. BodyKey(f) = BodyKey(g)
    BY <1>a, <1>b, <1>5, <2>1
  <2>3. \A q \in {"subject", "status", "code", "time"} : f[q] = g[q]
    BY <2>2, ByTells DEF BodyKey, Parts
  <2> QED BY <1>5, <2>1, <2>3 DEF a, b
<1> QED BY <1>4, <1>5

\* Two facts about one subject that differ differ in their time; an id is that of
\* one fact alone.  (The sense of Distinct, for two facts.)
Apart(f, g) ==
    /\ f.id = g.id /\ f.id # 0 => f = g
    /\ f.subject = g.subject /\ f.time = g.time => f = g

\* An adapter that takes the provider's own id tells every two facts apart.
LEMMA IdTells ==
    ASSUME NEW p, NEW f \in Fact, NEW g \in Fact, Apart(f, g),
           AdapterKey(p, f) = ById(f), AdapterKey(p, g) = ById(g),
           Key(p, f) = Key(p, g)
    PROVE  f = g
<1>1. CASE ById(f) # NoKey /\ ById(f) = ById(g)
  <2>1. f.id = g.id
    BY <1>1, ByTells DEF ById, Parts
  <2>2. CASE f.id = 0
    <3>1. ASSUME NEW q \in Parts PROVE By(f, {"id"})[q] = NoKey[q]
      BY <2>2 DEF By, NoKey
    <3>2. By(f, {"id"}) = NoKey
      BY <3>1 DEF By, NoKey
    <3> QED BY <1>1, <3>2 DEF ById
  <2>3. CASE f.id # 0
    BY <2>1, <2>3 DEF Apart
  <2> QED BY <2>2, <2>3
<1>2. CASE f.subject = g.subject /\ f.time = g.time
  BY <1>2 DEF Apart
<1> QED BY <1>1, <1>2, KeyCases

\* Two facts with one key are the same as far as the provider's keys tell.
LEMMA KeysTell ==
    ASSUME NEW p \in Providers, NEW f \in Fact, NEW g \in Fact, Apart(f, g),
           Key(p, f) = Key(p, g)
    PROVE  Covers(p, f, g)
<1> DEFINE a == AdapterKey(p, f)
           b == AdapterKey(p, g)
<1>a. \/ a # NoKey /\ a = b
      \/ /\ a = NoKey /\ b = NoKey
         /\ f.subject = g.subject /\ f.status = g.status
         /\ f.code = g.code /\ f.time = g.time
  BY KeyCases
<1>b. a = NoKey => Covers(p, f, g)
  BY <1>a DEF Covers, Apart
<1>1. CASE p \in {"stripe", "paypal", "shopify", "apple", "google_play",
                  "woocommerce", "matrix", "discord", "messenger",
                  "instagram"}
  <2>1. a = ById(f) /\ b = ById(g)
    BY <1>1 DEF AdapterKey, StripeKey, PayPalKey, ShopifyKey, AppleKey,
                GooglePlayKey, WooCommerceKey, MatrixKey, DiscordKey,
                MessengerKey, InstagramKey
  <2>2. f = g
    BY <2>1, IdTells
  <2> QED BY <2>2 DEF Covers
<1> USE DEF Parts
<1>2. CASE p = "view"
  <2>1. a = NoKey
    BY <1>2 DEF AdapterKey
  <2> QED BY <1>b, <2>1
<1>3. CASE p = "temu"
  <2>1. a = TemuKey(f) /\ b = TemuKey(g)
    BY <1>3 DEF AdapterKey
  <2>2. a # NoKey => f.subject = g.subject /\ f.time = g.time
    BY <1>a, <2>1, ByTells DEF TemuKey
  <2> QED BY <1>b, <2>2 DEF Apart, Covers
<1>4. CASE p = "gitlab"
  <2>1. a = GitLabKey(f) /\ b = GitLabKey(g)
    BY <1>4 DEF AdapterKey
  <2>2. a # NoKey => f.subject = g.subject /\ f.time = g.time
    BY <1>a, <2>1, ByTells DEF GitLabKey
  <2> QED BY <1>b, <2>2 DEF Apart, Covers
\* One key for each status.
<1>s. ASSUME a = By(f, {"subject", "status"}), b = By(g, {"subject", "status"}),
             p \in ByStatus
      PROVE  Covers(p, f, g)
  <2>1. a # NoKey => f.subject = g.subject /\ f.status = g.status
    BY <1>a, <1>s, ByTells
  <2>2. p \notin Telling
    BY <1>s DEF ByStatus, Telling
  <2> QED BY <1>b, <2>1, <2>2 DEF Covers
<1>5. CASE p = "netopia"
  BY <1>5, <1>s DEF AdapterKey, NetopiaKey, ByStatus
<1>6. CASE p = "bapp_store"
  BY <1>6, <1>s DEF AdapterKey, BappStoreKey, ByStatus
<1>7. CASE p = "trendyol"
  <2>1. a = TrendyolKey(f) /\ b = TrendyolKey(g) /\ p \in ByStatus
    BY <1>7 DEF AdapterKey, ByStatus
  <2>2. CASE f.subject # 0 /\ g.subject # 0
    BY <1>s, <2>1, <2>2 DEF TrendyolKey
  <2>3. CASE f.subject = 0 \/ g.subject = 0
    BY <1>a, <1>b, <2>1, <2>3 DEF TrendyolKey
  <2> QED BY <2>2, <2>3
<1>8. CASE p = "emag"
  <2>1. a = EmagKey(f) /\ b = EmagKey(g) /\ p \in ByStatus
    BY <1>8 DEF AdapterKey, ByStatus
  <2>2. CASE f.subject # 0 /\ g.subject # 0
    BY <1>s, <2>1, <2>2 DEF EmagKey
  <2>3. CASE f.subject = 0 \/ g.subject = 0
    BY <1>a, <1>b, <2>1, <2>3 DEF EmagKey
  <2> QED BY <2>2, <2>3
<1>9. CASE p = "cardinity"
  <2>1. a = CardinityKey(f) /\ b = CardinityKey(g) /\ p \notin Telling
    BY <1>9 DEF AdapterKey, Telling
  <2>2. a # NoKey => f.status = Approved /\ g.status = Approved
    BY <1>a, <2>1 DEF CardinityKey
  <2>3. a # NoKey => f.subject = g.subject
    BY <1>a, <2>1, <2>2, ByTells DEF CardinityKey
  <2> QED BY <1>b, <2>1, <2>2, <2>3 DEF Covers
<1>10. CASE p = "sentry"
  <2>1. a = SentryKey(f) /\ b = SentryKey(g) /\ p \in ByStatus
    BY <1>10 DEF AdapterKey, ByStatus
  <2>2. CASE f.id # 0 /\ g.id # 0
    BY <2>1, <2>2, IdTells DEF SentryKey, Covers
  <2>3. CASE f.id = 0 /\ g.id = 0
    BY <1>s, <2>1, <2>3 DEF SentryKey
  <2>4. CASE (f.id = 0) # (g.id = 0)
    <3>1. ById(f)["id"] = f.id /\ ById(g)["id"] = g.id
      BY DEF ById, By
    <3>2. /\ By(f, {"subject", "status"})["id"] = 0
          /\ By(g, {"subject", "status"})["id"] = 0
      BY DEF By
    <3>3. a # b
      BY <2>1, <2>4, <3>1, <3>2 DEF SentryKey
    <3> QED BY <1>a, <1>b, <3>3
  <2> QED BY <2>2, <2>3, <2>4
\* One key for a subject.
<1>t. ASSUME p \in Blurring, a # NoKey => f.subject = g.subject
      PROVE  Covers(p, f, g)
  <2>1. p \notin Telling
    BY <1>t DEF Blurring, Telling
  <2> QED BY <1>b, <1>t, <2>1 DEF Covers
<1>11. CASE p = "librapay"
  <2>1. a = LibraPayKey(f) /\ b = LibraPayKey(g) /\ p \in Blurring
    BY <1>11 DEF AdapterKey, Blurring
  <2>2. a # NoKey => f.subject = g.subject
    BY <1>a, <2>1, ByTells DEF LibraPayKey
  <2> QED BY <1>t, <2>1, <2>2
<1>12. CASE p \in {"euplatesc", "utrust", "whatsapp", "gitlab_push"}
  <2>1. /\ a = By(f, {"subject"}) /\ b = By(g, {"subject"})
        /\ p \in Blurring
    BY <1>12 DEF AdapterKey, EuPlatescKey, UtrustKey, WhatsAppKey,
                 GitLabPushKey, Blurring
  <2>2. a # NoKey => f.subject = g.subject
    BY <1>a, <2>1, ByTells
  <2> QED BY <1>t, <2>1, <2>2
<1>13. CASE p = "mobilpay"
  <2>1. a = MobilPayKey(f) /\ b = MobilPayKey(g) /\ p \in Blurring
    BY <1>13 DEF AdapterKey, Blurring
  <2>2. CASE f.id # 0 /\ g.id # 0
    BY <2>1, <2>2, IdTells DEF MobilPayKey, Covers
  <2>3. CASE f.id = 0 /\ g.id = 0
    <3>1. a # NoKey => f.subject = g.subject
      BY <1>a, <2>1, <2>3, ByTells DEF MobilPayKey
    <3> QED BY <1>t, <2>1, <3>1
  <2>4. CASE (f.id = 0) # (g.id = 0)
    <3>1. ById(f)["id"] = f.id /\ ById(g)["id"] = g.id
      BY DEF ById, By
    <3>2. By(f, {"subject"})["id"] = 0 /\ By(g, {"subject"})["id"] = 0
      BY DEF By
    <3>3. a # b
      BY <2>1, <2>4, <3>1, <3>2 DEF MobilPayKey
    <3> QED BY <1>a, <1>b, <3>3
  <2> QED BY <2>2, <2>3, <2>4
<1> QED
  BY <1>1, <1>2, <1>3, <1>4, <1>5, <1>6, <1>7, <1>8, <1>9, <1>10, <1>11,
     <1>12, <1>13 DEF Providers, Telling, ByStatus, Blurring

-----------------------------------------------------------------------------
(* No content is lost behind a row                                         *)

\* A request is about the row of what it carries, and a row holds something
\* with its key; what was answered has its row.
Kept ==
    /\ setting \in Settings
    /\ carried \in [Requests -> Notifications \cup {NoNotification}]
    /\ content \in [Notifications -> Notifications \cup {NoNotification}]
    /\ heard \subseteq Notifications
    /\ \A r \in Requests :
         request[r].stage # "idle"
           => carried[r] \in Notifications /\ request[r].about = Row(carried[r])
    /\ \A n \in Notifications :
         event[n] # "absent"
           => content[n] \in Notifications /\ SameKey(content[n], n)
    /\ \A i \in heard : Row(i) \in hit \/ event[Row(i)] # "absent"

\* The setting never changes, and so neither do the rows.
LEMMA SameRows ==
    ASSUME setting' = setting
    PROVE  /\ \A i \in Notifications : Row(i)' = Row(i)
           /\ \A i, j \in Notifications : SameKey(i, j)' = SameKey(i, j)
BY DEF Row, SameKey

\* A row has the key of what it is the row of.
LEMMA RowKey ==
    ASSUME NEW i \in Notifications
    PROVE  Row(i) \in Notifications /\ SameKey(i, Row(i))
BY DEF Row, SameKey

\* A row that a request or a task works at, past its creation, is there.
LEMMA RowThere ==
    ASSUME Typed, Rows, NEW n \in Notifications
    PROVE  /\ queue[n] > 0 => event[n] # "absent"
           /\ \A r \in Requests :
                request[r].about = n /\ request[r].stage # "new"
                  => event[n] # "absent"
           /\ \A w \in Workers : task[w].about = n => event[n] # "absent"
BY DEF Typed, Rows, Traceless

LEMMA InitKept == ContentInit => Kept
BY DEF ContentInit, Init, Kept

\* The part of a step that concerns neither what is stored nor what is heard: a
\* row keeps its content, a failure is noted, requests go on with what they have.
LEMMA KeepKept ==
    ASSUME Typed, Kept, UNCHANGED <<setting, content>>,
           carried' \in [Requests -> Notifications \cup {NoNotification}],
           heard' \subseteq Notifications,
           \A r \in Requests :
             request'[r].stage # "idle"
               => /\ carried'[r] \in Notifications
                  /\ request'[r].about = Row(carried'[r]),
           \A n \in Notifications : event'[n] # "absent" <=> event[n] # "absent",
           \A i \in heard' :
             i \in heard \/ Row(i) \in hit' \/ event[Row(i)] # "absent",
           hit \subseteq hit'
    PROVE  Kept'
<1>1. /\ \A i \in Notifications : Row(i)' = Row(i)
      /\ \A i, j \in Notifications : SameKey(i, j)' = SameKey(i, j)
  BY SameRows
<1>2. ASSUME NEW i \in heard'
      PROVE  Row(i) \in hit' \/ event'[Row(i)] # "absent"
  <2>1. i \in Notifications /\ Row(i) \in Notifications
    BY RowKey
  <2>2. Row(i) \in hit' \/ event[Row(i)] # "absent"
    BY DEF Kept
  <2> QED BY <2>1, <2>2
<1>3. ASSUME NEW r \in Requests, request'[r].stage # "idle"
      PROVE  /\ carried'[r] \in Notifications
             /\ request'[r].about = (Row(carried[r]))'
  BY <1>1, <1>3 DEF Row, SameKey
<1>4. ASSUME NEW n \in Notifications, event'[n] # "absent"
      PROVE  content'[n] \in Notifications /\ (SameKey(content[n], n))'
  <2>1. content[n] \in Notifications /\ SameKey(content[n], n)
    BY <1>4 DEF Kept
  <2> QED BY <2>1 DEF SameKey
<1>5. \A i \in heard' : Row(i)' = Row(i)
  BY <1>1
<1> QED
  BY <1>2, <1>3, <1>4, <1>5 DEF Kept

LEMMA StepKept ==
    Typed /\ Rows /\ Kept /\ [ContentNext]_contentVars => Kept'
<1> SUFFICES ASSUME Typed, Rows, Kept, [ContentNext]_contentVars PROVE Kept'
  OBVIOUS
<1>0. ASSUME NEW r \in Requests, request[r].stage # "idle"
      PROVE  /\ carried[r] \in Notifications
             /\ request[r].about = Row(carried[r])
             /\ request[r].about \in Notifications
             /\ SameKey(carried[r], request[r].about)
  BY <1>0, RowKey DEF Kept
<1>f. request \in [Requests -> RequestRecord]
  BY DEF Typed
<1>1. ASSUME NEW r \in Requests, NEW i \in Notifications, Deliver(r, i)
      PROVE  Kept'
  <2>1. CASE Verify(r, Row(i)) /\ carried' = [carried EXCEPT ![r] = i]
    <3>1. UNCHANGED <<setting, content, heard, event, hit>>
      BY <1>1, <2>1 DEF Deliver, Verify
    <3>2. ASSUME NEW q \in Requests, request'[q].stage # "idle"
          PROVE  /\ carried'[q] \in Notifications
                 /\ request'[q].about = Row(carried'[q])
      <4>1. CASE q = r
        <5>1. request'[q].about = Row(i) /\ carried'[q] = i
          BY <2>1, <4>1, <1>f DEF Verify, Kept
        <5> QED BY <5>1
      <4>2. CASE q # r
        <5>1. request'[q] = request[q] /\ carried'[q] = carried[q]
          BY <2>1, <4>2, <1>f DEF Verify, Kept
        <5> QED BY <3>2, <5>1, <1>0
      <4> QED BY <4>1, <4>2
    <3>3. carried' \in [Requests -> Notifications \cup {NoNotification}]
      BY <2>1 DEF Kept
    <3> QED BY <3>1, <3>2, <3>3, KeepKept DEF Kept
  <2>2. CASE Reject(r, Row(i)) /\ UNCHANGED carried
    <3>1. UNCHANGED <<setting, content, heard, event, hit, request, carried>>
      BY <1>1, <2>2 DEF Deliver, Reject, StoreRejected
    <3> QED BY <1>0, <3>1, KeepKept DEF Kept
  <2> QED BY <1>1, <2>1, <2>2 DEF Deliver
<1>2. ASSUME NEW r \in Requests, Store(r)
      PROVE  Kept'
  <2> DEFINE n == request[r].about
             c == carried[r]
  <2>1. /\ request[r].stage = "new"
        /\ event' = [event EXCEPT ![n] = "received"]
        /\ content' = [content EXCEPT ![n] = c]
        /\ request' = [request EXCEPT ![r].stage = "stored"]
        /\ UNCHANGED <<setting, carried, heard, hit>>
    BY <1>2 DEF Store, Create, Go
  <2>2. c \in Notifications /\ n = Row(c) /\ n \in Notifications /\ SameKey(c, n)
    BY <1>0, <2>1
  <2> HIDE DEF n, c
  <2>3. /\ \A i \in Notifications : Row(i)' = Row(i)
        /\ \A i, j \in Notifications : SameKey(i, j)' = SameKey(i, j)
    BY <2>1, SameRows
  <2>4. ASSUME NEW q \in Requests, request'[q].stage # "idle"
        PROVE  /\ carried'[q] \in Notifications
               /\ request'[q].about = (Row(carried[q]))'
    <3>1. request'[q].about = request[q].about /\ request[q].stage # "idle"
      BY <2>1, <2>4, <1>f DEF RequestRecord
    <3> QED BY <2>1, <3>1, <1>0 DEF Row, SameKey
  <2>5. ASSUME NEW m \in Notifications, event'[m] # "absent"
        PROVE  content'[m] \in Notifications /\ (SameKey(content[m], m))'
    <3>1. CASE m = n
      <4>1. content'[m] = c
        BY <2>1, <3>1 DEF Kept
      <4> QED BY <2>1, <2>2, <3>1, <4>1 DEF SameKey
    <3>2. CASE m # n
      <4>1. content'[m] = content[m] /\ event'[m] = event[m]
        BY <2>1, <3>2 DEF Kept, Typed
      <4>2. content[m] \in Notifications /\ SameKey(content[m], m)
        BY <2>5, <4>1 DEF Kept
      <4> QED BY <2>1, <4>1, <4>2 DEF SameKey
    <3> QED BY <3>1, <3>2
  <2>6. ASSUME NEW i \in heard'
        PROVE  (Row(i) \in hit \/ event[Row(i)] # "absent")'
    <3>1. /\ i \in Notifications /\ Row(i) \in Notifications
          /\ Row(i) \in hit \/ event[Row(i)] # "absent"
      BY <2>1, RowKey DEF Kept
    <3>2. event'[Row(i)] # "absent" \/ event'[Row(i)] = event[Row(i)]
      BY <2>1, <3>1 DEF Typed
    <3> QED BY <2>1, <2>3, <3>1, <3>2
  <2>7. content' \in [Notifications -> Notifications \cup {NoNotification}]
    BY <2>1, <2>2 DEF Kept
  <2> QED BY <2>1, <2>4, <2>5, <2>6, <2>7 DEF Kept
<1>3. ASSUME NEW r \in Requests, Continue(r)
      PROVE  Kept'
  <2>1. /\ UNCHANGED <<setting, carried, content, heard, hit>>
        /\ \E s \in {"announced"} : request' = [request EXCEPT ![r].stage = s]
        /\ request[r].stage \in {"stored", "known"}
        /\ \/ event' = event
           \/ event' = [event EXCEPT ![request[r].about] = "duplicate"]
    BY <1>3 DEF Continue, Announce, MarkDuplicate, Go
  <2>2. event[request[r].about] # "absent"
    BY <1>0, <2>1, RowThere
  <2>3. \A n \in Notifications : event'[n] # "absent" <=> event[n] # "absent"
    BY <2>1, <2>2 DEF Typed
  <2>4. ASSUME NEW q \in Requests, request'[q].stage # "idle"
        PROVE  /\ carried'[q] \in Notifications
               /\ request'[q].about = Row(carried'[q])
    <3>1. request'[q].about = request[q].about /\ request[q].stage # "idle"
      BY <2>1, <2>4, <1>f DEF RequestRecord
    <3> QED BY <2>1, <3>1, <1>0
  <2> QED BY <2>1, <2>3, <2>4, KeepKept DEF Kept
\* The request is over.
<1>e. ASSUME NEW r \in Requests, Leave(r),
             carried' = [carried EXCEPT ![r] = NoNotification]
      PROVE  /\ carried' \in [Requests -> Notifications \cup {NoNotification}]
             /\ \A q \in Requests :
                  request'[q].stage # "idle"
                    => /\ carried'[q] \in Notifications
                       /\ request'[q].about = Row(carried'[q])
  <2>1. carried' \in [Requests -> Notifications \cup {NoNotification}]
    BY <1>e DEF Kept
  <2>2. ASSUME NEW q \in Requests, request'[q].stage # "idle"
        PROVE  q # r
    BY <1>e, <2>2, <1>f DEF Leave
  <2>3. ASSUME NEW q \in Requests, q # r
        PROVE  request'[q] = request[q] /\ carried'[q] = carried[q]
    BY <1>e, <2>3, <1>f DEF Leave, Kept
  <2> QED BY <2>1, <2>2, <2>3, <1>0
<1>4. ASSUME NEW r \in Requests, Answer200(r)
      PROVE  Kept'
  <2> DEFINE n == request[r].about
  <2>1. /\ Leave(r) /\ carried' = [carried EXCEPT ![r] = NoNotification]
        /\ heard' = heard \cup {carried[r]}
        /\ UNCHANGED <<setting, content, event>>
        /\ request[r].stage # "idle"
        /\ hit \subseteq hit'
        /\ \/ Taken(n)
           \/ request[r].stage = "announced"
           \/ n \in hit'
    BY <1>4 DEF Answer200, Conflict, Dispatch, DispatchSkipped, Dispatching,
                StoreFailed, FaultOn
  <2>2. /\ carried[r] \in Notifications /\ n = Row(carried[r])
        /\ n \in Notifications
    BY <1>0, <2>1
  <2>3. n \in hit' \/ event[n] # "absent"
    BY <2>1, <2>2, RowThere DEF Taken
  <2> HIDE DEF n
  <2>4. \A i \in heard' :
          i \in heard \/ Row(i) \in hit' \/ event[Row(i)] # "absent"
    BY <2>1, <2>2, <2>3
  <2>5. heard' \subseteq Notifications
    BY <2>1, <2>2 DEF Kept
  <2> QED BY <1>e, <2>1, <2>4, <2>5, KeepKept
<1>5. ASSUME NEW r \in Requests, Vanish(r)
      PROVE  Kept'
  <2>1. /\ Leave(r) /\ carried' = [carried EXCEPT ![r] = NoNotification]
        /\ UNCHANGED <<setting, content, heard, event>>
        /\ hit \subseteq hit'
    BY <1>5 DEF Vanish, RequestDies, FaultOn
  <2> QED BY <1>e, <2>1, KeepKept DEF Kept
<1>6. ASSUME NEW w \in Workers, Work(w)
      PROVE  Kept'
  <2>1. UNCHANGED <<setting, carried, content, heard, request>>
    BY <1>6 DEF Work, Process, Take, MarkProcessed, MarkFailed, Signal,
                WorkerDies
  <2>2. hit \subseteq hit'
    BY <1>6 DEF Work, Process, Take, MarkProcessed, MarkFailed, Signal,
                WorkerDies, FaultOn
  <2>3. \A n \in Notifications : event'[n] # "absent" <=> event[n] # "absent"
    <3>1. ASSUME NEW n \in Notifications, Take(w, n)
          PROVE  \A m \in Notifications :
                   event'[m] # "absent" <=> event[m] # "absent"
      <4>1. event[n] # "absent" /\ event' = [event EXCEPT ![n] = "processing"]
        BY <3>1, RowThere DEF Take
      <4> QED BY <4>1 DEF Typed
    <3>2. ASSUME MarkProcessed(w) \/ MarkFailed(w)
          PROVE  \A m \in Notifications :
                   event'[m] # "absent" <=> event[m] # "absent"
      <4>1. /\ task[w].stage # "idle"
            /\ \E s \in {"processed", "failed"} :
                 event' = [event EXCEPT ![task[w].about] = s]
        BY <3>2 DEF MarkProcessed, MarkFailed
      <4>2. task[w].about \in Notifications
        BY <4>1 DEF Typed, TaskRecord
      <4>3. event[task[w].about] # "absent"
        BY <4>2, RowThere
      <4> QED BY <4>1, <4>2, <4>3 DEF Typed
    <3>3. ASSUME Signal(w) \/ WorkerDies(w)
          PROVE  event' = event
      BY <3>3 DEF Signal, WorkerDies
    <3> QED BY <1>6, <3>1, <3>2, <3>3 DEF Work, Process
  <2> QED BY <1>0, <2>1, <2>2, <2>3, KeepKept DEF Kept
<1>7. CASE UNCHANGED contentVars
  <2>1. UNCHANGED <<setting, carried, content, heard, request, event, hit>>
    BY <1>7 DEF contentVars, vars
  <2> QED BY <1>0, <2>1, KeepKept DEF Kept
<1> QED
  BY <1>1, <1>2, <1>3, <1>4, <1>5, <1>6, <1>7 DEF ContentNext

\* A notification that was verified and answered is in the database, unless a
\* failure fell upon its row: the row holds it, or one that says the same as far
\* as the provider's keys tell, for every provider, whatever the notifications.
THEOREM ContentIsKept == ContentSpec => []ContentKept
<1>1. Kept => ContentKept
  <2> SUFFICES ASSUME Kept, NEW i \in heard, Row(i) \notin hit
               PROVE  /\ event[Row(i)] # "absent"
                      /\ Covers(setting.provider,
                                setting.facts[content[Row(i)]],
                                setting.facts[i])
    BY DEF ContentKept
  <2> DEFINE n == Row(i)
             c == content[n]
             p == setting.provider
             f == setting.facts[c]
             g == setting.facts[i]
  <2>1. i \in Notifications /\ n \in Notifications /\ SameKey(i, n)
    BY RowKey DEF Kept
  <2>2. event[n] # "absent"
    BY DEF Kept
  <2>3. c \in Notifications /\ SameKey(c, n)
    BY <2>1, <2>2 DEF Kept
  <2>4. Key(p, f) = Key(p, g)
    BY <2>1, <2>3 DEF SameKey
  <2>5. setting \in Setting /\ Distinct(setting.facts)
    BY SettingsAssumption DEF Kept
  <2>6. p \in Providers /\ f \in Fact /\ g \in Fact
    BY <2>1, <2>3, <2>5 DEF Setting
  <2>7. Apart(f, g)
    BY <2>1, <2>3, <2>5 DEF Distinct, Apart
  <2>8. Covers(p, f, g)
    BY <2>4, <2>6, <2>7, KeysTell
  <2> QED BY <2>2, <2>8
<1>2. ContentSpec => [](Typed /\ Rows)
  BY ContentKeepsRows, Invariants, PTL
<1>3. ContentSpec => []Kept
  BY <1>2, InitKept, StepKept, PTL DEF ContentSpec
<1> QED
  BY <1>1, <1>3, PTL

=============================================================================
