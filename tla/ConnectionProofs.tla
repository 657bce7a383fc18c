------------------------- MODULE ConnectionProofs -------------------------
(***************************************************************************)
(* What the circuit breaker guarantees for any number of workers, any      *)
(* threshold and any order in which stale copies are saved.                *)
(***************************************************************************)
EXTENDS Connection, TLAPS

\* Failures and is_enabled agree within one version of the row.
Consistent(r) == r.auth_failure_count >= Threshold => ~r.is_enabled

\* A version of the row counts no failure that was not recorded.
Accounted(r) == Earns(total, r)

\* Neither invariant is inductive on the row alone: what is saved comes from a
\* copy, so every copy that may still be saved has to satisfy it too.
IInv ==
    /\ TypeOK
    /\ Consistent(row)
    /\ Accounted(row)
    /\ \A w \in Workers :
         /\ Consistent(job[w].copy)
         /\ MayStillSave(w) => Accounted(job[w].copy)

-----------------------------------------------------------------------------
(* The operators the actions are built from                                *)

\* Counting one more failure stays in range and never decreases the count.
LEMMA UpProperties ==
    ASSUME NEW n \in 0..MaxCount
    PROVE  /\ Up(n) \in 0..MaxCount
           /\ Up(n) >= n
           /\ \A m \in 0..MaxCount : n <= m => Up(n) <= Up(m)
BY ThresholdAssumption DEF Up

\* A saved row is a row.
LEMMA SavedType ==
    ASSUME row \in Row, NEW d \in Row, NEW fields
    PROVE  Saved(d, fields) \in Row
BY DEF Saved, Row

\* record_auth_failure: the copy is counted up, disconnected, and disabled at
\* the threshold.
LEMMA FailedProperties ==
    ASSUME NEW c \in Row
    PROVE  /\ Failed(c) \in Row
           /\ Failed(c).auth_failure_count = Up(c.auth_failure_count)
           /\ Failed(c).is_connected = FALSE
           /\ Up(c.auth_failure_count) >= Threshold => ~Failed(c).is_enabled
           /\ Up(c.auth_failure_count) < Threshold
                => Failed(c).is_enabled = c.is_enabled
<1> DEFINE n == Up(c.auth_failure_count)
<1>1. n \in 0..MaxCount
  BY UpProperties DEF Row
<1>2. CASE n >= Threshold
  <2>1. Failed(c) = [c EXCEPT !.auth_failure_count = n, !.is_connected = FALSE,
                              !.is_enabled = FALSE, !.disabled_reason = TRUE]
    BY <1>2 DEF Failed
  <2> HIDE DEF n
  <2>2. Failed(c) \in Row
    BY <1>1, <2>1 DEF Row
  <2>3. /\ Failed(c).auth_failure_count = n
        /\ Failed(c).is_connected = FALSE
        /\ Failed(c).is_enabled = FALSE
    BY <2>1 DEF Row
  <2> QED BY <1>1, <1>2, <2>2, <2>3, ThresholdAssumption DEF n
<1>3. CASE ~(n >= Threshold)
  <2>1. Failed(c) = [c EXCEPT !.auth_failure_count = n, !.is_connected = FALSE]
    BY <1>3 DEF Failed
  <2> HIDE DEF n
  <2>2. Failed(c) \in Row
    BY <1>1, <2>1 DEF Row
  <2>3. /\ Failed(c).auth_failure_count = n
        /\ Failed(c).is_connected = FALSE
        /\ Failed(c).is_enabled = c.is_enabled
    BY <2>1 DEF Row
  <2> QED BY <1>1, <1>3, <2>2, <2>3, ThresholdAssumption DEF n
<1> QED BY <1>2, <1>3

\* An idle worker's job is a job, and its blank copy is consistent.
LEMMA IdleProperties ==
    /\ Idle \in Job
    /\ Idle.stage = "idle"
    /\ Idle.copy.is_enabled = TRUE
    /\ Idle.copy.is_connected = FALSE
    /\ Idle.copy.auth_failure_count = 0
<1> DEFINE key == CHOOSE k \in Keys : TRUE
           blank == [is_enabled |-> TRUE, is_connected |-> FALSE,
                     auth_failure_count |-> 0, disabled_reason |-> FALSE,
                     credentials |-> key]
<1>1. key \in Keys
  BY KeysAssumption
<1> HIDE DEF key
<1>2. blank \in Row
  BY <1>1, ThresholdAssumption DEF Row
<1>3. Status(blank) \in BOOLEAN \X BOOLEAN
  BY DEF Status
<1>4. Idle = [kind |-> "execute", stage |-> "idle", answer |-> "none",
              copy |-> blank, was |-> Status(blank)]
  BY DEF Idle, key
<1> QED BY <1>2, <1>3, <1>4 DEF Job, AllKinds, Stages, Answers

\* mark_connected and re_enable: the count restarts at zero.
LEMMA ResetProperties ==
    ASSUME NEW c \in Row
    PROVE  /\ Connected(c) \in Row
           /\ Connected(c).auth_failure_count = 0
           /\ Connected(c).is_enabled = c.is_enabled
           /\ ReEnabled(c) \in Row
           /\ ReEnabled(c).auth_failure_count = 0
           /\ ReEnabled(c).is_enabled = TRUE
           /\ ReEnabled(c).is_connected = c.is_connected
<1>1. 0 \in 0..MaxCount
  BY ThresholdAssumption
<1> QED BY <1>1 DEF Connected, ReEnabled, Row

-----------------------------------------------------------------------------
(* Type correctness                                                        *)

LEMMA InitType == Init => TypeOK
<1> SUFFICES ASSUME Init PROVE TypeOK
  OBVIOUS
<1>1. PICK k \in Keys, c \in BOOLEAN :
        row = [is_enabled |-> TRUE, is_connected |-> c,
               auth_failure_count |-> 0, disabled_reason |-> FALSE,
               credentials |-> k]
  BY DEF Init
<1>2. 0 \in 0..MaxCount
  BY ThresholdAssumption
<1>3. row \in Row /\ Status(row) \in BOOLEAN \X BOOLEAN
  BY <1>1, <1>2 DEF Row, Status
<1> QED BY <1>2, <1>3, IdleProperties DEF Init, TypeOK

LEMMA StepType == TypeOK /\ [Next]_vars => TypeOK'
<1> SUFFICES ASSUME TypeOK, [Next]_vars PROVE TypeOK'
  OBVIOUS
<1> USE DEF TypeOK
<1>0. \A w \in Workers : job[w] \in Job /\ job[w].copy \in Row
  BY DEF Job
<1>1. ASSUME NEW w \in Workers, NEW k \in Kinds, Begin(w, k)
      PROVE  TypeOK'
  <2>1. Status(row) \in BOOLEAN \X BOOLEAN
    BY DEF Status, Row
  <2> QED BY <1>1, <2>1, KindsAssumption DEF Begin, Job, Stages, Answers
<1>2. ASSUME NEW w \in Workers, Answer(w)
      PROVE  TypeOK'
  <2>1. PICK a \in Answers :
          job' = [job EXCEPT ![w].stage = "answered", ![w].answer = a]
    BY <1>2 DEF Answer
  <2>2. job' = [job EXCEPT ![w] =
                  [job[w] EXCEPT !.stage = "answered", !.answer = a]]
    BY <2>1
  <2>3. [job[w] EXCEPT !.stage = "answered", !.answer = a] \in Job
    BY <1>0 DEF Job, Stages
  <2> QED BY <1>2, <2>2, <2>3 DEF Answer
<1>3. ASSUME NEW w \in Workers, NEW d \in Row, NEW fields,
             Persist(w, d, fields)
      PROVE  /\ row' \in Row
             /\ job' \in [Workers -> Job]
             /\ UNCHANGED <<accepted, heard, alerted, muted>>
  BY <1>3, <1>0, SavedType DEF Persist, Job, Stages
<1>4. ASSUME NEW w \in Workers, Tally(w)
      PROVE  streak' \in 0..MaxCount
  BY <1>4, UpProperties, ThresholdAssumption DEF Tally
<1>5. ASSUME NEW w \in Workers, RecordAuthFailure(w)
      PROVE  TypeOK'
  BY <1>5, <1>0, <1>3, <1>4, UpProperties, FailedProperties
     DEF RecordAuthFailure
<1>6. ASSUME NEW w \in Workers, MarkConnected(w)
      PROVE  TypeOK'
  <2>1. Connected(job[w].copy) \in Row
    BY <1>0, ResetProperties
  <2>2. \A k \in Keys :
          [Connected(job[w].copy) EXCEPT !.credentials = k] \in Row
    BY <2>1 DEF Row
  <2> QED BY <1>6, <1>3, <1>4, <2>1, <2>2 DEF MarkConnected, Recount
<1>7. ASSUME NEW w \in Workers, ReEnable(w)
      PROVE  TypeOK'
  <2>1. ReEnabled(job[w].copy) \in Row
    BY <1>0, ResetProperties
  <2> QED BY <1>7, <1>3, <2>1, ThresholdAssumption DEF ReEnable, Recount
<1>8. ASSUME NEW w \in Workers, ServiceTest(w)
      PROVE  TypeOK'
  BY <1>8, <1>4, IdleProperties DEF ServiceTest, Row
<1>9. ASSUME NEW w \in Workers, Edit(w)
      PROVE  TypeOK'
  BY <1>9, <1>0, IdleProperties DEF Edit, Row, Recount
<1>10. ASSUME NEW w \in Workers, Dismiss(w)
       PROVE  TypeOK'
  BY <1>10, <1>4, IdleProperties DEF Dismiss
<1>11. ASSUME NEW w \in Workers, Emit(w)
       PROVE  TypeOK'
  <2>1. Status(job[w].copy) \in BOOLEAN \X BOOLEAN
    BY <1>0 DEF Status, Row
  <2>2. heard' \in BOOLEAN \X BOOLEAN /\ alerted' \in BOOLEAN
    BY <1>11, <2>1 DEF Emit
  <2> QED BY <1>11, <2>2, IdleProperties DEF Emit
<1>12. ASSUME NEW w \in Workers, Crash(w)
       PROVE  TypeOK'
  BY <1>12, IdleProperties DEF Crash
<1>13. ASSUME NEW k \in Keys, RotateCredentials(k) \/ Revoke(k)
       PROVE  TypeOK'
  BY <1>13 DEF RotateCredentials, Revoke, Row
<1>14. CASE UNCHANGED vars
  BY <1>14 DEF vars
<1> QED
  BY <1>1, <1>2, <1>5, <1>6, <1>7, <1>8, <1>9, <1>10, <1>11, <1>12, <1>13,
     <1>14 DEF Next, Proceed

\* The breaker's state is always well formed.
THEOREM TypeCorrect == Spec => []TypeOK
BY InitType, StepType, PTL DEF Spec

-----------------------------------------------------------------------------
(* Failures, trips and what was really recorded                            *)

LEMMA InitIInv == Init => IInv
<1> SUFFICES ASSUME Init PROVE IInv
  OBVIOUS
<1>1. TypeOK
  BY InitType
<1>2. row.auth_failure_count = 0 /\ row.is_enabled = TRUE /\ total = 0
  BY DEF Init
<1>3. \A w \in Workers : job[w] = Idle
  BY DEF Init
<1> QED
  BY <1>1, <1>2, <1>3, IdleProperties, ThresholdAssumption
     DEF IInv, Consistent, Accounted, Earns, MayStillSave

\* After a recount the row left behind and the copies of the others are
\* accounted for.
LEMMA RecountProperties ==
    ASSUME NEW w \in Workers, NEW r, Recount(w, r)
    PROVE  /\ total' \in 0..MaxCount
           /\ Earns(total', r)
           /\ \A v \in Workers \ {w} :
                MayStillSave(v) => Earns(total', job[v].copy)
BY DEF Recount

\* What holds of the copies at hand survives the end of a job.
LEMMA KeepVersions ==
    ASSUME IInv, NEW w \in Workers,
           job' = [job EXCEPT ![w] = Idle],
           \A v \in Workers \ {w} :
             MayStillSave(v) => Earns(total', job[v].copy)
    PROVE  \A v \in Workers :
             /\ Consistent(job[v].copy)'
             /\ MayStillSave(v)' => Accounted(job[v].copy)'
<1> SUFFICES ASSUME NEW v \in Workers
             PROVE  /\ Consistent(job[v].copy)'
                    /\ MayStillSave(v)' => Accounted(job[v].copy)'
  OBVIOUS
<1>1. job'[v] = IF v = w THEN Idle ELSE job[v]
  BY DEF IInv, TypeOK
<1>2. CASE v = w
  BY <1>1, <1>2, IdleProperties, ThresholdAssumption
     DEF Consistent, MayStillSave
<1>3. CASE v # w
  BY <1>1, <1>3 DEF IInv, Consistent, Accounted, MayStillSave
<1> QED BY <1>2, <1>3

\* The same for a step that saves the edited copy d.
LEMMA SaveVersions ==
    ASSUME IInv, NEW w \in Workers, NEW d \in Row, NEW fields,
           Persist(w, d, fields), Consistent(d),
           \A v \in Workers \ {w} :
             MayStillSave(v) => Earns(total', job[v].copy)
    PROVE  \A v \in Workers :
             /\ Consistent(job[v].copy)'
             /\ MayStillSave(v)' => Accounted(job[v].copy)'
<1> SUFFICES ASSUME NEW v \in Workers
             PROVE  /\ Consistent(job[v].copy)'
                    /\ MayStillSave(v)' => Accounted(job[v].copy)'
  OBVIOUS
<1>1. CASE v = w
  <2>1. job'[v].copy = d /\ job'[v].stage = "saved"
    BY <1>1 DEF IInv, TypeOK, Job, Persist
  <2> QED BY <2>1 DEF Consistent, MayStillSave
<1>2. CASE v # w
  <2>1. job'[v] = job[v]
    BY <1>2 DEF IInv, TypeOK, Persist
  <2> QED BY <1>2, <2>1 DEF IInv, Consistent, Accounted, MayStillSave
<1> QED BY <1>1, <1>2

\* More failures account for what fewer do.
LEMMA EarnsMore ==
    ASSUME NEW r \in Row, NEW n \in 0..MaxCount, NEW m \in 0..MaxCount,
           n <= m, Earns(n, r)
    PROVE  Earns(m, r)
BY ThresholdAssumption DEF Earns, Row

LEMMA StepIInv == IInv /\ [Next]_vars => IInv'
<1> SUFFICES ASSUME IInv, [Next]_vars PROVE IInv'
  OBVIOUS
<1> USE ThresholdAssumption
<1>t. TypeOK'
  BY StepType DEF IInv
<1>0. ASSUME NEW w \in Workers
      PROVE  /\ job[w] \in Job /\ job[w].copy \in Row
             /\ Consistent(job[w].copy)
             /\ MayStillSave(w) => Earns(total, job[w].copy)
             /\ job[w].copy.auth_failure_count \in 0..MaxCount
  BY DEF IInv, TypeOK, Job, Row, Accounted
<1>n. total \in 0..MaxCount /\ row \in Row /\ Earns(total, row)
  BY DEF IInv, TypeOK, Accounted
<1>1. ASSUME NEW w \in Workers, NEW k \in Kinds, Begin(w, k)
      PROVE  IInv'
  <2>1. \A v \in Workers :
          \/ job'[v].copy = row
          \/ job'[v].copy = job[v].copy /\ job'[v].stage = job[v].stage
    BY <1>1 DEF Begin, IInv, TypeOK
  <2>2. row' = row /\ total' = total
    BY <1>1 DEF Begin
  <2>3. /\ Consistent(row)' /\ Earns(total', row')
        /\ \A v \in Workers :
             /\ Consistent(job[v].copy)'
             /\ MayStillSave(v)' => Earns(total', job'[v].copy)
    BY <1>0, <1>n, <2>1, <2>2 DEF IInv, Consistent, MayStillSave
  <2> QED BY <1>t, <2>3 DEF IInv, Accounted
<1>2. ASSUME NEW w \in Workers, Answer(w)
      PROVE  IInv'
  <2>1. ASSUME NEW v \in Workers
        PROVE  /\ job'[v].copy = job[v].copy
               /\ job'[v].stage = job[v].stage \/ MayStillSave(v)
    BY <1>2 DEF Answer, IInv, TypeOK, Job, MayStillSave
  <2>2. row' = row /\ total' = total
    BY <1>2 DEF Answer
  <2>3. /\ Consistent(row)' /\ Earns(total', row')
        /\ \A v \in Workers :
             /\ Consistent(job[v].copy)'
             /\ MayStillSave(v)' => Earns(total', job'[v].copy)
    BY <1>0, <1>n, <2>1, <2>2 DEF IInv, Consistent, MayStillSave
  <2> QED BY <1>t, <2>3 DEF IInv, Accounted
<1>3. ASSUME NEW w \in Workers, RecordAuthFailure(w)
      PROVE  IInv'
  <2> DEFINE c == job[w].copy
             d == Failed(c)
  <2>1. Persist(w, d, FailedFields(d)) /\ total' = Up(total)
    BY <1>3 DEF RecordAuthFailure
  <2>2. /\ d \in Row
        /\ d.auth_failure_count = Up(c.auth_failure_count)
        /\ Up(c.auth_failure_count) >= Threshold => ~d.is_enabled
        /\ Up(c.auth_failure_count) < Threshold
             => d.is_enabled = c.is_enabled
    BY <1>0, FailedProperties
  <2>3. /\ Up(total) \in 0..MaxCount
        /\ Up(total) >= total
        /\ Up(c.auth_failure_count) \in 0..MaxCount
        /\ Up(c.auth_failure_count) <= Up(total)
        /\ Earns(total, c)
    <3>1. Earns(total, c)
      BY <1>0, <1>3 DEF RecordAuthFailure, MayStillSave
    <3> QED BY <1>0, <1>n, <3>1, UpProperties DEF Earns
  <2> HIDE DEF d
  <2>4. Earns(total', d)
    BY <1>0, <1>n, <2>1, <2>2, <2>3 DEF Earns
  <2>7. \A v \in Workers : MayStillSave(v) => Earns(total', job[v].copy)
    BY <1>0, <1>n, <2>1, <2>3, EarnsMore
  <2>8. Accounted(row)'
    <3>1. Earns(total', row)
      BY <1>n, <2>1, <2>3, EarnsMore
    <3>2. /\ row'.auth_failure_count = d.auth_failure_count
          /\ row'.is_enabled \in {d.is_enabled, row.is_enabled}
      BY <2>1 DEF Persist, Saved, FailedFields
    <3> QED BY <2>4, <3>1, <3>2 DEF Accounted, Earns
  <2>5. Consistent(d)
    BY <2>2, <2>3 DEF Consistent
  <2>6. Consistent(row)'
    <3>1. row'.auth_failure_count = d.auth_failure_count
      BY <2>1 DEF Persist, Saved, FailedFields
    <3>2. d.auth_failure_count >= Threshold
            => row'.is_enabled = d.is_enabled
      BY <2>1 DEF Persist, Saved, FailedFields
    <3> QED BY <2>5, <3>1, <3>2 DEF Consistent
  <2> QED BY <1>t, <2>1, <2>2, <2>5, <2>6, <2>7, <2>8, SaveVersions DEF IInv
<1>4. ASSUME NEW w \in Workers, MarkConnected(w)
      PROVE  IInv'
  <2>1. PICK d, fields :
          /\ Persist(w, d, fields)
          /\ d \in Row
          /\ d.auth_failure_count = 0
          /\ d.is_enabled = job[w].copy.is_enabled
          /\ "auth_failure_count" \in fields
          /\ "is_enabled" \notin fields
    <3>1. CASE Persist(w, Connected(job[w].copy), ConnectedFields)
      BY <1>0, <3>1, ResetProperties DEF ConnectedFields
    <3>2. ASSUME NEW k \in Keys,
                 Persist(w, [Connected(job[w].copy) EXCEPT !.credentials = k],
                         ConnectedFields \cup {"credentials"})
          PROVE  \E d, fields :
                   /\ Persist(w, d, fields)
                   /\ d \in Row
                   /\ d.auth_failure_count = 0
                   /\ d.is_enabled = job[w].copy.is_enabled
                   /\ "auth_failure_count" \in fields
                   /\ "is_enabled" \notin fields
      <4> DEFINE d == [Connected(job[w].copy) EXCEPT !.credentials = k]
      <4>1. d \in Row /\ d.auth_failure_count = 0
            /\ d.is_enabled = job[w].copy.is_enabled
        <5> DEFINE e == Connected(job[w].copy)
        <5>1. /\ e \in Row /\ e.auth_failure_count = 0
              /\ e.is_enabled = job[w].copy.is_enabled
          BY <1>0, ResetProperties
        <5> HIDE DEF e
        <5>2. /\ [e EXCEPT !.credentials = k] \in Row
              /\ [e EXCEPT !.credentials = k].auth_failure_count
                   = e.auth_failure_count
              /\ [e EXCEPT !.credentials = k].is_enabled = e.is_enabled
          BY <5>1 DEF Row
        <5> QED BY <5>1, <5>2 DEF e
      <4>2. /\ "auth_failure_count" \in ConnectedFields \cup {"credentials"}
            /\ "is_enabled" \notin ConnectedFields \cup {"credentials"}
        BY DEF ConnectedFields
      <4> HIDE DEF d
      <4>3. Persist(w, d, ConnectedFields \cup {"credentials"})
        BY <3>2 DEF d
      <4> QED BY <4>1, <4>2, <4>3
    <3> QED BY <1>4, <3>1, <3>2 DEF MarkConnected
  <2>2. row'.auth_failure_count = 0
    BY <2>1 DEF Persist, Saved
  <2>3. Consistent(d) /\ Consistent(row)'
    BY <2>1, <2>2 DEF Consistent
  <2> DEFINE r == [row EXCEPT !.auth_failure_count = 0]
  <2>4. /\ Earns(total', r)
        /\ \A v \in Workers \ {w} :
             MayStillSave(v) => Earns(total', job[v].copy)
    BY <1>4, RecountProperties DEF MarkConnected
  <2>5. r.auth_failure_count = 0 /\ r.is_enabled = row.is_enabled
    BY <1>n DEF Row
  <2> HIDE DEF r
  <2>6. row'.is_enabled = row.is_enabled
    BY <2>1 DEF Persist, Saved
  <2>7. Accounted(row)'
    BY <2>2, <2>4, <2>5, <2>6 DEF Accounted, Earns
  <2> QED BY <1>t, <2>1, <2>3, <2>4, <2>7, SaveVersions DEF IInv
<1>5. ASSUME NEW w \in Workers, ReEnable(w)
      PROVE  IInv'
  <2> DEFINE d == ReEnabled(job[w].copy)
  <2>1. Persist(w, d, ReEnabledFields)
    BY <1>5 DEF ReEnable
  <2>2. /\ d \in Row
        /\ d.auth_failure_count = 0
        /\ d.is_enabled = TRUE
    BY <1>0, ResetProperties
  <2> HIDE DEF d
  <2>3. row'.auth_failure_count = 0 /\ row'.is_enabled = TRUE
    BY <2>1, <2>2 DEF Persist, Saved, ReEnabledFields
  <2>4. Consistent(d) /\ Consistent(row)'
    BY <2>2, <2>3 DEF Consistent
  <2>5. /\ total' \in 0..MaxCount
        /\ \A v \in Workers \ {w} :
             MayStillSave(v) => Earns(total', job[v].copy)
    BY <1>5, RecountProperties DEF ReEnable
  <2>6. Accounted(row)'
    BY <2>3, <2>5 DEF Accounted, Earns
  <2> QED BY <1>t, <2>1, <2>2, <2>4, <2>5, <2>6, SaveVersions DEF IInv
<1>6. ASSUME NEW w \in Workers, ServiceTest(w)
      PROVE  IInv'
  <2>1. /\ row'.auth_failure_count = row.auth_failure_count
        /\ row'.is_enabled = row.is_enabled
        /\ total' = total
        /\ job' = [job EXCEPT ![w] = Idle]
    BY <1>6 DEF ServiceTest, IInv, TypeOK, Row
  <2>2. Consistent(row)' /\ Accounted(row)'
    BY <2>1 DEF IInv, Consistent, Accounted, Earns
  <2> QED BY <1>t, <1>0, <2>1, <2>2, KeepVersions DEF IInv
<1>7. ASSUME NEW w \in Workers, Edit(w)
      PROVE  IInv'
  <2>1. PICK k \in Keys : row' = [job[w].copy EXCEPT !.credentials = k]
    BY <1>7 DEF Edit
  <2>2. /\ row'.auth_failure_count = job[w].copy.auth_failure_count
        /\ row'.is_enabled = job[w].copy.is_enabled
    BY <1>0, <2>1 DEF Row
  <2>3. /\ job' = [job EXCEPT ![w] = Idle]
        /\ Earns(total', job[w].copy)
        /\ \A v \in Workers \ {w} :
             MayStillSave(v) => Earns(total', job[v].copy)
    BY <1>7, RecountProperties DEF Edit
  <2>4. Consistent(row)' /\ Accounted(row)'
    BY <1>0, <2>2, <2>3 DEF Consistent, Accounted, Earns
  <2> QED BY <1>t, <2>3, <2>4, KeepVersions DEF IInv
<1>8. ASSUME NEW w \in Workers, Dismiss(w) \/ Emit(w) \/ Crash(w)
      PROVE  IInv'
  <2>1. row' = row /\ total' = total /\ job' = [job EXCEPT ![w] = Idle]
    BY <1>8 DEF Dismiss, Emit, Crash
  <2>2. Consistent(row)' /\ Accounted(row)'
    BY <1>n, <2>1 DEF IInv, Consistent, Accounted
  <2> QED BY <1>t, <1>0, <2>1, <2>2, KeepVersions DEF IInv
<1>9. ASSUME NEW k \in Keys, RotateCredentials(k) \/ Revoke(k)
      PROVE  IInv'
  <2>1. /\ row'.auth_failure_count = row.auth_failure_count
        /\ row'.is_enabled = row.is_enabled
        /\ total' = total /\ job' = job
    BY <1>9 DEF RotateCredentials, Revoke, IInv, TypeOK, Row
  <2> QED BY <1>t, <2>1 DEF IInv, Consistent, Accounted, Earns, MayStillSave
<1>10. CASE UNCHANGED vars
  BY <1>t, <1>10 DEF vars, IInv, Consistent, Accounted, MayStillSave
<1> QED
  BY <1>1, <1>2, <1>3, <1>4, <1>5, <1>6, <1>7, <1>8, <1>9, <1>10
     DEF Next, Proceed

LEMMA Inductive == Spec => []IInv
BY InitIInv, StepIInv, PTL DEF Spec

\* No interleaving of stale saves leaves an enabled row whose count is at the
\* threshold (record_auth_failure writes the two fields together).
THEOREM ThresholdAlwaysDisables == Spec => []ThresholdDisables
<1>1. IInv => ThresholdDisables
  BY DEF IInv, Consistent, ThresholdDisables
<1> QED BY <1>1, Inductive, PTL

\* No interleaving disables a connection before Threshold authentication
\* failures were recorded on it since the last success, re_enable or edit, on
\* top of what the jobs then under way had loaded: lost updates only ever lose
\* failures, and every trip is earned anew.
THEOREM TripsAreEarned == Spec => []NoSpuriousTrip
<1>1. IInv => NoSpuriousTrip
  BY ThresholdAssumption DEF IInv, TypeOK, Accounted, Earns, NoSpuriousTrip
<1> QED BY <1>1, Inductive, PTL

-----------------------------------------------------------------------------
(* Only an operator turns is_enabled back on                               *)

\* Whatever the copies hold, the only saves that can turn is_enabled on are
\* re_enable and a plain save() by hand.
THEOREM OnlyOperatorsReenable == Spec => OnlyManualReenable
<1>1. ASSUME TypeOK, [Next]_vars, ~row.is_enabled, row'.is_enabled
      PROVE  \E w \in Workers : /\ job[w].kind \in {"re_enable", "edit"}
                                /\ job'[w] # job[w]
  <2> USE <1>1
  <2>1. ASSUME NEW w \in Workers, RecordAuthFailure(w)
        PROVE  FALSE
    <3> DEFINE c == job[w].copy
               d == Failed(c)
    <3>1. Persist(w, d, FailedFields(d))
      BY <2>1 DEF RecordAuthFailure
    <3>2. c \in Row /\ Up(c.auth_failure_count) \in 0..MaxCount
      BY UpProperties DEF TypeOK, Job, Row
    <3>3. /\ d.auth_failure_count = Up(c.auth_failure_count)
          /\ Up(c.auth_failure_count) >= Threshold => ~d.is_enabled
      BY <3>2, FailedProperties
    <3> HIDE DEF d
    <3>4. CASE d.auth_failure_count >= Threshold
      <4>1. row'.is_enabled = d.is_enabled
        BY <3>1, <3>4 DEF Persist, Saved, FailedFields
      <4> QED BY <3>3, <3>4, <4>1
    <3>5. CASE ~(d.auth_failure_count >= Threshold)
      <4>1. row'.is_enabled = row.is_enabled
        BY <3>1, <3>5 DEF Persist, Saved, FailedFields
      <4> QED BY <4>1
    <3> QED BY <3>4, <3>5
  <2>2. ASSUME NEW w \in Workers, MarkConnected(w)
        PROVE  FALSE
    <3>1. ASSUME NEW d, NEW fields, "is_enabled" \notin fields,
                 Persist(w, d, fields)
          PROVE  row'.is_enabled = row.is_enabled
      BY <3>1 DEF Persist, Saved
    <3>2. /\ "is_enabled" \notin ConnectedFields
          /\ "is_enabled" \notin ConnectedFields \cup {"credentials"}
      BY DEF ConnectedFields
    <3> QED BY <2>2, <3>1, <3>2 DEF MarkConnected
  <2>3. ASSUME NEW w \in Workers, ServiceTest(w)
        PROVE  FALSE
    BY <2>3 DEF ServiceTest, TypeOK, Row
  <2>4. ASSUME NEW w \in Workers, ReEnable(w) \/ Edit(w)
        PROVE  job[w].kind \in {"re_enable", "edit"} /\ job'[w] # job[w]
    <3>1. job[w].kind \in {"re_enable", "edit"} /\ job[w].stage = "loaded"
      BY <2>4 DEF ReEnable, Edit
    <3>2. job'[w].stage # "loaded"
      BY <2>4, <3>1 DEF ReEnable, Edit, Persist, Idle, TypeOK, Job
    <3> QED BY <3>1, <3>2
  <2>5. ASSUME NEW k \in Keys, RotateCredentials(k) \/ Revoke(k)
        PROVE  FALSE
    BY <2>5 DEF RotateCredentials, Revoke, TypeOK, Row
  <2>6. ASSUME NEW w \in Workers,
               \/ \E k \in Kinds : Begin(w, k)
               \/ Answer(w) \/ Dismiss(w) \/ Emit(w) \/ Crash(w)
        PROVE  FALSE
    BY <2>6 DEF Begin, Answer, Dismiss, Emit, Crash
  <2>7. CASE UNCHANGED vars
    BY <2>7 DEF vars
  <2> QED BY <2>1, <2>2, <2>3, <2>4, <2>5, <2>6, <2>7 DEF Next, Proceed
<1>2. TypeOK /\ [Next]_vars
        => [~row.is_enabled /\ row'.is_enabled
             => \E w \in Workers :
                   /\ job[w].kind \in {"re_enable", "edit"}
                   /\ job'[w] # job[w]]_vars
  BY <1>1
<1> QED BY <1>2, TypeCorrect, PTL DEF Spec, OnlyManualReenable

-----------------------------------------------------------------------------
(* A suspect connection is not operational                                 *)

Suspended(r) == r.auth_failure_count > 0 => ~r.is_connected

\* Again an invariant of every version at hand, together with the fact that
\* the jobs under way are of the kinds that run here.
SuspectInv ==
    /\ TypeOK
    /\ Suspended(row)
    /\ \A w \in Workers :
         /\ Suspended(job[w].copy)
         /\ job[w].stage # "idle" => job[w].kind \in Kinds

LEMMA StepSuspect ==
    ASSUME "service_test" \notin Kinds
    PROVE  SuspectInv /\ [Next]_vars => SuspectInv'
<1> SUFFICES ASSUME SuspectInv, [Next]_vars PROVE SuspectInv'
  OBVIOUS
<1> USE ThresholdAssumption
<1>t. TypeOK'
  BY StepType DEF SuspectInv
<1>0. ASSUME NEW w \in Workers
      PROVE  /\ job[w] \in Job /\ job[w].copy \in Row
             /\ Suspended(job[w].copy)
             /\ job[w].stage # "idle" => job[w].kind \in Kinds
  BY DEF SuspectInv, TypeOK, Job
<1>a. ASSUME NEW w \in Workers, NEW d \in Row, NEW fields,
             Persist(w, d, fields), job[w].stage # "idle",
             Suspended(d), Suspended(row)'
      PROVE  SuspectInv'
  <2>1. ASSUME NEW v \in Workers
        PROVE  /\ Suspended(job[v].copy)'
               /\ job'[v].stage # "idle" => job'[v].kind \in Kinds
    <3>1. CASE v = w
      <4>1. job'[v].copy = d /\ job'[v].kind = job[w].kind
        BY <1>a, <3>1 DEF SuspectInv, TypeOK, Job, Persist
      <4> QED BY <1>a, <1>0, <4>1 DEF Suspended
    <3>2. CASE v # w
      BY <1>a, <1>0, <3>2 DEF SuspectInv, TypeOK, Persist, Suspended
    <3> QED BY <3>1, <3>2
  <2> QED BY <1>a, <1>t, <2>1 DEF SuspectInv
<1>b. ASSUME NEW w \in Workers, job' = [job EXCEPT ![w] = Idle],
             Suspended(row)'
      PROVE  SuspectInv'
  <2>1. ASSUME NEW v \in Workers
        PROVE  /\ Suspended(job[v].copy)'
               /\ job'[v].stage # "idle" => job'[v].kind \in Kinds
    <3>1. job'[v] = IF v = w THEN Idle ELSE job[v]
      BY <1>b DEF SuspectInv, TypeOK
    <3> QED BY <1>0, <3>1, IdleProperties DEF Suspended
  <2> QED BY <1>b, <1>t, <2>1 DEF SuspectInv
<1>1. ASSUME NEW w \in Workers, NEW k \in Kinds, Begin(w, k)
      PROVE  SuspectInv'
  <2>1. ASSUME NEW v \in Workers
        PROVE  /\ Suspended(job[v].copy)'
               /\ job'[v].stage # "idle" => job'[v].kind \in Kinds
    <3>1. CASE v = w
      <4>1. job'[v].copy = row /\ job'[v].kind = k
        BY <1>1, <3>1 DEF Begin, SuspectInv, TypeOK
      <4> QED BY <4>1 DEF SuspectInv, Suspended
    <3>2. CASE v # w
      BY <1>1, <1>0, <3>2 DEF Begin, SuspectInv, TypeOK, Suspended
    <3> QED BY <3>1, <3>2
  <2> QED BY <1>1, <1>t, <2>1 DEF Begin, SuspectInv, Suspended
<1>2. ASSUME NEW w \in Workers, Answer(w)
      PROVE  SuspectInv'
  <2>1. ASSUME NEW v \in Workers
        PROVE  /\ job'[v].copy = job[v].copy
               /\ job'[v].kind = job[v].kind
               /\ job'[v].stage # "idle" => job[v].stage # "idle"
    BY <1>2, <1>0 DEF Answer, SuspectInv, TypeOK, Job
  <2> QED BY <1>2, <1>t, <2>1 DEF Answer, SuspectInv, Suspended
<1>3. ASSUME NEW w \in Workers, RecordAuthFailure(w)
      PROVE  SuspectInv'
  <2> DEFINE d == Failed(job[w].copy)
  <2>1. Persist(w, d, FailedFields(d)) /\ job[w].stage # "idle"
    BY <1>3 DEF RecordAuthFailure
  <2>2. d \in Row /\ d.is_connected = FALSE
    BY <1>0, FailedProperties
  <2> HIDE DEF d
  <2>3. row'.is_connected = d.is_connected
    BY <2>1 DEF Persist, Saved, FailedFields
  <2>4. Suspended(d) /\ Suspended(row)'
    BY <2>2, <2>3 DEF Suspended
  <2> QED BY <1>a, <2>1, <2>2, <2>4
<1>4. ASSUME NEW w \in Workers, MarkConnected(w)
      PROVE  SuspectInv'
  <2>1. job[w].stage # "idle"
    BY <1>4 DEF MarkConnected
  <2>2. ASSUME NEW d \in Row, d.auth_failure_count = 0, NEW fields,
               "auth_failure_count" \in fields, Persist(w, d, fields)
        PROVE  SuspectInv'
    <3>1. row'.auth_failure_count = 0
      BY <2>2 DEF Persist, Saved
    <3>2. Suspended(d) /\ Suspended(row)'
      BY <2>2, <3>1 DEF Suspended
    <3> QED BY <1>a, <2>1, <2>2, <3>2
  <2> DEFINE e == Connected(job[w].copy)
  <2>3. e \in Row /\ e.auth_failure_count = 0
    BY <1>0, ResetProperties
  <2>4. /\ "auth_failure_count" \in ConnectedFields
        /\ "auth_failure_count" \in ConnectedFields \cup {"credentials"}
    BY DEF ConnectedFields
  <2>5. \/ Persist(w, e, ConnectedFields)
        \/ \E k \in Keys : Persist(w, [e EXCEPT !.credentials = k],
                                   ConnectedFields \cup {"credentials"})
    BY <1>4 DEF MarkConnected
  <2> HIDE DEF e
  <2>6. \A k \in Keys :
          /\ [e EXCEPT !.credentials = k] \in Row
          /\ [e EXCEPT !.credentials = k].auth_failure_count = 0
    BY <2>3 DEF Row
  <2>7. CASE Persist(w, e, ConnectedFields)
    BY <2>2, <2>3, <2>4, <2>7
  <2>8. ASSUME NEW k \in Keys,
               Persist(w, [e EXCEPT !.credentials = k],
                       ConnectedFields \cup {"credentials"})
        PROVE  SuspectInv'
    <3> DEFINE f == [e EXCEPT !.credentials = k]
    <3>1. f \in Row /\ f.auth_failure_count = 0
      BY <2>6
    <3>2. Persist(w, f, ConnectedFields \cup {"credentials"})
      BY <2>8
    <3> HIDE DEF f
    <3> QED BY <2>2, <2>4, <3>1, <3>2
  <2> QED BY <2>5, <2>7, <2>8
<1>5. ASSUME NEW w \in Workers, ReEnable(w)
      PROVE  SuspectInv'
  <2> DEFINE d == ReEnabled(job[w].copy)
  <2>1. Persist(w, d, ReEnabledFields) /\ job[w].stage # "idle"
    BY <1>5 DEF ReEnable
  <2>2. d \in Row /\ d.auth_failure_count = 0
    BY <1>0, ResetProperties
  <2> HIDE DEF d
  <2>3. row'.auth_failure_count = 0
    BY <2>1, <2>2 DEF Persist, Saved, ReEnabledFields
  <2>4. Suspended(d) /\ Suspended(row)'
    BY <2>2, <2>3 DEF Suspended
  <2> QED BY <1>a, <2>1, <2>2, <2>4
<1>6. ASSUME NEW w \in Workers, ServiceTest(w)
      PROVE  SuspectInv'
  BY <1>6, <1>0 DEF ServiceTest
<1>7. ASSUME NEW w \in Workers, Edit(w)
      PROVE  SuspectInv'
  <2>1. Suspended(row)'
    BY <1>7, <1>0 DEF Edit, Row, Suspended
  <2> QED BY <1>7, <1>b, <2>1 DEF Edit
<1>8. ASSUME NEW w \in Workers, Dismiss(w) \/ Emit(w) \/ Crash(w)
      PROVE  SuspectInv'
  <2>1. Suspended(row)'
    BY <1>8 DEF Dismiss, Emit, Crash, SuspectInv, Suspended
  <2> QED BY <1>8, <1>b, <2>1 DEF Dismiss, Emit, Crash
<1>9. ASSUME NEW k \in Keys, RotateCredentials(k) \/ Revoke(k)
      PROVE  SuspectInv'
  <2>1. /\ row'.auth_failure_count = row.auth_failure_count
        /\ row'.is_connected = row.is_connected
        /\ job' = job
    BY <1>9 DEF RotateCredentials, Revoke, SuspectInv, TypeOK, Row
  <2> QED BY <1>t, <2>1 DEF SuspectInv, Suspended
<1>10. CASE UNCHANGED vars
  BY <1>t, <1>10 DEF vars, SuspectInv, Suspended
<1> QED
  BY <1>1, <1>2, <1>3, <1>4, <1>5, <1>6, <1>7, <1>8, <1>9, <1>10
     DEF Next, Proceed

\* Where ConnectionService.test_connection is not used, one recorded failure
\* keeps every guarded task off the connection until it is tested again.
THEOREM SuspectsAreSuspended ==
    ASSUME "service_test" \notin Kinds
    PROVE  Spec => []SuspectNotOperational
<1>1. Init => SuspectInv
  <2> SUFFICES ASSUME Init PROVE SuspectInv
    OBVIOUS
  <2>1. row.auth_failure_count = 0 /\ \A w \in Workers : job[w] = Idle
    BY DEF Init
  <2> QED BY <2>1, InitType, IdleProperties DEF SuspectInv, Suspended
<1>2. SuspectInv => SuspectNotOperational
  BY DEF SuspectInv, Suspended, SuspectNotOperational
<1> QED BY <1>1, <1>2, StepSuspect, PTL DEF Spec

-----------------------------------------------------------------------------
(* One job at a time                                                       *)

\* The deployment of the two theorems below: no two jobs touch the connection
\* at once, as with one Celery worker or one queue per connection.
OneWorker == \A v, w \in Workers : v = w

\* The fields the breaker decides on are the same in two versions of the row.
Agrees(c, r) ==
    /\ Status(c) = Status(r)
    /\ c.auth_failure_count = r.auth_failure_count

\* With one job at a time the copy is current until it is saved, and the row
\* is what the copy says after it; an announcement owed is the job's own.
SerialInv ==
    /\ IInv
    /\ \A w \in Workers :
         LET j == job[w] IN
         /\ j.stage # "idle" => j.kind \in Kinds
         /\ j.stage # "idle" /\ ~muted => heard = j.was
         /\ j.stage \in {"loaded", "answered"}
              => Agrees(j.copy, row) /\ j.was = Status(row)
         /\ j.stage = "answered" /\ j.answer = "refused"
              => j.kind \in Calling \ {"oauth"}
         /\ j.stage = "saved" => Status(j.copy) = Status(row)
    /\ Quiet /\ ~muted => heard = Status(row)

\* Every refusal since the last success is on the row's count.
StreakInv == streak <= row.auth_failure_count

LEMMA InitSerial == Init => SerialInv /\ StreakInv
<1> SUFFICES ASSUME Init PROVE SerialInv /\ StreakInv
  OBVIOUS
<1>1. /\ row.auth_failure_count = 0
      /\ streak = 0
      /\ heard = Status(row)
      /\ \A w \in Workers : job[w] = Idle
  BY DEF Init
<1> QED BY <1>1, InitIInv, IdleProperties DEF SerialInv, StreakInv

\* A save from a current copy leaves the row as the edited copy, as far as the
\* breaker is concerned: what was not edited is saved back or left as it is.
LEMMA CurrentSave ==
    ASSUME TypeOK, NEW c \in Row, Agrees(c, row), NEW d \in Row, NEW fields,
           NEW w \in Workers, Persist(w, d, fields),
           \/ "is_enabled" \in fields
           \/ d.is_enabled = c.is_enabled,
           \/ "is_connected" \in fields
           \/ d.is_connected = c.is_connected,
           "auth_failure_count" \in fields
    PROVE  Agrees(d, row')
BY DEF Agrees, Status, Persist, Saved, TypeOK, Row

LEMMA StepSerial ==
    ASSUME OneWorker, "service_test" \notin Kinds
    PROVE  SerialInv /\ [Next]_vars => SerialInv'
<1> SUFFICES ASSUME SerialInv, [Next]_vars PROVE SerialInv'
  OBVIOUS
<1>i. IInv'
  BY StepIInv DEF SerialInv
<1>0. ASSUME NEW w \in Workers
      PROVE  /\ job[w] \in Job /\ job[w].copy \in Row
             /\ w \in DOMAIN job
             /\ \A v \in Workers : v = w
  BY DEF SerialInv, IInv, TypeOK, Job, OneWorker
<1>t. TypeOK
  BY DEF SerialInv, IInv
\* The job ends: what is left to show is the announcement.
<1>a. ASSUME NEW w \in Workers, job' = [job EXCEPT ![w] = Idle],
             ~muted' => heard' = Status(row')
      PROVE  SerialInv'
  <2>1. \A v \in Workers : job'[v].stage = "idle"
    BY <1>a, <1>0, IdleProperties
  <2> QED BY <1>a, <1>i, <2>1 DEF SerialInv
\* The job saves d.
<1>b. ASSUME NEW w \in Workers, NEW d \in Row, NEW fields,
             Persist(w, d, fields), Agrees(d, row'),
             job[w].stage # "idle"
      PROVE  SerialInv'
  <2>1. /\ job'[w].stage = "saved"
        /\ job'[w].copy = d
        /\ job'[w].kind = job[w].kind
        /\ job'[w].was = job[w].was
    BY <1>b, <1>0 DEF Persist, Job
  <2>2. Status(d) = Status(row')
    BY <1>b DEF Agrees, Status
  <2>3. ~Quiet'
    BY <2>1 DEF Quiet
  <2>4. heard' = heard /\ muted' = muted
    BY <1>b DEF Persist
  <2>5. \A v \in Workers : job'[v] = job'[w] /\ job[v] = job[w]
    BY <1>0
  <2>6. Status(job'[w].copy) = Status(row')
    BY <2>1, <2>2
  <2>7. ~muted => heard = job[w].was
    BY <1>b DEF SerialInv
  <2>8. job[w].kind \in Kinds
    BY <1>b DEF SerialInv
  <2> QED BY <1>i, <2>1, <2>3, <2>4, <2>5, <2>6, <2>7, <2>8
             DEF SerialInv, Status
<1>1. ASSUME NEW w \in Workers, NEW k \in Kinds, Begin(w, k)
      PROVE  SerialInv'
  <2>1. /\ job'[w] = [kind |-> k, stage |-> "loaded", answer |-> "none",
                      copy |-> row, was |-> Status(row)]
        /\ row' = row /\ heard' = heard /\ muted' = muted
    BY <1>1, <1>0 DEF Begin
  <2>2. Quiet
    BY <1>1, <1>0 DEF Begin, Quiet
  <2>3. Status(row') = Status(row) /\ Agrees(job'[w].copy, row')
    BY <2>1 DEF Status, Agrees
  <2>4. ~muted => heard = Status(row)
    BY <2>2 DEF SerialInv
  <2>5. ~Quiet' /\ \A v \in Workers : v = w
    BY <2>1, <1>0 DEF Quiet
  <2> QED BY <1>i, <2>1, <2>3, <2>4, <2>5 DEF SerialInv
<1>2. ASSUME NEW w \in Workers, Answer(w)
      PROVE  SerialInv'
  <2>1. /\ row' = row /\ heard' = heard /\ muted' = muted
        /\ job'[w].kind = job[w].kind
        /\ job'[w].stage = "answered"
        /\ job'[w].copy = job[w].copy
        /\ job'[w].was = job[w].was
        /\ job[w].kind \in Calling
        /\ job'[w].answer = "refused" => job[w].kind # "oauth"
        /\ job[w].stage = "loaded"
    BY <1>2, <1>0 DEF Answer, Job
  <2>2. /\ job[w].kind \in Kinds
        /\ ~muted => heard = job[w].was
        /\ Agrees(job[w].copy, row)
        /\ job[w].was = Status(row)
    BY <2>1 DEF SerialInv
  <2>3. Agrees(job'[w].copy, row') /\ job'[w].was = Status(row')
    BY <2>1, <2>2 DEF Agrees, Status
  <2>4. ~Quiet' /\ \A v \in Workers : v = w
    BY <2>1, <1>0 DEF Quiet
  <2> QED BY <1>i, <2>1, <2>2, <2>3, <2>4 DEF SerialInv
<1>3. ASSUME NEW w \in Workers, RecordAuthFailure(w)
      PROVE  SerialInv'
  <2> DEFINE c == job[w].copy
             d == Failed(c)
  <2>1. Persist(w, d, FailedFields(d)) /\ job[w].stage = "answered"
    BY <1>3 DEF RecordAuthFailure
  <2>2. /\ c \in Row /\ Up(c.auth_failure_count) \in 0..MaxCount
        /\ Agrees(c, row)
    BY <1>0, <2>1, UpProperties DEF SerialInv, Row
  <2>3. /\ d \in Row
        /\ d.auth_failure_count = Up(c.auth_failure_count)
        /\ Up(c.auth_failure_count) < Threshold => d.is_enabled = c.is_enabled
    BY <2>2, FailedProperties
  <2> HIDE DEF d
  <2>4. /\ "auth_failure_count" \in FailedFields(d)
        /\ "is_connected" \in FailedFields(d)
        /\ d.auth_failure_count >= Threshold
             => "is_enabled" \in FailedFields(d)
    BY DEF FailedFields
  <2>5. \/ "is_enabled" \in FailedFields(d)
        \/ d.is_enabled = c.is_enabled
    BY <2>2, <2>3, <2>4, ThresholdAssumption
  <2>6. Agrees(d, row')
    BY <1>t, <2>1, <2>2, <2>3, <2>4, <2>5, CurrentSave
  <2> QED BY <1>b, <2>1, <2>3, <2>6
<1>4. ASSUME NEW w \in Workers, MarkConnected(w)
      PROVE  SerialInv'
  <2> DEFINE c == job[w].copy
             e == Connected(c)
  <2>1. /\ job[w].stage = "answered"
        /\ \/ Persist(w, e, ConnectedFields)
           \/ \E k \in Keys : Persist(w, [e EXCEPT !.credentials = k],
                                      ConnectedFields \cup {"credentials"})
    BY <1>4 DEF MarkConnected
  <2>2. c \in Row /\ Agrees(c, row)
    BY <1>0, <2>1 DEF SerialInv
  <2>3. e \in Row /\ e.is_enabled = c.is_enabled
    BY <2>2, ResetProperties
  <2> HIDE DEF e
  <2>4. ASSUME NEW d \in Row, d.is_enabled = c.is_enabled, NEW fields,
               ConnectedFields \subseteq fields, Persist(w, d, fields)
        PROVE  SerialInv'
    <3>1. "is_connected" \in fields /\ "auth_failure_count" \in fields
      BY <2>4 DEF ConnectedFields
    <3>2. Agrees(d, row')
      BY <1>t, <2>2, <2>4, <3>1, CurrentSave
    <3> QED BY <1>b, <2>1, <2>4, <3>2
  <2>5. ASSUME NEW k \in Keys,
               Persist(w, [e EXCEPT !.credentials = k],
                       ConnectedFields \cup {"credentials"})
        PROVE  SerialInv'
    <3> DEFINE d == [e EXCEPT !.credentials = k]
    <3>1. d \in Row /\ d.is_enabled = c.is_enabled
      BY <2>3 DEF Row
    <3>2. Persist(w, d, ConnectedFields \cup {"credentials"})
      BY <2>5
    <3> HIDE DEF d
    <3> QED BY <2>4, <3>1, <3>2
  <2> QED BY <2>1, <2>3, <2>4, <2>5
<1>5. ASSUME NEW w \in Workers, ReEnable(w)
      PROVE  SerialInv'
  <2> DEFINE c == job[w].copy
             d == ReEnabled(c)
  <2>1. Persist(w, d, ReEnabledFields) /\ job[w].stage = "loaded"
    BY <1>5 DEF ReEnable
  <2>2. c \in Row /\ Agrees(c, row)
    BY <1>0, <2>1 DEF SerialInv
  <2>3. d \in Row /\ d.is_connected = c.is_connected
    BY <2>2, ResetProperties
  <2> HIDE DEF d
  <2>4. /\ "is_enabled" \in ReEnabledFields
        /\ "auth_failure_count" \in ReEnabledFields
    BY DEF ReEnabledFields
  <2>5. Agrees(d, row')
    BY <1>t, <2>1, <2>2, <2>3, <2>4, CurrentSave
  <2> QED BY <1>b, <2>1, <2>3, <2>5
<1>6. ASSUME NEW w \in Workers, ServiceTest(w)
      PROVE  SerialInv'
  BY <1>6 DEF ServiceTest, SerialInv
<1>7. ASSUME NEW w \in Workers, Edit(w)
      PROVE  SerialInv'
  <2>1. /\ job[w].stage = "loaded"
        /\ heard' = heard /\ muted' = muted
        /\ job' = [job EXCEPT ![w] = Idle]
    BY <1>7 DEF Edit
  <2>2. PICK k \in Keys : row' = [job[w].copy EXCEPT !.credentials = k]
    BY <1>7 DEF Edit
  <2>3. Status(row') = Status(job[w].copy)
    BY <1>0, <2>2 DEF Status, Row
  <2>4. Status(job[w].copy) = Status(row) /\ (~muted => heard = Status(row))
    BY <2>1 DEF SerialInv, Agrees
  <2> QED BY <1>a, <2>1, <2>3, <2>4
<1>8. ASSUME NEW w \in Workers, Dismiss(w)
      PROVE  SerialInv'
  <2>1. /\ job[w].stage = "answered"
        /\ row' = row /\ heard' = heard /\ muted' = muted
        /\ job' = [job EXCEPT ![w] = Idle]
    BY <1>8 DEF Dismiss
  <2>2. ~muted => heard = Status(row)
    BY <2>1 DEF SerialInv
  <2> QED BY <1>a, <2>1, <2>2
<1>9. ASSUME NEW w \in Workers, Emit(w)
      PROVE  SerialInv'
  <2>1. /\ job[w].stage = "saved"
        /\ heard' = IF Status(job[w].copy) # job[w].was
                    THEN Status(job[w].copy) ELSE heard
        /\ row' = row /\ muted' = muted
        /\ job' = [job EXCEPT ![w] = Idle]
    BY <1>9 DEF Emit
  <2>2. /\ Status(job[w].copy) = Status(row)
        /\ ~muted => heard = job[w].was
        /\ Status(row') = Status(row)
    BY <2>1 DEF SerialInv, Status
  <2> QED BY <1>a, <2>1, <2>2
<1>10. ASSUME NEW w \in Workers, Crash(w)
       PROVE  SerialInv'
  <2>1. /\ job[w].stage # "idle"
        /\ muted' = (muted \/ job[w].stage = "saved")
        /\ row' = row /\ heard' = heard
        /\ job' = [job EXCEPT ![w] = Idle]
    BY <1>10 DEF Crash
  <2>2. ~muted' => job[w].stage \in {"loaded", "answered"} /\ ~muted
    BY <1>0, <2>1 DEF Job, Stages
  <2>3. ~muted' => heard' = Status(row')
    BY <2>1, <2>2 DEF SerialInv, Status
  <2> QED BY <1>a, <2>1, <2>3
<1>11. ASSUME NEW k \in Keys, RotateCredentials(k) \/ Revoke(k)
       PROVE  SerialInv'
  <2>1. /\ row'.auth_failure_count = row.auth_failure_count
        /\ row'.is_connected = row.is_connected
        /\ row'.is_enabled = row.is_enabled
        /\ job' = job /\ heard' = heard /\ muted' = muted
    BY <1>11, <1>t DEF RotateCredentials, Revoke, TypeOK, Row
  <2> QED BY <1>i, <2>1 DEF SerialInv, Agrees, Status, Quiet
<1>12. CASE UNCHANGED vars
  BY <1>12, <1>i DEF vars, SerialInv, Agrees, Status, Quiet
<1> QED
  BY <1>1, <1>2, <1>3, <1>4, <1>5, <1>6, <1>7, <1>8, <1>9, <1>10, <1>11,
     <1>12 DEF Next, Proceed

\* Threshold refusals in a row leave the connection disabled, where jobs run
\* one at a time and every job that runs records what it is refused.
THEOREM RefusalsInARowDisable ==
    ASSUME OneWorker, Kinds \cap {"service_test", "sync"} = {}
    PROVE  Spec => []ConsecutiveFailuresDisable
<1> USE ThresholdAssumption
<1>1. SerialInv /\ StreakInv /\ [Next]_vars => StreakInv'
  <2> SUFFICES ASSUME SerialInv, StreakInv, [Next]_vars PROVE StreakInv'
    OBVIOUS
  <2>0. ASSUME NEW w \in Workers
        PROVE  /\ job[w] \in Job /\ job[w].copy \in Row
               /\ job[w].stage # "idle" => job[w].kind \in Kinds
               /\ job[w].stage \in {"loaded", "answered"}
                    => job[w].copy.auth_failure_count = row.auth_failure_count
               /\ job[w].stage = "answered" /\ job[w].answer = "refused"
                    => job[w].kind \in Calling \ {"oauth"}
    BY DEF SerialInv, IInv, TypeOK, Job, Agrees
  <2>n. /\ row \in Row
        /\ row.auth_failure_count \in 0..MaxCount
        /\ streak \in 0..MaxCount
    BY DEF SerialInv, IInv, TypeOK, Row
  <2>1. ASSUME NEW w \in Workers, RecordAuthFailure(w)
        PROVE  StreakInv'
    <3> DEFINE c == job[w].copy
               d == Failed(c)
    <3>1. /\ Persist(w, d, FailedFields(d))
          /\ job[w].stage = "answered"
          /\ streak' = CASE job[w].answer = "ok" -> 0
                         [] job[w].answer = "refused" -> Up(streak)
                         [] OTHER -> streak
      BY <2>1 DEF RecordAuthFailure, Tally
    <3>2. c \in Row /\ c.auth_failure_count = row.auth_failure_count
      BY <2>0, <3>1
    <3>3. d.auth_failure_count = Up(row.auth_failure_count)
      BY <3>2, FailedProperties
    <3> HIDE DEF d
    <3>4. row'.auth_failure_count = d.auth_failure_count
      BY <3>1 DEF Persist, Saved, FailedFields
    <3>5. /\ Up(streak) <= Up(row.auth_failure_count)
          /\ row.auth_failure_count <= Up(row.auth_failure_count)
          /\ Up(row.auth_failure_count) \in 0..MaxCount
      BY <2>n, UpProperties DEF StreakInv
    <3>6. streak' \in {0, Up(streak), streak}
      BY <3>1
    <3> QED BY <2>n, <3>3, <3>4, <3>5, <3>6 DEF StreakInv
  <2>2. ASSUME NEW w \in Workers, MarkConnected(w)
        PROVE  StreakInv'
    <3>1. job[w].answer = "ok" /\ Tally(w)
      BY <2>2 DEF MarkConnected, MarksConnected
    <3>2. streak' = 0
      BY <3>1 DEF Tally
    <3>3. row' \in Row
      BY StepType DEF SerialInv, IInv, TypeOK
    <3> QED BY <3>2, <3>3 DEF StreakInv, Row
  <2>3. ASSUME NEW w \in Workers, ReEnable(w)
        PROVE  StreakInv'
    <3>1. streak' = 0
      BY <2>3 DEF ReEnable
    <3>2. row' \in Row
      BY StepType DEF SerialInv, IInv, TypeOK
    <3> QED BY <3>1, <3>2 DEF StreakInv, Row
  <2>4. ASSUME NEW w \in Workers, ServiceTest(w)
        PROVE  StreakInv'
    BY <2>4, <2>0 DEF ServiceTest
  <2>5. ASSUME NEW w \in Workers, Edit(w)
        PROVE  StreakInv'
    <3>1. row'.auth_failure_count = row.auth_failure_count
      BY <2>5, <2>0 DEF Edit, Row
    <3> QED BY <2>5, <3>1 DEF Edit, StreakInv
  <2>6. ASSUME NEW w \in Workers, Dismiss(w)
        PROVE  StreakInv'
    <3>1. job[w].answer # "refused"
      BY <2>6, <2>0
         DEF Dismiss, RecordsFailure, Recording, Calling, AllKinds
    <3>2. streak' \in {0, streak} /\ row' = row
      BY <2>6, <3>1 DEF Dismiss, Tally
    <3> QED BY <2>n, <3>2 DEF StreakInv
  <2>7. ASSUME NEW w \in Workers,
               \/ \E k \in Kinds : Begin(w, k)
               \/ Answer(w) \/ Emit(w) \/ Crash(w)
        PROVE  StreakInv'
    BY <2>7 DEF Begin, Answer, Emit, Crash, StreakInv
  <2>8. ASSUME NEW k \in Keys, RotateCredentials(k) \/ Revoke(k)
        PROVE  StreakInv'
    BY <2>8, <2>n DEF RotateCredentials, Revoke, Row, StreakInv
  <2>9. CASE UNCHANGED vars
    BY <2>9 DEF vars, StreakInv
  <2> QED
    BY <2>1, <2>2, <2>3, <2>4, <2>5, <2>6, <2>7, <2>8, <2>9
       DEF Next, Proceed
<1>2. "service_test" \notin Kinds
  OBVIOUS
<1>3. SerialInv /\ [Next]_vars => SerialInv'
  BY <1>2, StepSerial
<1>4. SerialInv /\ StreakInv => ConsecutiveFailuresDisable
  BY DEF SerialInv, IInv, TypeOK, Row, Consistent, StreakInv,
         ConsecutiveFailuresDisable
<1> QED BY <1>1, <1>3, <1>4, InitSerial, PTL DEF Spec

\* Whoever listens to connection_status_changed knows the row's status whenever
\* no job is under way, unless a worker died before its signal.
THEOREM StatusIsAnnounced ==
    ASSUME OneWorker, "service_test" \notin Kinds
    PROVE  Spec => []StatusAnnounced
<1>1. SerialInv => StatusAnnounced
  BY DEF SerialInv, StatusAnnounced
<1>2. SerialInv /\ [Next]_vars => SerialInv'
  BY StepSerial
<1> QED BY <1>1, <1>2, InitSerial, PTL DEF Spec

=============================================================================
