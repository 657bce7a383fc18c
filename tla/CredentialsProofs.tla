------------------------ MODULE CredentialsProofs ------------------------
(***************************************************************************)
(* Proofs about Credentials, for every provider, any number of workers and *)
(* requests per call.  Whatever is lost, refused, answered with an error   *)
(* or issued meanwhile, a file is handed to SAGA Web at most once, the     *)
(* code itself never loses the key that the provider takes, and a job that *)
(* nothing disturbed is not refused.                                       *)
(***************************************************************************)
EXTENDS Credentials, TLAPS

-----------------------------------------------------------------------------
(* The record of a job.  Which credentials it holds is of no concern here. *)

JobFields == DOMAIN Idle

LEMMA FieldNames ==
    JobFields = {"kind", "stage", "copy", "key", "status", "answer", "tries",
                 "taken", "alone"}
BY DEF JobFields, Idle

LEMMA IdleIs ==
    DOMAIN Idle = JobFields /\ Idle.kind = "read" /\ Idle.stage = "none"
BY DEF JobFields, Idle

\* A file waits to be sent as long as it was not taken, and is not sent again.
Untouched(j) == j.kind = "import" /\ j.stage = "ready" => j.taken = 0
OnceAtMost(j) == j.kind = "import" => j.taken \in {0, 1}

Sound(j) == DOMAIN j = JobFields /\ Untouched(j) /\ OnceAtMost(j)

IInv == DOMAIN job = Workers /\ \A w \in Workers : Sound(job[w])

LEMMA IdleSound == Sound(Idle)
BY IdleIs DEF Sound, Untouched, OnceAtMost

\* A step that replaces the record of one job.
LEMMA OneRecord ==
    ASSUME IInv, NEW w \in Workers, NEW r, Sound(r),
           job' = [job EXCEPT ![w] = r]
    PROVE  IInv'
BY DEF IInv

LEMMA FinishedKeeps ==
    ASSUME IInv, NEW w \in Workers, Finished(w)
    PROVE  IInv'
BY IdleSound, OneRecord DEF Finished

\* An answer was taken by the provider or refused: the file is not sent again
\* before the job is begun anew.
LEMMA AnsweredKeeps ==
    ASSUME IInv, NEW w \in Workers, job[w].stage = "ready",
           NEW status, NEW answer, Answered(w, status, answer)
    PROVE  IInv'
<1>1. /\ DOMAIN job' = Workers
      /\ DOMAIN job'[w] = JobFields
      /\ job'[w].kind = job[w].kind
      /\ job'[w].stage = "answered"
      /\ job'[w].taken = IF status = "refused" THEN job[w].taken
                                               ELSE job[w].taken + 1
      /\ \A v \in Workers : v # w => job'[v] = job[v]
  BY FieldNames DEF IInv, Sound, Answered
<1>2. Sound(job'[w])
  BY <1>1 DEF IInv, Sound, Untouched, OnceAtMost
<1> QED
  BY <1>1, <1>2 DEF IInv

\* A request is sent again only where the retry policy allows it.
LEMMA AgainKeeps ==
    ASSUME IInv, NEW w \in Workers, job[w].kind # "import", NEW r,
           DOMAIN r = JobFields, r.kind = job[w].kind,
           job' = [job EXCEPT ![w] = r]
    PROVE  IInv'
<1>1. Sound(r)
  BY DEF Sound, Untouched, OnceAtMost
<1> QED
  BY <1>1, OneRecord

LEMMA AgainIs ==
    ASSUME NEW j, DOMAIN j = JobFields
    PROVE  DOMAIN Again(j) = JobFields /\ Again(j).kind = j.kind
BY FieldNames DEF Again

-----------------------------------------------------------------------------
(* The steps                                                               *)

LEMMA BeginKeeps ==
    ASSUME IInv, NEW w \in Workers, NEW k \in Kinds, Begin(w, k)
    PROVE  IInv'
<1> DEFINE busy == \E v \in Workers : Active(v)
           started == [Idle EXCEPT !.kind = k, !.stage = "ready", !.copy = row,
                         !.key = CASE k = "refresh"   -> Current(row)
                                   [] k = "authorize" -> 0
                                   [] OTHER           -> row.access,
                         !.alone = ~busy]
<1>1. job' = [v \in Workers |->
                IF v = w THEN started
                ELSE IF Active(v) THEN [job[v] EXCEPT !.alone = FALSE]
                ELSE job[v]]
  BY DEF Begin
<1>2. Sound(started)
  <2>1. DOMAIN started = JobFields /\ started.taken = 0
    BY FieldNames DEF Idle
  <2> HIDE DEF started
  <2> QED
    BY <2>1 DEF Sound, Untouched, OnceAtMost
<1>3. ASSUME NEW v \in Workers PROVE Sound([job[v] EXCEPT !.alone = FALSE])
  BY FieldNames DEF IInv, Sound, Untouched, OnceAtMost
<1> HIDE DEF started
<1> QED
  BY <1>1, <1>2, <1>3 DEF IInv

LEMMA ExchangeKeeps ==
    ASSUME IInv, NEW w \in Workers, Exchange(w)
    PROVE  IInv'
<1>1. job[w].stage = "ready"
  BY DEF Exchange
<1>2. PICK status, answer : Answered(w, status, answer)
  BY DEF Exchange, SagaAnswers, RefreshAnswers, ExchangeAnswers, Refuses
<1> QED
  BY <1>1, <1>2, AnsweredKeeps

LEMMA NoReplyKeeps ==
    ASSUME IInv, NEW w \in Workers, NoReply(w)
    PROVE  IInv'
<1> DEFINE tries == job[w].tries + (IF job[w].stage = "ready" THEN 1 ELSE 0)
<1>1. CASE MayRetry(job[w].kind, tries)
  <2> DEFINE a == Again(job[w])
             r == [a EXCEPT !.tries = tries]
  <2>1. job' = [job EXCEPT ![w] = r]
    BY <1>1 DEF NoReply
  <2>2. DOMAIN a = JobFields /\ a.kind = job[w].kind
    BY AgainIs DEF IInv, Sound
  <2> HIDE DEF a
  <2>3. DOMAIN r = JobFields /\ r.kind = job[w].kind
    BY <2>2, FieldNames
  <2>4. job[w].kind # "import"
    BY <1>1 DEF MayRetry
  <2> HIDE DEF r
  <2> QED
    BY <2>1, <2>3, <2>4, AgainKeeps
<1>2. CASE ~MayRetry(job[w].kind, tries)
  BY <1>2, FinishedKeeps DEF NoReply
<1> QED
  BY <1>1, <1>2

LEMMA JunkKeeps ==
    ASSUME IInv, NEW w \in Workers, Junk(w)
    PROVE  IInv'
<1>1. /\ DOMAIN job' = Workers
      /\ DOMAIN job'[w] = JobFields
      /\ job'[w].kind = job[w].kind
      /\ \A v \in Workers : v # w => job'[v] = job[v]
  BY FieldNames DEF IInv, Sound, Junk
<1>2. job[w].kind # "import"
  BY DEF Junk
<1>3. Sound(job'[w])
  BY <1>1, <1>2 DEF Sound, Untouched, OnceAtMost
<1> QED
  BY <1>1, <1>3 DEF IInv

LEMMA CaptureKeeps ==
    ASSUME IInv, NEW w \in Workers, Capture(w) \/ CaptureNothing(w)
    PROVE  IInv'
<1>1. /\ DOMAIN job' = Workers
      /\ DOMAIN job'[w] = JobFields
      /\ job'[w].kind = job[w].kind
      /\ job'[w].stage = "captured"
      /\ job'[w].taken = job[w].taken
      /\ \A v \in Workers : v # w => job'[v] = job[v]
  <2>1. CASE Capture(w)
    BY <2>1, FieldNames DEF IInv, Sound, Capture
  <2>2. CASE CaptureNothing(w)
    BY <2>2, FieldNames DEF IInv, Sound, CaptureNothing
  <2> QED
    BY <2>1, <2>2
<1>2. Sound(job'[w])
  BY <1>1 DEF IInv, Sound, Untouched, OnceAtMost
<1> QED
  BY <1>1, <1>2 DEF IInv

LEMMA ConcludeKeeps ==
    ASSUME IInv, NEW w \in Workers, Conclude(w)
    PROVE  IInv'
<1>1. CASE job[w].status = "error" /\ MayRetry(job[w].kind, job[w].tries)
  <2> DEFINE r == Again(job[w])
  <2>1. job' = [job EXCEPT ![w] = r]
    BY <1>1 DEF Conclude
  <2>2. DOMAIN r = JobFields /\ r.kind = job[w].kind
    BY AgainIs DEF IInv, Sound
  <2>3. job[w].kind # "import"
    BY <1>1 DEF MayRetry
  <2> HIDE DEF r
  <2> QED
    BY <2>1, <2>2, <2>3, AgainKeeps
<1>2. CASE ~(job[w].status = "error" /\ MayRetry(job[w].kind, job[w].tries))
  BY <1>2, FinishedKeeps DEF Conclude
<1> QED
  BY <1>1, <1>2

LEMMA StepKeeps == IInv /\ [Next]_vars => IInv'
<1> SUFFICES ASSUME IInv, [Next]_vars PROVE IInv'
  OBVIOUS
<1>1. CASE Expire \/ RotateCredentials \/ UNCHANGED vars
  <2>1. job' = job
    BY <1>1 DEF Expire, RotateCredentials, vars
  <2> QED
    BY <2>1 DEF IInv
<1>2. ASSUME NEW w \in Workers, NEW k \in Kinds, Begin(w, k) PROVE IInv'
  BY <1>2, BeginKeeps
<1>3. ASSUME NEW w \in Workers, Exchange(w) PROVE IInv'
  BY <1>3, ExchangeKeeps
<1>4. ASSUME NEW w \in Workers, Capture(w) \/ CaptureNothing(w) PROVE IInv'
  BY <1>4, CaptureKeeps
<1>5. ASSUME NEW w \in Workers, Apply(w) \/ Raise(w) \/ SaveFails(w) \/ Die(w)
      PROVE  IInv'
  <2>1. Finished(w)
    BY <1>5 DEF Apply, Raise, SaveFails, Die
  <2> QED
    BY <2>1, FinishedKeeps
<1>6. ASSUME NEW w \in Workers, Conclude(w) PROVE IInv'
  BY <1>6, ConcludeKeeps
<1>7. ASSUME NEW w \in Workers, NoReply(w) PROVE IInv'
  BY <1>7, NoReplyKeeps
<1>8. ASSUME NEW w \in Workers, Junk(w) PROVE IInv'
  BY <1>8, JunkKeeps
<1> QED
  BY <1>1, <1>2, <1>3, <1>4, <1>5, <1>6, <1>7, <1>8 DEF Next, Work

-----------------------------------------------------------------------------
(* The theorem                                                             *)

\* The file of one import_file call is handed to SAGA Web at most once, however
\* many requests a call may take, and whoever else uses and replaces the key.
THEOREM ImportedOnce == Spec => []ImportOnce
<1>1. Init => IInv
  BY IdleSound DEF Init, IInv
<1>2. IInv => ImportOnce
  BY DEF IInv, Sound, OnceAtMost, ImportOnce
<1> QED
  BY <1>1, <1>2, StepKeeps, PTL DEF Spec

-----------------------------------------------------------------------------
(* Where the key is                                                        *)

\* The kinds of job that a connection of this provider has.
Suits(k) ==
    /\ k \in {"read", "import"} <=> provider = "saga_web"
    /\ k = "refresh" => provider \notin Permanent

Typed ==
    /\ provider \in Setups
    /\ row \in [Fields -> Nat]
    /\ issued \in Nat
    /\ accepted \subseteq 1..issued
    /\ \A w \in Workers :
         /\ job[w].kind \in Kinds
         /\ Active(w) => Suits(job[w].kind)
         /\ job[w].stage \in Stages
         /\ job[w].copy \in [Fields -> Nat]
         /\ job[w].answer \in [Fields -> Nat]
         /\ job[w].key \in Nat

\* Whom the provider gives a refresh token, and where a key replaces the one
\* before it.
Long == provider \in Steady \cup Rotating
Switching == provider \in Rotating \cup {"saga_web"}

\* The credentials have the key where this provider's adapter keeps it, and it
\* was issued.
Held(c) == (IF Long THEN c.refresh # 0 ELSE c.refresh = 0) /\ Current(c) <= issued

\* What the job is about to store.
Outcome(w) == Merged(job[w].copy, Patch(w))

\* The job has been given credentials that it has not stored yet.
Pending(w) == job[w].stage = "answered" /\ job[w].answer # NoAnswer

\* A job and what it holds.
Fine(w) ==
    /\ Held(job[w].copy)
    /\ job[w].kind # "authorize" => job[w].key = Current(job[w].copy)
    /\ job[w].status = "refused" => job[w].answer = NoAnswer
    /\ Pending(w) => Held(Outcome(w)) /\ Current(Outcome(w)) \in accepted

\* A key that replaces others is with the one job that was given it.
Unknown(w) ==
    /\ Current(Outcome(w)) # Current(row)
    /\ \A v \in Workers :
         Active(v) => /\ Current(Outcome(w)) # Current(job[v].copy)
                      /\ Pending(v) /\ v # w =>
                            Current(Outcome(w)) # Current(Outcome(v))

\* Keys that are not replaced stay good wherever they are.
Lasting ==
    /\ Current(row) \in accepted
    /\ \A w \in Workers : Active(w) => Current(job[w].copy) \in accepted

\* A job beside which no other ran has the key of the row, and was not refused.
Undisturbed(w) ==
    /\ \A v \in Workers : Active(v) => v = w
    /\ job[w].kind # "authorize" =>
         /\ Current(job[w].copy) = Current(row)
         /\ job[w].status # "refused"

Good ==
    /\ provider # "tiktok"
    /\ provider = "saga_web" => accepted = {issued}
    /\ Held(row)
    /\ Current(row) \in accepted \/ \E w \in Workers : Pending(w)
    /\ \A w \in Workers : Active(w) => Fine(w)
    /\ Switching => \A w \in Workers : Pending(w) => Unknown(w)
    /\ ~Switching => Lasting
    /\ \A w \in Workers : Active(w) /\ job[w].alone => Undisturbed(w)

KeyInv == spoiled \/ Good
-----------------------------------------------------------------------------
(* What each provider's adapter makes of an answer                         *)

\* A patch replaces the fields that it has.
LEMMA BothIs ==
    ASSUME NEW c \in [Fields -> Nat], NEW a \in [Fields -> Nat]
    PROVE  /\ Merged(c, Both(a)) \in [Fields -> Nat]
           /\ Merged(c, Both(a)).access = a.access
           /\ Merged(c, Both(a)).refresh = a.refresh
BY DEF Merged, Both, Fields

LEMMA AccessOnlyIs ==
    ASSUME NEW c \in [Fields -> Nat], NEW a \in [Fields -> Nat]
    PROVE  /\ Merged(c, AccessOnly(a)) \in [Fields -> Nat]
           /\ Merged(c, AccessOnly(a)).access = a.access
           /\ Merged(c, AccessOnly(a)).refresh = c.refresh
BY DEF Merged, AccessOnly, Fields

LEMMA KeepSentIs ==
    ASSUME NEW c \in [Fields -> Nat], NEW a \in [Fields -> Nat], NEW s \in Nat
    PROVE  /\ Merged(c, KeepSent(a, s)) \in [Fields -> Nat]
           /\ Merged(c, KeepSent(a, s)).access = a.access
           /\ Merged(c, KeepSent(a, s)).refresh = s
BY DEF Merged, KeepSent, Fields

LEMMA ExchangeIs ==
    ASSUME NEW p \in OAuthProviders, NEW a
    PROVE  ExchangePatch(p, a) =
             IF p \in (Steady \cup Rotating) \ Forgetting THEN Both(a)
             ELSE AccessOnly(a)
BY DEF OAuthProviders, Steady, Rotating, Exchanging, Permanent, Forgetting,
       ExchangePatch, YouTubeExchange, GoogleDriveExchange, GoogleAdsExchange,
       MicrosoftAdsExchange, DropboxExchange, OneDriveExchange,
       FacebookExchange, FacebookAdsExchange, InstagramExchange,
       ThreadsExchange, MetaExchange, TikTokExchange, LinkedInExchange,
       LinkedInAdsExchange, PinterestExchange, PinterestAdsExchange,
       TikTokAdsExchange, ShopifyExchange, WooCommerceExchange

LEMMA RefreshIs ==
    ASSUME NEW p \in OAuthProviders \ Permanent, NEW a, NEW s
    PROVE  RefreshPatch(p, a, s) =
             IF p \in Exchanging \cup Forgetting THEN AccessOnly(a)
             ELSE IF p = "onedrive" /\ a.refresh # 0
                  THEN KeepSent(a, a.refresh)
             ELSE KeepSent(a, s)
BY DEF OAuthProviders, Steady, Rotating, Exchanging, Permanent, Forgetting,
       RefreshPatch, YouTubeRefresh, GoogleDriveRefresh, GoogleAdsRefresh,
       MicrosoftAdsRefresh, DropboxRefresh, OneDriveRefresh, FacebookRefresh,
       FacebookAdsRefresh, InstagramRefresh, ThreadsRefresh, MetaRefresh,
       TikTokRefresh, LinkedInRefresh, LinkedInAdsRefresh, PinterestRefresh,
       PinterestAdsRefresh

\* A provider gives keys in one way only.
LEMMA Ways ==
    ASSUME NEW p \in Providers
    PROVE  /\ p \in OAuthProviders <=> p # "saga_web"
           /\ p \in Rotating <=> p = "onedrive" \/ p = "tiktok"
           /\ p = "onedrive" => p \notin Forgetting
           /\ p \in Steady \cup Rotating => p \notin Exchanging \cup Permanent
           /\ p \in Exchanging => p \notin Permanent \cup Rotating
           /\ p \in OAuthProviders /\ p \notin Steady \cup Rotating =>
                p \in Exchanging \cup Permanent /\ p \notin Forgetting
           /\ p \in Forgetting => p \in Steady \/ p = "tiktok"
           /\ p = "saga_web" =>
                p \notin Steady \cup Rotating \cup Exchanging \cup Permanent
BY DEF Providers, OAuthProviders, Steady, Rotating, Exchanging, Permanent,
       Forgetting
-----------------------------------------------------------------------------
(* The kinds of step                                                       *)

LEMMA NoAnswerIs ==
    /\ NoAnswer \in [Fields -> Nat]
    /\ NoAnswer.access = 0 /\ NoAnswer.refresh = 0
BY DEF NoAnswer, Idle, Fields

LEMMA IdleJob ==
    /\ Idle.stage = "none" /\ Idle.kind = "read" /\ Idle.key = 0
    /\ Idle.copy = NoAnswer /\ Idle.answer = NoAnswer
BY DEF NoAnswer, Idle

LEMMA Fielded == \A c \in [Fields -> Nat] : c.access \in Nat /\ c.refresh \in Nat
BY DEF Fields

LEMMA CurrentIs ==
    ASSUME NEW c \in [Fields -> Nat]
    PROVE  Current(c) \in Nat
BY Fielded DEF Current

LEMMA ProviderIs == Typed => provider \in Providers
BY SetupsAssumption DEF Typed

LEMMA AcceptedIs ==
    ASSUME Typed, NEW k \in accepted
    PROVE  k \in Nat /\ k # 0 /\ k <= issued
<1>1. k \in 1..issued /\ issued \in Nat
  BY DEF Typed
<1> QED
  BY <1>1

\* What is stored of an answer: its access token, and beside it its refresh
\* token or the one there was.
StoredBy(p, kind, c, a, s) ==
    Merged(c, CASE kind = "refresh"   -> RefreshPatch(p, a, s)
                [] kind = "authorize" -> ExchangePatch(p, a)
                [] OTHER              -> SagaWebPatch(a))

LEMMA StoredByIs ==
    ASSUME NEW p \in Providers, NEW kind \in Kinds,
           NEW c \in [Fields -> Nat], NEW a \in [Fields -> Nat], NEW s \in Nat,
           (kind \in {"read", "import"}) <=> (p = "saga_web"),
           kind = "refresh" => p \notin Permanent /\ s = Current(c),
           p \in Steady \cup Rotating => c.refresh # 0,
           p # "tiktok"
    PROVE  /\ StoredBy(p, kind, c, a, s) \in [Fields -> Nat]
           /\ StoredBy(p, kind, c, a, s).access = a.access
           /\ StoredBy(p, kind, c, a, s).refresh =
                IF \/ /\ kind = "authorize"
                      /\ p \in (Steady \cup Rotating) \ Forgetting
                   \/ kind = "refresh" /\ p = "onedrive" /\ a.refresh # 0
                THEN a.refresh ELSE c.refresh
<1> DEFINE z == StoredBy(p, kind, c, a, s)
<1>1. /\ c \in [Fields -> Nat] /\ a \in [Fields -> Nat]
      /\ s \in Nat /\ a.refresh \in Nat
  BY Fielded
<1>2. CASE kind = "authorize"
  <2>1. p \in OAuthProviders
    BY <1>2, Ways
  <2>2. z = IF p \in (Steady \cup Rotating) \ Forgetting
            THEN Merged(c, Both(a)) ELSE Merged(c, AccessOnly(a))
    BY <1>2, <2>1, ExchangeIs DEF StoredBy
  <2>3. CASE p \in (Steady \cup Rotating) \ Forgetting
    BY <1>2, <2>2, <2>3, BothIs
  <2>4. CASE p \notin (Steady \cup Rotating) \ Forgetting
    BY <1>2, <2>2, <2>4, AccessOnlyIs
  <2> QED
    BY <2>3, <2>4
<1>3. CASE kind = "refresh"
  <2>1. p \in OAuthProviders \ Permanent
    BY <1>3, Ways
  <2>2. z = Merged(c, RefreshPatch(p, a, s))
    BY <1>3 DEF StoredBy
  <2>3. CASE p \in Exchanging \cup Forgetting
    <3>1. z = Merged(c, AccessOnly(a))
      BY <2>1, <2>2, <2>3, RefreshIs
    <3>2. p # "onedrive"
      BY <2>3, Ways
    <3> QED
      BY <1>3, <3>1, <3>2, AccessOnlyIs
  <2>4. CASE p \notin Exchanging \cup Forgetting
    <3>1. s = c.refresh
      BY <1>3, <2>1, <2>4, Ways DEF Current
    <3>2. CASE p = "onedrive" /\ a.refresh # 0
      <4>1. z = Merged(c, KeepSent(a, a.refresh))
        BY <2>1, <2>2, <2>4, <3>2, RefreshIs
      <4>2. LET m == Merged(c, KeepSent(a, a.refresh))
            IN  /\ m \in [Fields -> Nat]
                /\ m.access = a.access /\ m.refresh = a.refresh
        BY ONLY <1>1, KeepSentIs
      <4> QED
        BY <1>3, <3>2, <4>1, <4>2
    <3>3. CASE ~(p = "onedrive" /\ a.refresh # 0)
      <4>1. z = Merged(c, KeepSent(a, s))
        BY <2>1, <2>2, <2>4, <3>3, RefreshIs
      <4>2. LET m == Merged(c, KeepSent(a, s))
            IN  /\ m \in [Fields -> Nat]
                /\ m.access = a.access /\ m.refresh = s
        BY ONLY <1>1, KeepSentIs
      <4> QED
        BY <1>3, <3>1, <3>3, <4>1, <4>2
    <3> QED
      BY <3>2, <3>3
  <2> QED
    BY <2>3, <2>4
<1>4. CASE kind \in {"read", "import"}
  <2>1. z = Merged(c, AccessOnly(a))
    BY <1>4 DEF StoredBy, SagaWebPatch
  <2> QED
    BY <1>4, <2>1, AccessOnlyIs
<1> QED
  BY <1>2, <1>3, <1>4 DEF Kinds

\* What a job stores of an answer: the one it has, or one that it is given.
LEMMA StoredOf ==
    ASSUME Typed, NEW w \in Workers, Active(w), provider # "tiktok", Fine(w),
           NEW a \in [Fields -> Nat], NEW z,
           z = StoredBy(provider, job[w].kind, job[w].copy, a, job[w].key)
    PROVE  /\ z \in [Fields -> Nat]
           /\ z.access = a.access
           /\ z.refresh =
                IF \/ /\ job[w].kind = "authorize" /\ Long
                      /\ provider \notin Forgetting
                   \/ /\ job[w].kind = "refresh" /\ provider = "onedrive"
                      /\ a.refresh # 0
                THEN a.refresh ELSE job[w].copy.refresh
<1>1. PICK p, k, c, s : /\ p = provider /\ k = job[w].kind
                        /\ c = job[w].copy /\ s = job[w].key
  OBVIOUS
<1>2. /\ provider \in Providers /\ job[w].kind \in Kinds
      /\ job[w].copy \in [Fields -> Nat] /\ job[w].key \in Nat
      /\ job[w].kind \in {"read", "import"} <=> provider = "saga_web"
      /\ job[w].kind = "refresh" =>
           provider \notin Permanent /\ job[w].key = Current(job[w].copy)
      /\ provider \in Steady \cup Rotating => job[w].copy.refresh # 0
  BY ProviderIs DEF Typed, Suits, Fine, Held, Long
<1>3. /\ p \in Providers /\ k \in Kinds /\ c \in [Fields -> Nat]
      /\ a \in [Fields -> Nat] /\ s \in Nat
      /\ k \in {"read", "import"} <=> p = "saga_web"
      /\ k = "refresh" => p \notin Permanent /\ s = Current(c)
      /\ p \in Steady \cup Rotating => c.refresh # 0
      /\ p # "tiktok"
  BY <1>1, <1>2
<1>4. StoredBy(p, k, c, a, s) \in [Fields -> Nat]
  BY ONLY <1>3, StoredByIs
<1>5. StoredBy(p, k, c, a, s).access = a.access
  BY ONLY <1>3, StoredByIs
<1>6. StoredBy(p, k, c, a, s).refresh =
        IF \/ k = "authorize" /\ p \in (Steady \cup Rotating) \ Forgetting
           \/ k = "refresh" /\ p = "onedrive" /\ a.refresh # 0
        THEN a.refresh ELSE c.refresh
  BY ONLY <1>3, StoredByIs
<1>7. z = StoredBy(p, k, c, a, s)
  BY <1>1
<1> QED
  BY <1>1, <1>4, <1>5, <1>6, <1>7 DEF Long

LEMMA OutcomeIs ==
    ASSUME Typed, NEW w \in Workers, Active(w), provider # "tiktok", Fine(w)
    PROVE  /\ Outcome(w) \in [Fields -> Nat]
           /\ Outcome(w).access = job[w].answer.access
           /\ Outcome(w).refresh =
                IF \/ /\ job[w].kind = "authorize" /\ Long
                      /\ provider \notin Forgetting
                   \/ /\ job[w].kind = "refresh" /\ provider = "onedrive"
                      /\ job[w].answer.refresh # 0
                THEN job[w].answer.refresh ELSE job[w].copy.refresh
<1>1. Outcome(w) = StoredBy(provider, job[w].kind, job[w].copy, job[w].answer,
                            job[w].key)
  BY DEF Outcome, Patch, StoredBy
<1>2. job[w].answer \in [Fields -> Nat]
  BY DEF Typed
<1> QED
  BY <1>1, <1>2, StoredOf

\* A job that a step leaves alone.
LEMMA Same ==
    ASSUME NEW v, provider' = provider, job'[v] = job[v]
    PROVE  /\ Active(v)' <=> Active(v)
           /\ Pending(v)' <=> Pending(v)
           /\ Outcome(v)' = Outcome(v)
BY DEF Active, Pending, Outcome, Patch

\* Another provider's answer does not change what is held.
LEMMA StillHeld ==
    ASSUME provider' = provider, issued \in Nat, issued' \in Nat,
           issued <= issued', NEW c \in [Fields -> Nat], Held(c)
    PROVE  (IF Long' THEN c.refresh # 0 ELSE c.refresh = 0)
             /\ Current(c) <= issued'
<1>1. Long' = Long
  BY DEF Long
<1>2. Current(c) \in Nat
  BY CurrentIs
<1> QED
  BY <1>1, <1>2 DEF Held

LEMMA StillFine ==
    ASSUME Typed, provider' = provider, issued' \in Nat, issued <= issued',
           NEW v \in Workers, job'[v] = job[v], Active(v), Fine(v), provider # "tiktok",
           Pending(v) => Current(Outcome(v)) \in accepted'
    PROVE  Fine(v)'
<1>1. Long' = Long /\ issued \in Nat
  BY DEF Long, Typed
<1>2. Outcome(v)' = Outcome(v) /\ (Pending(v)' <=> Pending(v))
  BY Same
<1>3. /\ job[v].copy \in [Fields -> Nat]
      /\ Outcome(v) \in [Fields -> Nat]
  BY OutcomeIs DEF Typed
<1>4. Held(job[v].copy)'
  BY <1>1, <1>3, StillHeld DEF Held, Fine
<1>5. Pending(v) => Held(Outcome(v))'
  BY <1>1, <1>2, <1>3, StillHeld DEF Held, Fine
<1> QED
  BY <1>2, <1>4, <1>5 DEF Fine
\* The records of the others, and what stays of the record of the one at work.
Others(w) == \A v \in Workers : v # w => job'[v] = job[v]

SameJob(w) ==
    /\ job'[w].kind = job[w].kind /\ job'[w].copy = job[w].copy
    /\ job'[w].key = job[w].key /\ job'[w].alone = job[w].alone

LEMMA TypedKept ==
    ASSUME Typed, NEW w \in Workers, Others(w), provider' = provider,
           row' \in [Fields -> Nat], issued' \in Nat,
           accepted' \subseteq 1..issued',
           job'[w].kind \in Kinds, Active(w)' => Suits(job'[w].kind),
           job'[w].stage \in Stages,
           job'[w].copy \in [Fields -> Nat],
           job'[w].answer \in [Fields -> Nat], job'[w].key \in Nat
    PROVE  Typed'
BY DEF Typed, Others, Suits, Active

\* A step after which one job has nothing pending, and of which the row need
\* not be told: it ends, goes on, is refused, or sends its request again.
LEMMA Quieter ==
    ASSUME Typed, Good, NEW w \in Workers, Others(w), Active(w),
           UNCHANGED <<provider, row, accepted, issued>>,
           Pending(w) => Current(row) \in accepted,
           \/ ~Active(w)'
           \/ /\ SameJob(w)
              /\ job'[w].status = "refused" => job'[w].answer = NoAnswer
              /\ job[w].kind = "authorize" \/ ~job[w].alone
                   \/ job'[w].status # "refused",
           ~Pending(w)'
    PROVE  Good'
<1>1. issued \in Nat /\ issued <= issued' /\ issued' \in Nat
  BY DEF Typed
<1>2. /\ Held(row)' <=> Held(row)
      /\ Current(row)' = Current(row)
      /\ Long' <=> Long
      /\ Switching' <=> Switching
  BY DEF Held, Long, Switching, Current
<1>3. ASSUME NEW v \in Workers, v # w
      PROVE  /\ Active(v)' <=> Active(v)
             /\ Pending(v)' <=> Pending(v)
             /\ Outcome(v)' = Outcome(v)
             /\ job'[v] = job[v]
  BY <1>3, Same DEF Others
<1>4. ASSUME NEW v \in Workers, v # w, Active(v) PROVE Fine(v)'
  <2>1. Fine(v)
    BY <1>4 DEF Good
  <2>2. Pending(v) => Current(Outcome(v)) \in accepted'
    BY <2>1 DEF Fine
  <2> QED
    BY <1>1, <1>3, <1>4, <2>1, <2>2, StillFine DEF Good
<1>5. ASSUME Active(w)' PROVE Fine(w)' /\ SameJob(w)
  <2>1. Fine(w)
    BY DEF Good
  <2>2. Held(job[w].copy)'
    BY <1>2, <1>5, <2>1 DEF Fine, SameJob, Held, Long
  <2> QED
    BY <1>5, <2>1, <2>2 DEF Fine, SameJob
<1>6. Current(row) \in accepted \/ \E v \in Workers : v # w /\ Pending(v)
  BY DEF Good
<1>7. (Current(row) \in accepted \/ \E v \in Workers : Pending(v))'
  BY <1>3, <1>6
<1>8. ASSUME Switching, NEW v \in Workers, Pending(v)' PROVE Unknown(v)'
  <2>1. v # w /\ Pending(v) /\ Outcome(v)' = Outcome(v)
    BY <1>3, <1>8
  <2>2. Unknown(v)
    BY <1>8, <2>1 DEF Good
  <2>3. ASSUME NEW u \in Workers, Active(u)'
        PROVE  /\ Current(Outcome(v)) # Current(job'[u].copy)
               /\ Pending(u)' /\ u # v =>
                    Current(Outcome(v)) # Current(Outcome(u)')
    <3>1. CASE u = w
      BY <1>5, <2>2, <2>3, <3>1 DEF Unknown, SameJob
    <3>2. CASE u # w
      BY <1>3, <2>2, <2>3, <3>2 DEF Unknown
    <3> QED
      BY <3>1, <3>2
  <2> QED
    BY <1>2, <2>1, <2>2, <2>3 DEF Unknown
<1>9. ASSUME ~Switching PROVE Lasting'
  <2>1. Lasting
    BY <1>9 DEF Good
  <2>2. ASSUME NEW v \in Workers, Active(v)'
        PROVE  Current(job'[v].copy) \in accepted
    <3>1. CASE v = w
      BY <1>5, <2>1, <2>2, <3>1 DEF Lasting, SameJob
    <3>2. CASE v # w
      BY <1>3, <2>1, <2>2, <3>2 DEF Lasting
    <3> QED
      BY <3>1, <3>2
  <2> QED
    BY <1>2, <2>1, <2>2 DEF Lasting
<1>10. ASSUME NEW v \in Workers, Active(v)', job'[v].alone PROVE Undisturbed(v)'
  <2>1. CASE v = w
    <3>1. SameJob(w) /\ Undisturbed(w)
      BY <1>5, <1>10, <2>1 DEF Good, SameJob
    <3>2. ASSUME NEW u \in Workers, Active(u)' PROVE u = w
      BY <1>3, <3>1, <3>2 DEF Undisturbed
    <3>3. job'[w].kind # "authorize" => job'[w].status # "refused"
      BY <1>5, <1>10, <2>1, <3>1 DEF SameJob
    <3> QED
      BY <1>2, <2>1, <3>1, <3>2, <3>3 DEF Undisturbed, SameJob
  <2>2. CASE v # w
    BY <1>3, <1>10, <2>2 DEF Good, Undisturbed
  <2> QED
    BY <2>1, <2>2
<1>11. ASSUME NEW v \in Workers, Active(v)' PROVE Fine(v)'
  BY <1>3, <1>4, <1>5, <1>11
<1>12. provider' # "tiktok" /\ Held(row)'
  BY <1>2 DEF Good
<1> QED
  BY <1>2, <1>7, <1>8, <1>9, <1>10, <1>11, <1>12 DEF Good

\* A step in which the provider gives a job new credentials.
LEMMA Given ==
    ASSUME Typed, Good, NEW w \in Workers, Others(w), Active(w), ~Pending(w),
           provider' = provider, row' = row,
           issued' \in Nat, issued <= issued',
           SameJob(w), job'[w].status # "refused", Pending(w)', Active(w)',
           Held(Outcome(w))', Current(Outcome(w)') \in accepted',
           Switching => /\ ~(Current(Outcome(w)') <= issued)
                        /\ \A k \in accepted :
                             k # Current(job[w].copy) => k \in accepted',
           ~Switching => accepted \subseteq accepted',
           provider = "saga_web" => accepted' = {issued'}
    PROVE  Good'
<1>1. /\ Long' <=> Long
      /\ Switching' <=> Switching
      /\ Current(row)' = Current(row)
  BY DEF Long, Switching, Current
<1>2. issued \in Nat /\ row \in [Fields -> Nat] /\ provider # "tiktok"
  BY DEF Typed, Good
<1>3. Held(row)'
  BY <1>1, <1>2, StillHeld DEF Good, Held
<1>4. ASSUME NEW v \in Workers, v # w
      PROVE  /\ Active(v)' <=> Active(v)
             /\ Pending(v)' <=> Pending(v)
             /\ Outcome(v)' = Outcome(v)
             /\ job'[v] = job[v]
  BY <1>4, Same DEF Others
<1>5. ASSUME NEW v \in Workers, v # w, Pending(v)
      PROVE  /\ Current(Outcome(v)) \in accepted
             /\ Current(Outcome(v)) \in accepted'
             /\ Current(Outcome(v)) <= issued
  <2>1. Active(v)
    BY <1>5 DEF Pending, Active
  <2>2. Current(Outcome(v)) \in accepted
    BY <1>5, <2>1 DEF Good, Fine
  <2>3. Switching => Current(Outcome(v)) # Current(job[w].copy)
    BY <1>5 DEF Good, Unknown
  <2>4. Current(Outcome(v)) \in accepted'
    BY <2>2, <2>3
  <2>5. Current(Outcome(v)) <= issued
    BY <2>2, AcceptedIs
  <2> QED
    BY <2>2, <2>4, <2>5
<1>6. ASSUME NEW v \in Workers, v # w, Active(v) PROVE Fine(v)'
  BY <1>2, <1>4, <1>5, <1>6, StillFine DEF Good
<1>7. /\ Fine(w)'
      /\ Held(job[w].copy)
  <2>1. Fine(w)
    BY DEF Good
  <2>2. Held(job[w].copy)'
    <3>1. job[w].copy \in [Fields -> Nat]
      BY DEF Typed
    <3> QED
      BY <1>2, <2>1, <3>1, StillHeld DEF Fine, SameJob, Held
  <2> QED
    BY <2>1, <2>2 DEF Fine, SameJob
<1>8. ASSUME NEW v \in Workers, Active(v)' PROVE Fine(v)'
  BY <1>4, <1>6, <1>7, <1>8
<1>9. ASSUME NEW v \in Workers, Active(v)
      PROVE  Held(job[v].copy)
  BY <1>9 DEF Good, Fine
<1>10. ASSUME Switching, NEW v \in Workers, Pending(v)' PROVE Unknown(v)'
  <2>1. CASE v = w
    <3>1. Current(Outcome(w)') # Current(row)
      BY <1>10 DEF Good, Held
    <3>2. ASSUME NEW u \in Workers, Active(u)'
          PROVE  /\ Current(Outcome(w)') # Current(job'[u].copy)
                 /\ Pending(u)' /\ u # w =>
                      Current(Outcome(w)') # Current(Outcome(u)')
      <4>1. CASE u = w
        BY <1>7, <1>10, <4>1 DEF SameJob, Held
      <4>2. CASE u # w
        <5>1. Held(job[u].copy)
          BY <1>4, <1>9, <3>2, <4>2
        <5> QED
          BY <1>4, <1>5, <1>10, <4>2, <5>1 DEF Held
      <4> QED
        BY <4>1, <4>2
    <3> QED
      BY <1>1, <2>1, <3>1, <3>2 DEF Unknown
  <2>2. CASE v # w
    <3>1. Pending(v) /\ Outcome(v)' = Outcome(v) /\ Unknown(v)
      BY <1>4, <1>10, <2>2 DEF Good
    <3>2. ASSUME NEW u \in Workers, Active(u)'
          PROVE  /\ Current(Outcome(v)) # Current(job'[u].copy)
                 /\ Pending(u)' /\ u # v =>
                      Current(Outcome(v)) # Current(Outcome(u)')
      <4>1. CASE u = w
        <5>1. Current(Outcome(v)) # Current(job'[w].copy)
          BY <3>1 DEF Unknown, SameJob
        <5>2. Current(Outcome(v)) # Current(Outcome(w)')
          BY <1>5, <1>10, <2>2, <3>1
        <5> QED
          BY <4>1, <5>1, <5>2
      <4>2. CASE u # w
        BY <1>4, <3>1, <3>2, <4>2 DEF Unknown
      <4> QED
        BY <4>1, <4>2
    <3> QED
      BY <1>1, <3>1, <3>2 DEF Unknown
  <2> QED
    BY <2>1, <2>2
<1>11. ASSUME ~Switching PROVE Lasting'
  <2>1. Lasting
    BY <1>11 DEF Good
  <2>2. ASSUME NEW v \in Workers, Active(v)'
        PROVE  Current(job'[v].copy) \in accepted'
    <3>1. CASE v = w
      BY <1>11, <2>1, <3>1 DEF Lasting, SameJob
    <3>2. CASE v # w
      BY <1>4, <1>11, <2>1, <2>2, <3>2 DEF Lasting
    <3> QED
      BY <3>1, <3>2
  <2> QED
    BY <1>1, <1>11, <2>1, <2>2 DEF Lasting
<1>12. ASSUME NEW v \in Workers, Active(v)', job'[v].alone PROVE Undisturbed(v)'
  <2>1. CASE v = w
    <3>1. SameJob(w) /\ Undisturbed(w)
      BY <1>12, <2>1 DEF Good, SameJob
    <3>2. ASSUME NEW u \in Workers, Active(u)' PROVE u = w
      BY <1>4, <3>1, <3>2 DEF Undisturbed
    <3> QED
      BY <1>1, <2>1, <3>1, <3>2 DEF Undisturbed, SameJob
  <2>2. CASE v # w
    BY <1>4, <1>12, <2>2 DEF Good, Undisturbed
  <2> QED
    BY <2>1, <2>2
<1>13. \E v \in Workers : Pending(v)'
  OBVIOUS
<1> QED
  BY <1>1, <1>2, <1>3, <1>8, <1>10, <1>11, <1>12, <1>13 DEF Good

\* A job stores the outcome of an answer, its own or an empty one.
LEMMA Stored ==
    ASSUME Typed, Good, NEW w \in Workers, Others(w), Active(w),
           UNCHANGED <<provider, accepted, issued>>,
           job[w].stage = "answered",
           row' = Outcome(w),
           Pending(w) \/ Current(Outcome(w)) \in accepted,
           \/ ~Active(w)'
           \/ /\ job'[w].kind = job[w].kind /\ job'[w].alone = job[w].alone
              /\ job'[w].copy = row'
              /\ job'[w].kind # "authorize" => job'[w].key = Current(row')
              /\ job'[w].status = job[w].status
              /\ job'[w].answer = job[w].answer,
           ~Pending(w)'
    PROVE  Good'
<1> DEFINE new == Current(Outcome(w))
<1>1. /\ Long' <=> Long
      /\ Switching' <=> Switching
      /\ Current(row)' = new
  BY DEF Long, Switching, Current
<1>2. /\ issued \in Nat /\ provider # "tiktok" /\ Fine(w)
      /\ provider \in Providers
      /\ job[w].copy \in [Fields -> Nat] /\ job[w].answer \in [Fields -> Nat]
  BY ProviderIs DEF Typed, Good
<1>3. /\ Outcome(w) \in [Fields -> Nat]
      /\ Outcome(w).access = job[w].answer.access
      /\ Outcome(w).refresh =
           IF \/ job[w].kind = "authorize" /\ Long /\ provider \notin Forgetting
              \/ /\ job[w].kind = "refresh" /\ provider = "onedrive"
                 /\ job[w].answer.refresh # 0
           THEN job[w].answer.refresh ELSE job[w].copy.refresh
  BY <1>2, OutcomeIs
<1>4. new \in accepted /\ new \in Nat /\ new <= issued /\ new # 0
  <2>1. new \in accepted
    BY <1>2 DEF Fine
  <2> QED
    BY <2>1, AcceptedIs
<1>5. ASSUME ~Pending(w)
      PROVE  Outcome(w).refresh = job[w].copy.refresh /\ Outcome(w).access = 0
  <2>1. job[w].answer = NoAnswer
    BY <1>5 DEF Pending
  <2>2. job[w].answer.access = 0 /\ job[w].answer.refresh = 0
    BY <2>1, NoAnswerIs
  <2>3. Outcome(w).refresh # 0
    BY <1>3, <1>4, <2>2 DEF Current
  <2> QED
    BY <1>3, <2>2, <2>3
<1>6. Held(Outcome(w))
  <2>1. CASE Pending(w)
    BY <1>2, <2>1 DEF Fine
  <2>2. CASE ~Pending(w)
    BY <1>2, <1>4, <1>5, <2>2 DEF Fine, Held, Current
  <2> QED
    BY <2>1, <2>2
<1>7. Held(row)'
  BY <1>1, <1>6 DEF Held
<1>8. ASSUME NEW v \in Workers, v # w
      PROVE  /\ Active(v)' <=> Active(v)
             /\ Pending(v)' <=> Pending(v)
             /\ Outcome(v)' = Outcome(v)
             /\ job'[v] = job[v]
  BY <1>8, Same DEF Others
<1>9. ASSUME Switching, NEW v \in Workers, v # w, Pending(v)
      PROVE  Unknown(v) /\ Current(Outcome(v)) # new
  <2>1. Unknown(v)
    BY <1>9 DEF Good
  <2>2. CASE Pending(w)
    BY <1>9, <2>1, <2>2 DEF Unknown
  <2>3. CASE ~Pending(w)
    <3>1. job[w].copy.refresh # 0
      BY <1>4, <1>5, <2>3 DEF Current
    <3>2. new = Current(job[w].copy)
      BY <1>5, <2>3, <3>1 DEF Current
    <3> QED
      BY <2>1, <3>2 DEF Unknown
  <2> QED
    BY <2>1, <2>2, <2>3
<1>10. ASSUME NEW v \in Workers, Active(v)' PROVE Fine(v)'
  <2>1. CASE v = w
    <3>1. Held(job[w].copy)'
      BY <1>1, <1>6, <1>10, <2>1 DEF Held
    <3> QED
      BY <1>2, <1>10, <2>1, <3>1 DEF Fine
  <2>2. CASE v # w
    <3>1. Active(v) /\ Fine(v) /\ job'[v] = job[v]
      BY <1>8, <1>10, <2>2 DEF Good
    <3>2. issued' \in Nat /\ issued <= issued'
      BY <1>2
    <3>3. Pending(v) => Current(Outcome(v)) \in accepted'
      BY <3>1 DEF Fine
    <3> QED
      BY <1>2, <3>1, <3>2, <3>3, StillFine
  <2> QED
    BY <2>1, <2>2
<1>11. ASSUME Switching, NEW v \in Workers, Pending(v)' PROVE Unknown(v)'
  <2>1. /\ v # w /\ Pending(v) /\ Outcome(v)' = Outcome(v) /\ Unknown(v)
        /\ Current(Outcome(v)) # new
    BY <1>8, <1>9, <1>11
  <2>2. ASSUME NEW u \in Workers, Active(u)'
        PROVE  /\ Current(Outcome(v)) # Current(job'[u].copy)
               /\ Pending(u)' /\ u # v =>
                    Current(Outcome(v)) # Current(Outcome(u)')
    <3>1. CASE u = w
      BY <2>1, <2>2, <3>1
    <3>2. CASE u # w
      BY <1>8, <2>1, <2>2, <3>2 DEF Unknown
    <3> QED
      BY <3>1, <3>2
  <2> QED
    BY <1>1, <2>1, <2>2 DEF Unknown
<1>12. ASSUME ~Switching PROVE Lasting'
  <2>1. Lasting
    BY <1>12 DEF Good
  <2>2. ASSUME NEW v \in Workers, Active(v)'
        PROVE  Current(job'[v].copy) \in accepted
    <3>1. CASE v = w
      BY <1>4, <2>2, <3>1
    <3>2. CASE v # w
      BY <1>8, <2>1, <2>2, <3>2 DEF Lasting
    <3> QED
      BY <3>1, <3>2
  <2> QED
    BY <1>1, <1>4, <2>2 DEF Lasting
<1>13. ASSUME NEW v \in Workers, Active(v)', job'[v].alone PROVE Undisturbed(v)'
  <2>1. CASE v = w
    <3>1. Undisturbed(w) /\ job'[w].copy = row'
      BY <1>13, <2>1 DEF Good
    <3>2. ASSUME NEW u \in Workers, Active(u)' PROVE u = w
      BY <1>8, <3>1, <3>2 DEF Undisturbed
    <3>3. job'[w].kind # "authorize" => job'[w].status # "refused"
      BY <1>13, <2>1, <3>1 DEF Undisturbed
    <3> QED
      BY <1>1, <2>1, <3>1, <3>2, <3>3 DEF Undisturbed
  <2>2. CASE v # w
    <3>1. Active(v) /\ job[v].alone
      BY <1>8, <1>13, <2>2
    <3>2. Undisturbed(v)
      BY <3>1 DEF Good
    <3> QED
      BY <2>2, <3>2 DEF Undisturbed
  <2> QED
    BY <2>1, <2>2
<1> QED
  BY <1>1, <1>2, <1>4, <1>7, <1>10, <1>11, <1>12, <1>13 DEF Good

-----------------------------------------------------------------------------
(* The steps of the provider                                               *)

LEMMA PairIs ==
    ASSUME NEW x \in Nat, NEW y \in Nat
    PROVE  /\ [access |-> x, refresh |-> y] \in [Fields -> Nat]
           /\ x # 0 => [access |-> x, refresh |-> y] # NoAnswer
BY NoAnswerIs DEF Fields

LEMMA AnsweredIs ==
    ASSUME IInv, NEW w \in Workers, NEW status, NEW answer,
           Answered(w, status, answer)
    PROVE  /\ Others(w) /\ SameJob(w)
           /\ job'[w].stage = "answered" /\ job'[w].status = status
           /\ job'[w].answer = answer
BY FieldNames DEF IInv, Sound, Answered, Others, SameJob

\* What an answer that arrives would store.
LEMMA GivenOutcome ==
    ASSUME Typed, NEW w \in Workers, Active(w), provider # "tiktok", Fine(w),
           provider' = provider, SameJob(w), job'[w].answer \in [Fields -> Nat]
    PROVE  /\ Outcome(w)' \in [Fields -> Nat]
           /\ Outcome(w)'.access = job'[w].answer.access
           /\ Outcome(w)'.refresh =
                IF \/ /\ job[w].kind = "authorize" /\ Long
                      /\ provider \notin Forgetting
                   \/ /\ job[w].kind = "refresh" /\ provider = "onedrive"
                      /\ job'[w].answer.refresh # 0
                THEN job'[w].answer.refresh ELSE job[w].copy.refresh
<1>1. Outcome(w)' = StoredBy(provider, job[w].kind, job[w].copy, job'[w].answer,
                             job[w].key)
  BY DEF Outcome, Patch, StoredBy, SameJob
<1> QED
  BY <1>1, StoredOf

\* The provider's answer reaches a job: its step in each of the three ways, or
\* a refusal.
LEMMA ExchangeKey ==
    ASSUME IInv, Typed, NEW w \in Workers, Exchange(w)
    PROVE  Typed' /\ (Good => Good')
<1>1. /\ provider' = provider /\ row' = row /\ job[w].stage = "ready"
      /\ Active(w) /\ ~Pending(w)
  BY DEF Exchange, Active, Pending
<1>2. /\ issued \in Nat /\ accepted \subseteq 1..issued
      /\ row \in [Fields -> Nat] /\ provider \in Providers
      /\ job[w].kind \in Kinds
      /\ job[w].copy \in [Fields -> Nat] /\ job[w].key \in Nat
  BY ProviderIs DEF Typed
<1>3. ASSUME NEW status, NEW answer, Answered(w, status, answer)
      PROVE  /\ Others(w) /\ SameJob(w)
             /\ job'[w].stage = "answered" /\ Active(w)'
             /\ job'[w].status = status
             /\ job'[w].answer = answer
             /\ Pending(w)' <=> answer # NoAnswer
  BY <1>3, AnsweredIs DEF Active, Pending
<1>4. ASSUME NEW status, NEW answer \in [Fields -> Nat],
             Answered(w, status, answer),
             issued' \in Nat, accepted' \subseteq 1..issued'
      PROVE  Typed'
  <2>1. /\ job'[w].kind \in Kinds /\ job'[w].stage \in Stages
        /\ job'[w].copy \in [Fields -> Nat]
        /\ job'[w].answer \in [Fields -> Nat] /\ job'[w].key \in Nat
        /\ Others(w) /\ Suits(job'[w].kind)
    BY <1>1, <1>2, <1>3, <1>4 DEF SameJob, Stages, Typed
  <2> QED
    BY <1>1, <1>2, <1>4, <2>1, TypedKept
<1>5. ASSUME NEW status, Answered(w, status, NoAnswer),
             UNCHANGED <<accepted, issued>>,
             status # "refused" \/ job[w].kind = "authorize"
               \/ job[w].key \notin accepted
      PROVE  Typed' /\ (Good => Good')
  <2>1. Typed'
    BY <1>2, <1>4, <1>5, NoAnswerIs
  <2>2. ASSUME Good PROVE Good'
    <3>1. job[w].kind = "authorize" \/ ~job[w].alone \/ status # "refused"
      <4>1. SUFFICES ASSUME job[w].kind # "authorize", job[w].alone,
                            job[w].key \notin accepted
                     PROVE  FALSE
        BY <1>5
      <4>2. Undisturbed(w) /\ Fine(w)
        BY <1>1, <2>2, <4>1 DEF Good
      <4>3. job[w].key = Current(row)
        BY <4>1, <4>2 DEF Undisturbed, Fine
      <4>4. PICK v \in Workers : Pending(v)
        BY <2>2, <4>1, <4>3 DEF Good
      <4>5. v = w
        BY <4>2, <4>4 DEF Undisturbed, Active, Pending
      <4> QED
        BY <1>1, <4>4, <4>5
    <3> QED
      BY <1>1, <1>3, <1>5, <2>2, <3>1, Quieter
  <2> QED
    BY <2>1, <2>2
<1>6. ASSUME Good
      PROVE  /\ provider # "tiktok" /\ Fine(w)
             /\ provider \in Rotating <=> provider = "onedrive"
             /\ Switching => provider = "onedrive" \/ provider = "saga_web"
             /\ Long => job[w].copy.refresh # 0
             /\ ~Long => job[w].copy.refresh = 0
             /\ job[w].copy.access \in Nat /\ job[w].copy.refresh \in Nat
             /\ ~Switching => Current(job[w].copy) \in accepted
             /\ job[w].kind # "authorize" => job[w].key = Current(job[w].copy)
             /\ job[w].kind \in {"read", "import"} <=> provider = "saga_web"
             /\ job[w].kind = "refresh" => provider \notin Permanent
             /\ Long => Current(job[w].copy) = job[w].copy.refresh
  <2>1. Fine(w) /\ provider # "tiktok"
    BY <1>1, <1>6 DEF Good
  <2>2. ~Switching => Current(job[w].copy) \in accepted
    BY <1>1, <1>6 DEF Good, Lasting
  <2>3. job[w].copy.access \in Nat /\ job[w].copy.refresh \in Nat
    BY <1>2, Fielded
  <2>4. Long => Current(job[w].copy) = job[w].copy.refresh
    BY <2>1 DEF Fine, Held, Current
  <2>5. /\ provider \in Rotating <=> provider = "onedrive"
        /\ Switching => provider = "onedrive" \/ provider = "saga_web"
    BY <1>2, <2>1, Ways DEF Switching
  <2> QED
    BY <1>1, <2>1, <2>2, <2>3, <2>4, <2>5 DEF Fine, Held, Typed, Suits
<1>7. ASSUME Good, NEW status, NEW answer \in [Fields -> Nat],
             Answered(w, status, answer), answer # NoAnswer,
             status # "refused",
             issued' \in Nat, issued <= issued',
             Held(Outcome(w))', Current(Outcome(w)') \in accepted',
             Switching => /\ ~(Current(Outcome(w)') <= issued)
                          /\ \A k \in accepted :
                               k # Current(job[w].copy) => k \in accepted',
             ~Switching => accepted \subseteq accepted',
             provider = "saga_web" => accepted' = {issued'}
      PROVE  Good'
  <2>1. /\ Others(w) /\ SameJob(w) /\ job'[w].status # "refused"
        /\ Pending(w)' /\ Active(w)'
    BY <1>3, <1>7
  <2> QED
    BY <1>1, <1>7, <2>1, Given
<1>8. ASSUME Good, NEW status, NEW answer \in [Fields -> Nat],
             Answered(w, status, answer)
      PROVE  /\ Outcome(w)' \in [Fields -> Nat]
             /\ Outcome(w)'.access = answer.access
             /\ Outcome(w)'.refresh =
                  IF \/ /\ job[w].kind = "authorize" /\ Long
                        /\ provider \notin Forgetting
                     \/ /\ job[w].kind = "refresh" /\ provider = "onedrive"
                        /\ answer.refresh # 0
                  THEN answer.refresh ELSE job[w].copy.refresh
  BY <1>1, <1>3, <1>6, <1>8, GivenOutcome
<1>9. CASE SagaAnswers(w)
  <2>1. PICK status \in {"ok", "error"} :
          \/ Answered(w, status, NoAnswer) /\ UNCHANGED <<accepted, issued>>
          \/ /\ issued' = issued + 1 /\ accepted' = {issued'}
             /\ Answered(w, status, [access |-> issued', refresh |-> 0])
    BY <1>9 DEF SagaAnswers
  <2>2. CASE Answered(w, status, NoAnswer) /\ UNCHANGED <<accepted, issued>>
    BY <1>5, <2>1, <2>2
  <2>3. CASE /\ issued' = issued + 1 /\ accepted' = {issued'}
             /\ Answered(w, status, [access |-> issued', refresh |-> 0])
    <3> DEFINE answer == [access |-> issued', refresh |-> 0]
    <3>1. /\ answer \in [Fields -> Nat] /\ answer # NoAnswer
          /\ answer.access = issued' /\ answer.refresh = 0
          /\ issued' \in Nat /\ issued <= issued' /\ ~(issued' <= issued)
      <4>1. issued' \in Nat /\ issued' # 0 /\ 0 \in Nat
        BY <1>2, <2>3
      <4>2. answer \in [Fields -> Nat] /\ answer # NoAnswer
        BY <4>1, PairIs
      <4> QED
        BY <1>2, <2>3, <4>1, <4>2
    <3>2. Typed'
      <4>1. issued' \in 1..issued'
        BY <1>2, <2>3, <3>1
      <4>2. accepted' \subseteq 1..issued' /\ Answered(w, status, answer)
        BY <2>3, <4>1
      <4> HIDE DEF answer
      <4> QED
        BY ONLY <1>4, <3>1, <4>2
    <3>3. ASSUME Good PROVE Good'
      <4>1. provider = "saga_web" /\ job[w].key = Current(job[w].copy)
        BY <1>6, <1>9, <3>3 DEF SagaAnswers
      <4>2. /\ ~Long /\ ~Long' /\ job[w].copy.refresh = 0 /\ Switching
        BY <1>1, <1>2, <1>6, <3>3, <4>1, Ways DEF Long, Switching
      <4>3. Outcome(w)'.access = issued' /\ Outcome(w)'.refresh = 0
        <5> HIDE DEF answer
        <5> QED
          BY <1>8, <2>3, <3>1, <3>3, <4>1, <4>2 DEF answer
      <4>4. Current(Outcome(w)') = issued'
        BY <4>3 DEF Current
      <4>5. Held(Outcome(w))' /\ Current(Outcome(w)') \in accepted'
        BY <2>3, <3>1, <4>2, <4>3, <4>4 DEF Held
      <4>6. /\ ~(Current(Outcome(w)') <= issued)
            /\ \A k \in accepted : k # Current(job[w].copy) => k \in accepted'
        <5>1. accepted = {issued} /\ Current(job[w].copy) \in accepted
          BY <1>9, <3>3, <4>1 DEF Good, SagaAnswers
        <5> QED
          BY <3>1, <4>4, <5>1
      <4> HIDE DEF answer
      <4> QED
        BY <1>7, <2>1, <2>3, <3>1, <3>3, <4>2, <4>5, <4>6 DEF answer
    <3> QED
      BY <3>2, <3>3
  <2> QED
    BY <2>1, <2>2, <2>3
<1>10. CASE RefreshAnswers(w)
  <2> DEFINE fresh == issued + 1
             token == IF provider \in Rotating THEN issued + 2 ELSE 0
             answer == [access |-> fresh, refresh |-> token]
  <2>1. /\ job[w].kind = "refresh" /\ job[w].key \in accepted
        /\ Answered(w, "ok", answer)
        /\ issued' = fresh + (IF provider \in Rotating THEN 1 ELSE 0)
        /\ provider \in Rotating =>
             accepted' = (accepted \ {job[w].key}) \cup {token}
        /\ provider \notin Rotating /\ provider \in Exchanging =>
             accepted' = accepted \cup {fresh}
        /\ provider \notin Rotating \cup Exchanging => accepted' = accepted
    <3>1. /\ job[w].kind = "refresh" /\ job[w].key \in accepted
          /\ Answered(w, "ok", answer)
          /\ issued' = fresh + (IF provider \in Rotating THEN 1 ELSE 0)
      BY <1>10 DEF RefreshAnswers
    <3>2. accepted' = CASE provider \in Rotating ->
                             (accepted \ {job[w].key}) \cup {token}
                        [] provider \in Exchanging -> accepted \cup {fresh}
                        [] OTHER -> accepted
      BY <1>10 DEF RefreshAnswers
    <3>3. provider \in Rotating => provider \notin Exchanging
      BY <1>2, Ways
    <3> HIDE DEF token, fresh
    <3> QED
      BY <3>1, <3>2, <3>3, Zenon
  <2>2. /\ fresh \in Nat /\ token \in Nat /\ fresh # 0
        /\ answer \in [Fields -> Nat] /\ answer # NoAnswer
        /\ answer.access = fresh /\ answer.refresh = token
    BY <1>2, PairIs
  <2>3. /\ issued' \in Nat /\ issued <= issued' /\ fresh <= issued'
        /\ token <= issued' /\ issued < fresh
        /\ provider \in Rotating => token = issued + 2
    BY <1>2, <2>1
  <2> HIDE DEF fresh, answer, token
  <2>4. accepted' \subseteq 1..issued'
    <3>1. accepted \subseteq 1..issued'
      BY <1>2, <2>3
    <3>2. CASE provider \in Rotating
      <4>1. token \in 1..issued'
        <5>1. token \in Nat /\ token >= 1
          BY <1>2, <2>3, <3>2
        <5> QED
          BY <2>3, <5>1
      <4> QED
        BY <2>1, <3>1, <3>2, <4>1
    <3>3. CASE provider \notin Rotating
      <4>1. fresh \in 1..issued'
        BY <1>2, <2>2, <2>3
      <4> QED
        BY <2>1, <3>1, <3>3, <4>1
    <3> QED
      BY <3>2, <3>3
  <2>5. Typed'
    <3>1. Answered(w, "ok", answer) /\ answer \in [Fields -> Nat]
      BY <2>1, <2>2
    <3>2. issued' \in Nat
      BY <2>3
    <3> QED
      BY ONLY <1>4, <2>4, <3>1, <3>2
  <2>6. ASSUME Good PROVE Good'
    <3> DEFINE z == Outcome(w)'
    <3>1. /\ z \in [Fields -> Nat] /\ z.access = fresh
          /\ z.refresh = IF provider = "onedrive" /\ token # 0
                         THEN token ELSE job[w].copy.refresh
      BY <1>8, <2>1, <2>2, <2>6
    <3>2. /\ provider # "saga_web" /\ provider # "tiktok"
          /\ provider \in Rotating <=> provider = "onedrive"
          /\ Switching => provider = "onedrive"
          /\ Long' <=> Long
          /\ job[w].key = Current(job[w].copy)
      BY <1>1, <1>6, <2>1, <2>6 DEF Long
    <3> HIDE DEF z
    <3>3. CASE provider = "onedrive"
      <4>1. Long
        BY <3>2, <3>3 DEF Long
      <4>2. z.refresh = issued + 2 /\ Current(z) = issued + 2
        BY <1>2, <2>3, <3>1, <3>2, <3>3 DEF Current
      <4>3. /\ Held(Outcome(w))' /\ Current(z) \in accepted'
            /\ ~(Current(z) <= issued)
            /\ \A k \in accepted : k # Current(job[w].copy) => k \in accepted'
            /\ Switching
        <5>1. accepted' = (accepted \ {Current(job[w].copy)}) \cup {issued + 2}
          <6>1. provider \in Rotating /\ token = issued + 2
            BY <2>3, <3>2, <3>3
          <6>2. accepted' = (accepted \ {job[w].key}) \cup {token}
            BY <2>1, <6>1
          <6> QED
            BY <3>2, <6>1, <6>2
        <5>2. (IF Long' THEN z.refresh # 0 ELSE z.refresh = 0)
                /\ Current(z) <= issued'
          BY <1>2, <2>3, <3>2, <3>3, <4>1, <4>2
        <5>3. Switching
          BY <3>2, <3>3 DEF Switching
        <5> QED
          BY <1>2, <4>2, <5>1, <5>2, <5>3 DEF Held, z
      <4> QED
        BY <1>7, <2>1, <2>2, <2>3, <2>6, <3>2, <4>3 DEF z
    <3>4. CASE provider # "onedrive"
      <4>1. ~Switching /\ accepted \subseteq accepted'
        BY <2>1, <3>2, <3>4
      <4>2. z.refresh = job[w].copy.refresh
        BY <3>1, <3>4
      <4>3. CASE Long
        <5>1. z.refresh # 0 /\ Current(z) = Current(job[w].copy)
          BY <1>6, <2>6, <4>2, <4>3 DEF Current
        <5>2. Current(z) \in accepted' /\ Current(z) <= issued'
          <6>1. Current(z) \in accepted
            BY <1>6, <2>6, <4>1, <5>1
          <6>2. Current(z) <= issued /\ Current(z) \in Nat
            BY <6>1, AcceptedIs
          <6> QED
            BY <1>2, <2>3, <4>1, <6>1, <6>2
        <5>3. Held(Outcome(w))'
          BY <3>2, <4>3, <5>1, <5>2 DEF Held, z
        <5> QED
          BY <1>7, <2>1, <2>2, <2>3, <2>6, <3>2, <4>1, <5>2, <5>3 DEF z
      <4>4. CASE ~Long
        <5>1. z.refresh = 0 /\ Current(z) = fresh
          BY <1>6, <2>6, <3>1, <4>2, <4>4 DEF Current
        <5>2. fresh \in accepted'
          <6>1. provider \in Exchanging /\ provider \notin Rotating
            BY <1>2, <1>6, <2>1, <2>6, <3>2, <4>4, Ways DEF Long
          <6> QED
            BY <2>1, <6>1
        <5>3. Held(Outcome(w))'
          BY <2>3, <3>2, <4>4, <5>1 DEF Held, z
        <5> QED
          BY <1>7, <2>1, <2>2, <2>3, <2>6, <3>2, <4>1, <5>1, <5>2, <5>3 DEF z
      <4> QED
        BY <4>3, <4>4
    <3> QED
      BY <3>3, <3>4
  <2> QED
    BY <2>5, <2>6
<1>11. CASE ExchangeAnswers(w)
  <2> DEFINE answer == GrantAnswer
             new == Latest(answer)
  <2>1. /\ job[w].kind = "authorize"
        /\ Answered(w, "ok", answer)
        /\ issued' = new
        /\ accepted' = accepted \cup {new}
    BY <1>11 DEF ExchangeAnswers
  <2>2. /\ answer \in [Fields -> Nat] /\ answer # NoAnswer
        /\ answer.access = issued + 1
        /\ answer.refresh = IF Long THEN issued + 2 ELSE 0
        /\ new = IF Long THEN issued + 2 ELSE issued + 1
    BY <1>2, PairIs DEF GrantAnswer, Long, Latest
  <2> HIDE DEF answer, new
  <2>3. issued' \in Nat /\ issued <= issued' /\ ~(new <= issued) /\ new = issued'
    BY <1>2, <2>1, <2>2
  <2>4. accepted' \subseteq 1..issued'
    <3>1. accepted \subseteq 1..issued'
      BY <1>2, <2>3
    <3>2. new \in 1..issued'
      BY <1>2, <2>2, <2>3
    <3> QED
      BY <2>1, <3>1, <3>2
  <2>5. Typed'
    BY <1>4, <2>1, <2>2, <2>3, <2>4
  <2>6. ASSUME Good PROVE Good'
    <3>1. /\ Outcome(w)' \in [Fields -> Nat] /\ Outcome(w)'.access = issued + 1
          /\ Outcome(w)'.refresh = IF Long /\ provider \notin Forgetting
                         THEN answer.refresh ELSE job[w].copy.refresh
      BY <1>8, <2>1, <2>2, <2>6
    <3>2. /\ provider # "saga_web"
          /\ Long' <=> Long
          /\ Switching => provider = "onedrive"
      BY <1>1, <1>6, <2>1, <2>6 DEF Long
    <3>3. accepted \subseteq accepted'
      BY <2>1
    <3>4. CASE Long /\ provider \in Forgetting
      <4>1. ~Switching
        BY <1>2, <3>2, <3>4, Ways
      <4>2. Outcome(w)'.refresh # 0 /\ Current(Outcome(w)') = Current(job[w].copy)
        BY <1>6, <2>6, <3>1, <3>4 DEF Current
      <4>3. Current(Outcome(w)') \in accepted' /\ Current(Outcome(w)') <= issued'
        <5>1. Current(Outcome(w)') \in accepted
          BY <1>6, <2>6, <4>1, <4>2
        <5>2. Current(Outcome(w)') <= issued /\ Current(Outcome(w)') \in Nat
          BY <5>1, AcceptedIs
        <5> QED
          BY <1>2, <2>3, <3>3, <5>1, <5>2
      <4>4. Held(Outcome(w))'
        BY <3>2, <3>4, <4>2, <4>3 DEF Held
      <4>5. /\ Answered(w, "ok", answer) /\ Current(Outcome(w)') \in accepted'
            /\ provider # "saga_web"
        BY <2>1, <3>2, <4>3
      <4> QED
        BY ONLY <1>7, <2>2, <2>3, <2>6, <3>3, <4>1, <4>4, <4>5
    <3>5. CASE ~(Long /\ provider \in Forgetting)
      <4>1. /\ Current(Outcome(w)') = new
            /\ IF Long THEN Outcome(w)'.refresh # 0 ELSE Outcome(w)'.refresh = 0
        BY <1>2, <1>6, <2>2, <2>6, <3>1, <3>5 DEF Current
      <4>2. Current(Outcome(w)') \in accepted' /\ Current(Outcome(w)') <= issued'
        <5>1. new \in accepted' /\ new <= issued'
          BY <2>1, <2>3
        <5> QED
          BY <4>1, <5>1
      <4>3. Held(Outcome(w))'
        BY <3>2, <4>1, <4>2 DEF Held
      <4>4. /\ Answered(w, "ok", answer) /\ Current(Outcome(w)') \in accepted'
            /\ ~(Current(Outcome(w)') <= issued)
            /\ provider # "saga_web"
        BY <2>1, <2>3, <3>2, <4>1, <4>2
      <4> QED
        BY ONLY <1>7, <2>2, <2>3, <2>6, <3>3, <4>3, <4>4
    <3> QED
      BY <3>4, <3>5
  <2> QED
    BY <2>5, <2>6
<1>12. CASE Refuses(w)
  <2>1. /\ Answered(w, "refused", NoAnswer) /\ UNCHANGED <<accepted, issued>>
        /\ job[w].kind = "authorize" \/ job[w].key \notin accepted
    BY <1>12 DEF Refuses
  <2> QED
    BY <1>5, <2>1
<1> QED
  BY <1>9, <1>10, <1>11, <1>12 DEF Exchange

-----------------------------------------------------------------------------
(* The steps of the jobs                                                   *)

LEMMA FinishedIs ==
    ASSUME IInv, Typed, NEW w \in Workers, Finished(w)
    PROVE  /\ Others(w) /\ ~Active(w)' /\ ~Pending(w)'
           /\ provider' = provider /\ row' \in [Fields -> Nat]
              /\ UNCHANGED <<accepted, issued>> => Typed'
<1>1. Others(w) /\ job'[w] = Idle
  BY DEF IInv, Finished, Others
<1>2. ~Active(w)' /\ ~Pending(w)'
  BY <1>1, IdleJob DEF Active, Pending
<1>3. /\ job'[w].kind \in Kinds /\ job'[w].stage \in Stages
      /\ job'[w].copy \in [Fields -> Nat] /\ job'[w].answer \in [Fields -> Nat]
      /\ job'[w].key \in Nat
  BY <1>1, IdleJob, NoAnswerIs DEF Kinds, Stages
<1>4. ASSUME provider' = provider, row' \in [Fields -> Nat],
             UNCHANGED <<accepted, issued>>
      PROVE  Typed'
  <2>1. issued' \in Nat /\ accepted' \subseteq 1..issued'
    BY <1>4 DEF Typed
  <2> QED
    BY <1>1, <1>2, <1>3, <1>4, <2>1, TypedKept
<1> QED
  BY <1>1, <1>2, <1>4

\* A job ends without a save: what it was about to save matters only if the key
\* is not in the row.
LEMMA EndKey ==
    ASSUME IInv, Typed, KeyInv, NEW w \in Workers, Active(w), Finished(w),
           UNCHANGED <<provider, row, accepted, issued>>, spoiled => spoiled',
           Good /\ ~spoiled' /\ Pending(w) => Current(row) \in accepted
    PROVE  Typed' /\ KeyInv'
<1>1. Others(w) /\ ~Active(w)' /\ ~Pending(w)'
  BY FinishedIs
<1>2. Typed'
  <2>1. row' \in [Fields -> Nat]
    BY DEF Typed
  <2> QED
    BY <2>1, FinishedIs
<1>3. ASSUME ~spoiled' PROVE Good'
  <2>1. Good
    BY <1>3 DEF KeyInv
  <2> QED
    BY <1>1, <1>3, <2>1, Quieter
<1> QED
  BY <1>2, <1>3 DEF KeyInv

\* A job goes on, and what it was about to save is dropped.
LEMMA OnKey ==
    ASSUME IInv, Typed, KeyInv, NEW w \in Workers, Active(w),
           Others(w), SameJob(w),
           job'[w].stage \in Stages, ~Pending(w)',
           job'[w].answer \in [Fields -> Nat],
           job'[w].status = "refused" =>
             job[w].status = "refused" /\ job'[w].answer = NoAnswer,
           UNCHANGED <<provider, row, accepted, issued>>, spoiled => spoiled',
           Good /\ ~spoiled' /\ Pending(w) => Current(row) \in accepted
    PROVE  Typed' /\ KeyInv'
<1>1. Typed'
  <2>1. /\ row' \in [Fields -> Nat] /\ issued' \in Nat
        /\ accepted' \subseteq 1..issued' /\ provider' = provider
        /\ job'[w].kind \in Kinds /\ Suits(job'[w].kind)
        /\ job'[w].copy \in [Fields -> Nat] /\ job'[w].key \in Nat
    BY DEF Typed, SameJob
  <2> QED
    BY <2>1, TypedKept
<1>2. ASSUME ~spoiled' PROVE Good'
  <2>1. Good
    BY <1>2 DEF KeyInv
  <2>2. job[w].kind = "authorize" \/ ~job[w].alone
          \/ job'[w].status # "refused"
    BY <2>1 DEF Good, Undisturbed
  <2> QED
    BY <1>2, <2>1, <2>2, Quieter
<1> QED
  BY <1>1, <1>2 DEF KeyInv

LEMMA AgainFields ==
    ASSUME NEW j, DOMAIN j = JobFields
    PROVE  /\ Again(j).kind = j.kind /\ Again(j).copy = j.copy
           /\ Again(j).key = j.key /\ Again(j).alone = j.alone
           /\ Again(j).stage = "ready" /\ Again(j).status = "none"
           /\ Again(j).answer = NoAnswer
BY FieldNames DEF Again

\* A request is sent again.
LEMMA ResendKey ==
    ASSUME IInv, Typed, KeyInv, NEW w \in Workers, Active(w), NEW r,
           job' = [job EXCEPT ![w] = r],
           r.kind = job[w].kind, r.copy = job[w].copy, r.key = job[w].key,
           r.alone = job[w].alone, r.stage = "ready", r.status = "none",
           r.answer = NoAnswer,
           UNCHANGED <<provider, row, accepted, issued>>, spoiled => spoiled',
           Good /\ ~spoiled' /\ Pending(w) => Current(row) \in accepted
    PROVE  Typed' /\ KeyInv'
<1>1. Others(w) /\ job'[w] = r
  BY DEF IInv, Others
<1>2. /\ SameJob(w) /\ ~Pending(w)' /\ job'[w].stage \in Stages
      /\ job'[w].answer \in [Fields -> Nat] /\ job'[w].status # "refused"
  BY <1>1, NoAnswerIs DEF SameJob, Pending, Stages
<1> QED
  BY <1>1, <1>2, OnKey

LEMMA NoReplyKey ==
    ASSUME IInv, Typed, KeyInv, NEW w \in Workers, NoReply(w)
    PROVE  Typed' /\ KeyInv'
<1> DEFINE tries == job[w].tries + (IF job[w].stage = "ready" THEN 1 ELSE 0)
<1>1. /\ Active(w) /\ UNCHANGED <<provider, row, accepted, issued>>
      /\ spoiled => spoiled'
      /\ ~spoiled' => Current(row) \in accepted
  BY DEF NoReply, Active
<1>2. CASE MayRetry(job[w].kind, tries)
  <2> DEFINE a == Again(job[w])
             r == [a EXCEPT !.tries = tries]
  <2>1. job' = [job EXCEPT ![w] = r]
    BY <1>2 DEF NoReply
  <2>2. /\ DOMAIN a = JobFields
        /\ a.kind = job[w].kind /\ a.copy = job[w].copy
        /\ a.key = job[w].key /\ a.alone = job[w].alone
        /\ a.stage = "ready" /\ a.status = "none" /\ a.answer = NoAnswer
    BY AgainIs, AgainFields DEF IInv, Sound
  <2> HIDE DEF a
  <2>3. /\ r.kind = job[w].kind /\ r.copy = job[w].copy
        /\ r.key = job[w].key /\ r.alone = job[w].alone
        /\ r.stage = "ready" /\ r.status = "none" /\ r.answer = NoAnswer
    BY <2>2, FieldNames
  <2> HIDE DEF r
  <2> QED
    BY <1>1, <2>1, <2>3, ResendKey
<1>3. CASE ~MayRetry(job[w].kind, tries)
  <2>1. Finished(w)
    BY <1>3 DEF NoReply
  <2> QED
    BY <1>1, <2>1, EndKey
<1> QED
  BY <1>2, <1>3

LEMMA ConcludeKey ==
    ASSUME IInv, Typed, KeyInv, NEW w \in Workers, Conclude(w)
    PROVE  Typed' /\ KeyInv'
<1>1. /\ Active(w) /\ ~Pending(w)
      /\ UNCHANGED <<provider, row, accepted, issued>> /\ spoiled' = spoiled
  BY DEF Conclude, Active, Pending
<1>2. CASE job[w].status = "error" /\ MayRetry(job[w].kind, job[w].tries)
  <2> DEFINE r == Again(job[w])
  <2>1. job' = [job EXCEPT ![w] = r]
    BY <1>2 DEF Conclude
  <2>2. /\ r.kind = job[w].kind /\ r.copy = job[w].copy
        /\ r.key = job[w].key /\ r.alone = job[w].alone
        /\ r.stage = "ready" /\ r.status = "none" /\ r.answer = NoAnswer
    BY AgainFields DEF IInv, Sound
  <2> HIDE DEF r
  <2> QED
    BY <1>1, <2>1, <2>2, ResendKey
<1>3. CASE ~(job[w].status = "error" /\ MayRetry(job[w].kind, job[w].tries))
  <2>1. Finished(w)
    BY <1>3 DEF Conclude
  <2> QED
    BY <1>1, <2>1, EndKey
<1> QED
  BY <1>2, <1>3

LEMMA JunkKey ==
    ASSUME IInv, Typed, KeyInv, NEW w \in Workers, Junk(w)
    PROVE  Typed' /\ KeyInv'
<1>1. /\ Others(w) /\ SameJob(w) /\ job'[w].stage = "answered"
      /\ job'[w].status = "ok" /\ job'[w].answer = NoAnswer
  BY FieldNames DEF IInv, Sound, Junk, Others, SameJob
<1>2. /\ Active(w) /\ ~Pending(w)
      /\ UNCHANGED <<provider, row, accepted, issued>> /\ spoiled' = spoiled
  BY DEF Junk, Active, Pending
<1>3. /\ ~Pending(w)' /\ job'[w].stage \in Stages
      /\ job'[w].answer \in [Fields -> Nat] /\ job'[w].status # "refused"
  BY <1>1, NoAnswerIs DEF Pending, Stages
<1> QED
  BY <1>1, <1>2, <1>3, OnKey

\* SAGA Web answered without a key, or with none that is new: then none is
\* pending.
LEMMA CaptureNothingKey ==
    ASSUME IInv, Typed, KeyInv, NEW w \in Workers, CaptureNothing(w)
    PROVE  Typed' /\ KeyInv'
<1>1. /\ Others(w) /\ SameJob(w) /\ job'[w].stage = "captured"
      /\ job'[w].status = job[w].status /\ job'[w].answer = job[w].answer
  BY FieldNames DEF IInv, Sound, CaptureNothing, Others, SameJob
<1>2. /\ Active(w) /\ ~NewKey(w) /\ job[w].kind \in {"read", "import"}
      /\ UNCHANGED <<provider, row, accepted, issued>> /\ spoiled' = spoiled
  BY DEF CaptureNothing, Active
<1>3. /\ ~Pending(w)' /\ job'[w].stage \in Stages
      /\ job'[w].answer \in [Fields -> Nat]
  BY <1>1 DEF Pending, Stages, Typed
<1>4. ASSUME Good, Pending(w) PROVE FALSE
  <2>1. Fine(w) /\ provider = "saga_web" /\ job[w].key = Current(job[w].copy)
    BY <1>2, <1>4 DEF Good, Fine, Typed, Suits
  <2>2. ~Long /\ Switching
    BY <2>1, ProviderIs, Ways DEF Long, Switching
  <2>3. provider # "tiktok" /\ job[w].copy.refresh = 0
    BY <2>1, <2>2 DEF Fine, Held
  <2>4. Outcome(w).access = job[w].answer.access /\ Outcome(w).refresh = 0
    BY <1>2, <2>1, <2>2, <2>3, OutcomeIs
  <2>5. Current(Outcome(w)) = job[w].answer.access
    BY <2>4 DEF Current
  <2>6. Current(Outcome(w)) # 0
    BY <1>4, <2>1, AcceptedIs DEF Fine
  <2>7. Current(Outcome(w)) # job[w].key
    BY <1>2, <1>4, <2>1, <2>2 DEF Good, Unknown
  <2> QED
    BY <1>2, <2>5, <2>6, <2>7 DEF NewKey
<1>5. CASE spoiled
  <2>1. Typed'
    <3>1. /\ row' \in [Fields -> Nat] /\ issued' \in Nat
          /\ accepted' \subseteq 1..issued' /\ provider' = provider
          /\ job'[w].kind \in Kinds /\ Suits(job'[w].kind)
          /\ job'[w].copy \in [Fields -> Nat] /\ job'[w].key \in Nat
      BY <1>1, <1>2 DEF Typed, SameJob
    <3> QED
      BY <1>1, <1>3, <3>1, TypedKept
  <2> QED
    BY <1>2, <1>5, <2>1 DEF KeyInv
<1>6. CASE ~spoiled
  <2>1. Good /\ Fine(w)
    BY <1>2, <1>6 DEF KeyInv, Good
  <2>2. job[w].status = "refused" => job[w].answer = NoAnswer
    BY <2>1 DEF Fine
  <2> QED
    BY <1>1, <1>2, <1>3, <1>4, <2>1, <2>2, OnKey
<1> QED
  BY <1>5, <1>6

LEMMA SaveFailsKey ==
    ASSUME IInv, Typed, KeyInv, NEW w \in Workers, SaveFails(w) \/ Die(w)
    PROVE  Typed' /\ KeyInv'
<1>1. /\ Finished(w) /\ Active(w)
      /\ UNCHANGED <<provider, row, accepted, issued>>
      /\ spoiled => spoiled'
      /\ ~spoiled' => Current(row) \in accepted
  BY DEF SaveFails, Die, Active
<1> QED
  BY <1>1, EndKey

\* A refusal carries nothing; of the answers that cannot be used, the one
\* adapter that looks at them keeps its refresh token for good.
LEMMA RaiseKey ==
    ASSUME IInv, Typed, KeyInv, NEW w \in Workers, Raise(w)
    PROVE  Typed' /\ KeyInv'
<1>1. /\ Finished(w) /\ Active(w)
      /\ UNCHANGED <<provider, row, accepted, issued>> /\ spoiled' = spoiled
      /\ \/ job[w].stage = "captured" \/ job[w].status = "refused"
         \/ provider = "pinterest"
  BY DEF Raise, Active, Usable
<1>2. ASSUME Good, Pending(w) PROVE Current(row) \in accepted
  <2>1. job[w].status # "refused" /\ job[w].stage # "captured"
    BY <1>1, <1>2 DEF Good, Fine, Pending
  <2>2. provider = "pinterest"
    BY <1>1, <2>1
  <2>3. ~Switching
    BY <2>2 DEF Switching, Rotating
  <2> QED
    BY <1>2, <2>3 DEF Good, Lasting
<1> QED
  BY <1>1, <1>2, EndKey

LEMMA OutcomeTyped ==
    ASSUME Typed, NEW w \in Workers, Active(w)
    PROVE  Outcome(w) \in [Fields -> Nat]
<1> DEFINE c == job[w].copy
           a == job[w].answer
           s == job[w].key
<1>1. /\ c \in [Fields -> Nat] /\ a \in [Fields -> Nat] /\ s \in Nat
      /\ a.refresh \in Nat /\ job[w].kind \in Kinds /\ provider \in Providers
  BY ProviderIs, Fielded DEF Typed
<1>2. CASE job[w].kind = "authorize"
  <2>1. provider \in OAuthProviders
    BY <1>1, <1>2, Ways DEF Typed, Suits
  <2>2. Outcome(w) = Merged(c, Both(a)) \/ Outcome(w) = Merged(c, AccessOnly(a))
    BY <1>2, <2>1, ExchangeIs DEF Outcome, Patch
  <2> QED
    BY <1>1, <2>2, BothIs, AccessOnlyIs
<1>3. CASE job[w].kind = "refresh"
  <2>1. provider \in OAuthProviders \ Permanent
    BY <1>1, <1>3, Ways DEF Typed, Suits
  <2>2. \/ Outcome(w) = Merged(c, AccessOnly(a))
        \/ Outcome(w) = Merged(c, KeepSent(a, a.refresh))
        \/ Outcome(w) = Merged(c, KeepSent(a, s))
    BY <1>3, <2>1, RefreshIs DEF Outcome, Patch
  <2>3. /\ Merged(c, KeepSent(a, a.refresh)) \in [Fields -> Nat]
        /\ Merged(c, KeepSent(a, s)) \in [Fields -> Nat]
    BY ONLY <1>1, KeepSentIs
  <2> QED
    BY <1>1, <2>2, <2>3, AccessOnlyIs
<1>4. CASE job[w].kind \in {"read", "import"}
  <2>1. Outcome(w) = Merged(c, AccessOnly(a))
    BY <1>4 DEF Outcome, Patch, SagaWebPatch
  <2> QED
    BY <1>1, <2>1, AccessOnlyIs
<1> QED
  BY <1>1, <1>2, <1>3, <1>4 DEF Kinds

LEMMA CaptureKey ==
    ASSUME IInv, Typed, KeyInv, NEW w \in Workers, Capture(w)
    PROVE  Typed' /\ KeyInv'
<1>1. /\ Others(w) /\ job'[w].stage = "captured" /\ job'[w].copy = row'
      /\ job'[w].key = job[w].answer.access
      /\ job'[w].kind = job[w].kind /\ job'[w].alone = job[w].alone
      /\ job'[w].status = job[w].status /\ job'[w].answer = job[w].answer
  BY FieldNames DEF IInv, Sound, Capture, Others, ClientKey
<1>2. /\ Active(w) /\ NewKey(w) /\ job[w].stage = "answered"
      /\ job[w].kind \in {"read", "import"}
      /\ row' = Outcome(w)
      /\ UNCHANGED <<provider, accepted, issued>> /\ spoiled' = spoiled
  BY DEF Capture, Active, Outcome
<1>3. /\ row' = Merged(job[w].copy, AccessOnly(job[w].answer))
      /\ job[w].copy \in [Fields -> Nat] /\ job[w].answer \in [Fields -> Nat]
      /\ job[w].kind \in Kinds
  BY <1>2 DEF Outcome, Patch, SagaWebPatch, Typed
<1>4. /\ row' \in [Fields -> Nat] /\ row'.access = job[w].answer.access
      /\ row'.refresh = job[w].copy.refresh
      /\ job[w].answer.access \in Nat
  BY <1>3, AccessOnlyIs, Fielded
<1>5. Typed'
  <2>1. /\ issued' \in Nat /\ accepted' \subseteq 1..issued'
        /\ provider' = provider
    BY <1>2 DEF Typed
  <2>2. /\ job'[w].kind \in Kinds /\ job'[w].stage \in Stages
        /\ Suits(job'[w].kind)
        /\ job'[w].copy \in [Fields -> Nat]
        /\ job'[w].answer \in [Fields -> Nat] /\ job'[w].key \in Nat
    BY <1>1, <1>2, <1>3, <1>4 DEF Stages, Typed
  <2> QED
    BY <1>1, <1>4, <2>1, <2>2, TypedKept
<1>6. ASSUME ~spoiled' PROVE Good'
  <2>1. Good /\ Fine(w)
    BY <1>2, <1>6 DEF KeyInv, Good
  <2>2. provider = "saga_web"
    BY <1>2 DEF Typed, Suits
  <2>3. job[w].copy.refresh = 0
    BY <2>1, <2>2, ProviderIs, Ways DEF Fine, Held, Long
  <2>4. job'[w].key = Current(row')
    BY <1>1, <1>4, <2>3 DEF Current
  <2>5. Pending(w)
    BY <1>2, NoAnswerIs DEF Pending, NewKey
  <2>6. ~Pending(w)'
    BY <1>1 DEF Pending
  <2> QED
    BY <1>1, <1>2, <2>1, <2>4, <2>5, <2>6, Stored
<1> QED
  BY <1>5, <1>6 DEF KeyInv

LEMMA ApplyKey ==
    ASSUME IInv, Typed, KeyInv, NEW w \in Workers, Apply(w)
    PROVE  Typed' /\ KeyInv'
<1>1. /\ Finished(w) /\ Active(w) /\ job[w].stage = "answered"
      /\ row' = Outcome(w)
      /\ UNCHANGED <<provider, accepted, issued>>
      /\ spoiled => spoiled'
      /\ job[w].answer = NoAnswer /\ Current(row') \notin accepted => spoiled'
  BY DEF Apply, Active, Outcome
<1>2. Others(w) /\ ~Active(w)' /\ ~Pending(w)'
  BY <1>1, FinishedIs
<1>3. Typed'
  BY <1>1, FinishedIs, OutcomeTyped DEF Outcome
<1>4. ASSUME ~spoiled' PROVE Good'
  <2>1. Good
    BY <1>1, <1>4 DEF KeyInv
  <2>2. Pending(w) \/ Current(Outcome(w)) \in accepted
    BY <1>1, <1>4 DEF Pending
  <2> QED
    BY <1>1, <1>2, <2>1, <2>2, Stored
<1> QED
  BY <1>3, <1>4 DEF KeyInv

\* A job that begins has a copy of the row; it is alone as long as no other is
\* under way.
LEMMA BeginKey ==
    ASSUME IInv, Typed, KeyInv, NEW w \in Workers, NEW k \in Kinds, Begin(w, k)
    PROVE  Typed' /\ KeyInv'
<1> DEFINE busy == \E v \in Workers : Active(v)
           started == [Idle EXCEPT !.kind = k, !.stage = "ready", !.copy = row,
                         !.key = CASE k = "refresh"   -> Current(row)
                                   [] k = "authorize" -> 0
                                   [] OTHER           -> row.access,
                         !.alone = ~busy]
<1>1. /\ job' = [v \in Workers |->
                   IF v = w THEN started
                   ELSE IF Active(v) THEN [job[v] EXCEPT !.alone = FALSE]
                   ELSE job[v]]
      /\ ~Active(w) /\ Wanted(k)
      /\ UNCHANGED <<provider, row, accepted, issued>> /\ spoiled' = spoiled
  BY DEF Begin
<1>2. /\ started.kind = k /\ started.stage = "ready" /\ started.copy = row
      /\ started.key = (CASE k = "refresh"   -> Current(row)
                          [] k = "authorize" -> 0
                          [] OTHER           -> row.access)
      /\ started.status = "none" /\ started.answer = NoAnswer
      /\ started.alone = ~busy
  BY DEF Idle, NoAnswer
<1> HIDE DEF started
<1>3. /\ row \in [Fields -> Nat] /\ Current(row) \in Nat
      /\ row.access \in Nat /\ provider \in Providers
      /\ issued \in Nat /\ accepted \subseteq 1..issued
  BY CurrentIs, Fielded, ProviderIs DEF Typed
<1>4. job'[w] = started
  BY <1>1
<1>5. ASSUME NEW v \in Workers, v # w
      PROVE  /\ job'[v].kind = job[v].kind /\ job'[v].stage = job[v].stage
             /\ job'[v].copy = job[v].copy /\ job'[v].key = job[v].key
             /\ job'[v].status = job[v].status
             /\ job'[v].answer = job[v].answer
             /\ Active(v) => ~job'[v].alone
  <2>1. CASE Active(v)
    <3>1. job'[v] = [job[v] EXCEPT !.alone = FALSE]
      BY <1>1, <1>5, <2>1
    <3> QED
      BY <3>1, FieldNames DEF IInv, Sound
  <2>2. CASE ~Active(v)
    <3>1. job'[v] = job[v]
      BY <1>1, <1>5, <2>2
    <3> QED
      BY <2>2, <3>1
  <2> QED
    BY <2>1, <2>2
<1>6. started.key \in Nat
  BY <1>2, <1>3 DEF Kinds
<1>7. Suits(k)
  BY <1>1 DEF Wanted, RefreshDue, Kinds, Suits
<1>8. Typed'
  <2>1. ASSUME NEW v \in Workers
        PROVE  /\ job'[v].kind \in Kinds /\ job'[v].stage \in Stages
               /\ job'[v].copy \in [Fields -> Nat]
               /\ job'[v].answer \in [Fields -> Nat] /\ job'[v].key \in Nat
               /\ job'[v].stage # "none" => Suits(job'[v].kind)
    <3>1. CASE v = w
      BY <1>2, <1>3, <1>4, <1>6, <1>7, <3>1, NoAnswerIs DEF Stages
    <3>2. CASE v # w
      BY <1>5, <3>2 DEF Typed, Active
    <3> QED
      BY <3>1, <3>2
  <2>2. /\ provider' \in Setups /\ row' \in [Fields -> Nat]
        /\ issued' \in Nat /\ accepted' \subseteq 1..issued'
    BY <1>1 DEF Typed
  <2> QED
    BY <1>1, <2>1, <2>2 DEF Typed, Suits, Active
<1>9. ASSUME ~spoiled' PROVE Good'
  <2>1. Good
    BY <1>1, <1>9 DEF KeyInv
  <2>2. /\ Long' <=> Long
        /\ Switching' <=> Switching
        /\ Held(row)' <=> Held(row)
        /\ Current(row)' = Current(row)
    BY <1>1 DEF Long, Switching, Held, Current
  <2>3. ASSUME NEW v \in Workers, v # w
        PROVE  /\ Active(v)' <=> Active(v)
               /\ Pending(v)' <=> Pending(v)
               /\ Outcome(v)' = Outcome(v)
    BY <1>1, <1>5, <2>3 DEF Active, Pending, Outcome, Patch
  <2>4. ~Pending(w)
    BY <1>1 DEF Active, Pending
  <2>5. /\ ~Pending(w)' /\ job'[w].copy = row
        /\ job'[w].alone => ~busy
    BY <1>2, <1>4 DEF Pending
  <2>6. k # "authorize" => started.key = Current(row)
    <3>1. CASE k \in {"read", "import"}
      <4>1. provider = "saga_web"
        BY <1>1, <3>1 DEF Wanted
      <4>2. row.refresh = 0
        BY <1>3, <2>1, <4>1, Ways DEF Good, Held, Long
      <4> QED
        BY <1>2, <3>1, <4>2 DEF Current
    <3>2. CASE k = "refresh"
      BY <1>2, <3>2
    <3> QED
      BY <3>1, <3>2 DEF Kinds
  <2>8. Fine(w)'
    <3>1. Held(job[w].copy)'
      BY <1>1, <2>1, <2>5 DEF Good, Held, Long
    <3> QED
      BY <1>1, <1>2, <1>4, <2>5, <2>6, <3>1 DEF Fine
  <2>9. ASSUME NEW v \in Workers, v # w, Active(v) PROVE Fine(v)'
    <3>1. Fine(v)
      BY <2>1, <2>9 DEF Good
    <3>2. Held(job[v].copy)'
      BY <1>1, <1>5, <2>9, <3>1 DEF Fine, Held, Long
    <3>3. Pending(v) => Held(Outcome(v))' /\ Current(Outcome(v)') \in accepted'
      BY <1>1, <2>3, <2>9, <3>1 DEF Fine, Held, Long
    <3> QED
      BY <1>1, <1>5, <2>3, <2>9, <3>1, <3>2, <3>3 DEF Fine
  <2>10. ASSUME NEW v \in Workers, Active(v)' PROVE Fine(v)'
    BY <2>3, <2>8, <2>9, <2>10
  <2>11. (Current(row) \in accepted \/ \E v \in Workers : Pending(v))'
    <3>1. CASE Current(row) \in accepted
      BY <1>1, <2>2, <3>1
    <3>2. CASE Current(row) \notin accepted
      <4>1. PICK v \in Workers : Pending(v)
        BY <2>1, <3>2 DEF Good
      <4> QED
        BY <2>3, <2>4, <4>1
    <3> QED
      BY <3>1, <3>2
  <2>12. ASSUME Switching, NEW v \in Workers, Pending(v)' PROVE Unknown(v)'
    <3>1. v # w /\ Pending(v) /\ Outcome(v)' = Outcome(v) /\ Unknown(v)
      BY <2>1, <2>3, <2>5, <2>12 DEF Good
    <3>2. ASSUME NEW u \in Workers, Active(u)'
          PROVE  /\ Current(Outcome(v)) # Current(job'[u].copy)
                 /\ Pending(u)' /\ u # v =>
                      Current(Outcome(v)) # Current(Outcome(u)')
      <4>1. CASE u = w
        BY <2>5, <3>1, <4>1 DEF Unknown
      <4>2. CASE u # w
        BY <1>5, <2>3, <3>1, <3>2, <4>2 DEF Unknown
      <4> QED
        BY <4>1, <4>2
    <3> QED
      BY <2>2, <3>1, <3>2 DEF Unknown
  <2>13. ASSUME ~Switching PROVE Lasting'
    <3>1. Lasting
      BY <2>1, <2>13 DEF Good
    <3>2. ASSUME NEW v \in Workers, Active(v)'
          PROVE  Current(job'[v].copy) \in accepted
      <4>1. CASE v = w
        BY <2>5, <3>1, <4>1 DEF Lasting
      <4>2. CASE v # w
        BY <1>5, <2>3, <3>1, <3>2, <4>2 DEF Lasting
      <4> QED
        BY <4>1, <4>2
    <3> QED
      BY <1>1, <2>2, <3>1, <3>2 DEF Lasting
  <2>14. ASSUME NEW v \in Workers, Active(v)', job'[v].alone
         PROVE  Undisturbed(v)'
    <3>1. v = w
      BY <1>5, <2>3, <2>14
    <3>2. ~busy
      BY <2>5, <2>14, <3>1
    <3>3. ASSUME NEW u \in Workers, Active(u)' PROVE u = w
      BY <2>3, <3>2, <3>3
    <3>4. /\ Current(job'[w].copy) = Current(row)'
          /\ job'[w].status # "refused"
      BY <1>2, <1>4, <2>2, <2>5
    <3> QED
      BY <3>1, <3>3, <3>4 DEF Undisturbed
  <2>15. /\ provider' # "tiktok" /\ Held(row)'
         /\ provider' = "saga_web" => accepted' = {issued'}
    BY <1>1, <2>1, <2>2 DEF Good
  <2> QED
    BY <2>2, <2>10, <2>11, <2>12, <2>13, <2>14, <2>15 DEF Good
<1> QED
  BY <1>8, <1>9 DEF KeyInv

\* The operator sets new credentials: unless jobs are under way, which hold
\* older ones, all is well from here.
LEMMA RotateKey ==
    ASSUME IInv, Typed, KeyInv, RotateCredentials
    PROVE  Typed' /\ KeyInv'
<1> DEFINE new == Latest(GrantAnswer)
<1>1. /\ row' = GrantAnswer /\ issued' = new
      /\ accepted' = (IF provider = "saga_web" THEN {} ELSE accepted) \cup {new}
      /\ spoiled' = \/ \E w \in Workers : Active(w)
                    \/ provider \in Forgetting \cap Rotating
      /\ job' = job /\ provider' = provider
  BY DEF RotateCredentials
<1>2. /\ issued \in Nat /\ accepted \subseteq 1..issued
      /\ provider \in Setups /\ provider \in Providers
  BY ProviderIs DEF Typed
<1>3. /\ GrantAnswer \in [Fields -> Nat]
      /\ GrantAnswer.access = issued + 1
      /\ GrantAnswer.refresh = IF Long THEN issued + 2 ELSE 0
      /\ new = IF Long THEN issued + 2 ELSE issued + 1
      /\ Current(GrantAnswer) = new
  BY <1>2, PairIs DEF GrantAnswer, Long, Latest, Current
<1> HIDE DEF new
<1>4. new \in Nat /\ new # 0 /\ issued <= new
  BY <1>2, <1>3
<1>5. Typed'
  <2>1. accepted' \subseteq 1..issued'
    <3>1. accepted \subseteq 1..new /\ new \in 1..new
      BY <1>2, <1>4
    <3> QED
      BY <1>1, <3>1
  <2> QED
    BY <1>1, <1>2, <1>3, <1>4, <2>1 DEF Typed, Suits, Active
<1>6. ASSUME ~spoiled' PROVE Good'
  <2>1. /\ \A w \in Workers : ~Active(w)' /\ ~Pending(w)'
        /\ provider \notin Forgetting \cap Rotating
    BY <1>1, <1>6 DEF Active, Pending
  <2>2. provider' # "tiktok"
    BY <1>1, <2>1 DEF Forgetting, Rotating
  <2>3. provider' = "saga_web" => accepted' = {issued'}
    BY <1>1
  <2>4. Current(row') \in accepted'
    BY <1>1, <1>3
  <2>5. Held(row)'
    <3>1. Long' <=> Long
      BY <1>1 DEF Long
    <3>2. Current(row') <= issued'
      BY <1>1, <1>3, <1>4
    <3>3. IF Long THEN row'.refresh # 0 ELSE row'.refresh = 0
      BY <1>1, <1>2, <1>3
    <3> QED
      BY <3>1, <3>2, <3>3 DEF Held
  <2>6. Lasting'
    BY <2>1, <2>4 DEF Lasting
  <2> QED
    BY <2>1, <2>2, <2>3, <2>4, <2>5, <2>6 DEF Good
<1> QED
  BY <1>5, <1>6 DEF KeyInv

LEMMA RestKey ==
    ASSUME Typed, KeyInv, UNCHANGED <<provider, row, accepted, issued, job,
                                      spoiled>>
    PROVE  Typed' /\ KeyInv'
<1>1. ASSUME NEW w \in Workers
      PROVE  /\ Active(w)' <=> Active(w)
             /\ Pending(w)' <=> Pending(w)
             /\ Outcome(w)' = Outcome(w)
  BY Same
<1>2. Typed'
  BY DEF Typed, Suits, Active
<1>3. /\ Long' <=> Long
      /\ Switching' <=> Switching
  BY DEF Long, Switching
<1>4. ASSUME Good PROVE Good'
  <2>1. ASSUME NEW w \in Workers, Fine(w) PROVE Fine(w)'
    BY <1>1, <1>3, <2>1 DEF Fine, Held
  <2>2. ASSUME NEW w \in Workers, Unknown(w) PROVE Unknown(w)'
    BY <1>1, <2>2 DEF Unknown
  <2>3. ASSUME NEW w \in Workers, Undisturbed(w) PROVE Undisturbed(w)'
    BY <1>1, <2>3 DEF Undisturbed
  <2>4. Lasting => Lasting'
    BY <1>1 DEF Lasting
  <2>5. Held(row) => Held(row)'
    BY <1>3 DEF Held
  <2> QED
    BY <1>1, <1>3, <1>4, <2>1, <2>2, <2>3, <2>4, <2>5 DEF Good
<1> QED
  BY <1>2, <1>4 DEF KeyInv

LEMMA InitKey == Init => Typed /\ KeyInv
<1> SUFFICES ASSUME Init PROVE Typed /\ KeyInv
  OBVIOUS
<1> DEFINE first == [access  |-> 1,
                     refresh |-> IF provider \in Steady \cup Rotating
                                 THEN 2 ELSE 0]
<1>1. /\ provider \in Setups /\ provider \in Providers
      /\ row = IF provider = "saga_web" THEN first
               ELSE Merged(NoAnswer, ExchangePatch(provider, first))
      /\ accepted = {Latest(first)} /\ issued = Latest(first)
      /\ job = [w \in Workers |-> Idle]
      /\ spoiled = (provider \in Forgetting)
  BY SetupsAssumption DEF Init
<1>2. /\ first \in [Fields -> Nat] /\ first.access = 1
      /\ first.refresh = IF Long THEN 2 ELSE 0
      /\ Latest(first) = IF Long THEN 2 ELSE 1
  BY PairIs DEF Long, Latest
<1> HIDE DEF first
<1>3. row \in [Fields -> Nat]
  <2>1. CASE provider = "saga_web"
    BY <1>1, <1>2, <2>1
  <2>2. CASE provider # "saga_web"
    <3>1. provider \in OAuthProviders
      BY <1>1, <2>2, Ways
    <3>2. \/ row = Merged(NoAnswer, Both(first))
          \/ row = Merged(NoAnswer, AccessOnly(first))
      BY <1>1, <2>2, <3>1, ExchangeIs
    <3> QED
      BY <1>2, <3>2, NoAnswerIs, BothIs, AccessOnlyIs
  <2> QED
    BY <2>1, <2>2
<1>4. issued \in Nat /\ accepted \subseteq 1..issued /\ issued \in accepted
  BY <1>1, <1>2
<1>5. ASSUME NEW w \in Workers
      PROVE  job[w] = Idle /\ ~Active(w) /\ ~Pending(w)
  BY <1>1, IdleJob DEF Active, Pending
<1>6. Typed
  BY <1>1, <1>3, <1>4, <1>5, IdleJob, NoAnswerIs DEF Typed, Kinds, Stages
<1>7. ASSUME ~spoiled PROVE Good
  <2>1. provider \notin Forgetting /\ provider # "tiktok"
    BY <1>1, <1>7 DEF Forgetting
  <2>2. row.access = 1 /\ row.refresh = IF Long THEN 2 ELSE 0
    <3>1. CASE provider = "saga_web"
      BY <1>1, <1>2, <3>1
    <3>2. CASE provider # "saga_web"
      <4>1. provider \in OAuthProviders
        BY <1>1, <3>2, Ways
      <4>2. CASE Long
        <5>1. row = Merged(NoAnswer, Both(first))
          BY <1>1, <2>1, <3>2, <4>1, <4>2, ExchangeIs DEF Long
        <5> QED
          BY <1>2, <4>2, <5>1, NoAnswerIs, BothIs
      <4>3. CASE ~Long
        <5>1. row = Merged(NoAnswer, AccessOnly(first))
          BY <1>1, <2>1, <3>2, <4>1, <4>3, ExchangeIs DEF Long
        <5> QED
          BY <1>2, <4>3, <5>1, NoAnswerIs, AccessOnlyIs
      <4> QED
        BY <4>2, <4>3
    <3> QED
      BY <3>1, <3>2
  <2>3. Current(row) = issued
    BY <1>1, <1>2, <2>2 DEF Current
  <2>4. Held(row)
    BY <1>4, <2>2, <2>3 DEF Held
  <2>5. accepted = {issued}
    BY <1>1
  <2> QED
    BY <1>4, <1>5, <2>1, <2>3, <2>4, <2>5 DEF Good, Lasting
<1> QED
  BY <1>6, <1>7 DEF KeyInv

LEMMA StepKey ==
    IInv /\ Typed /\ KeyInv /\ [Next]_vars => Typed' /\ KeyInv'
<1> SUFFICES ASSUME IInv, Typed, KeyInv, [Next]_vars PROVE Typed' /\ KeyInv'
  OBVIOUS
<1>1. CASE Expire \/ UNCHANGED vars
  BY <1>1, RestKey DEF Expire, vars
<1>2. CASE RotateCredentials
  BY <1>2, RotateKey
<1>3. ASSUME NEW w \in Workers, NEW k \in Kinds, Begin(w, k)
      PROVE  Typed' /\ KeyInv'
  BY <1>3, BeginKey
<1>4. ASSUME NEW w \in Workers, Exchange(w) PROVE Typed' /\ KeyInv'
  <2>1. spoiled' = spoiled
    BY <1>4 DEF Exchange
  <2> QED
    BY <1>4, <2>1, ExchangeKey DEF KeyInv
<1>5. ASSUME NEW w \in Workers, Capture(w) PROVE Typed' /\ KeyInv'
  BY <1>5, CaptureKey
<1>6. ASSUME NEW w \in Workers, CaptureNothing(w) PROVE Typed' /\ KeyInv'
  BY <1>6, CaptureNothingKey
<1>7. ASSUME NEW w \in Workers, Apply(w) PROVE Typed' /\ KeyInv'
  BY <1>7, ApplyKey
<1>8. ASSUME NEW w \in Workers, Raise(w) PROVE Typed' /\ KeyInv'
  BY <1>8, RaiseKey
<1>9. ASSUME NEW w \in Workers, Conclude(w) PROVE Typed' /\ KeyInv'
  BY <1>9, ConcludeKey
<1>10. ASSUME NEW w \in Workers, NoReply(w) PROVE Typed' /\ KeyInv'
  BY <1>10, NoReplyKey
<1>11. ASSUME NEW w \in Workers, Junk(w) PROVE Typed' /\ KeyInv'
  BY <1>11, JunkKey
<1>12. ASSUME NEW w \in Workers, SaveFails(w) \/ Die(w) PROVE Typed' /\ KeyInv'
  BY <1>12, SaveFailsKey
<1> QED
  BY <1>1, <1>2, <1>3, <1>4, <1>5, <1>6, <1>7, <1>8, <1>9, <1>10, <1>11, <1>12
     DEF Next, Work

-----------------------------------------------------------------------------
(* The theorems                                                            *)

\* The key that the provider takes is in the row, or with a job that is about
\* to store it there, whatever provider it is, however many jobs use and replace
\* it at once, and however often: what loses it is a fault between the
\* provider's switch and the save, or an adapter that leaves it out.
THEOREM KeyIsKept == Spec => []KeyKept
<1>1. Init => IInv
  BY IdleSound DEF Init, IInv
<1>2. Typed /\ KeyInv => KeyKept
  <2> SUFFICES ASSUME Typed, Good PROVE KeyKept
    BY DEF KeyInv, KeyKept
  <2>1. CASE Current(row) \in accepted
    BY <2>1 DEF KeyKept
  <2>2. CASE Current(row) \notin accepted
    <3>1. PICK w \in Workers : Pending(w)
      BY <2>2 DEF Good
    <3>2. Current(Outcome(w)) \in accepted
      BY <3>1 DEF Good, Fine, Pending, Active
    <3> QED
      BY <3>1, <3>2 DEF KeyKept, Pending, Outcome
  <2> QED
    BY <2>1, <2>2
<1> QED
  BY <1>1, <1>2, InitKey, StepKeeps, StepKey, PTL DEF Spec

\* A job beside which no other ran is not refused its key: the key of its copy,
\* of the row and of the client stay the same, also over a retry after an answer
\* that brought a new one.
THEOREM NeverLockedOut == Spec => []NotLockedOut
<1>1. Init => IInv
  BY IdleSound DEF Init, IInv
<1>2. Init => NotLockedOut
  BY DEF Init, NotLockedOut
<1>3. Typed /\ KeyInv /\ NotLockedOut /\ [Next]_vars => NotLockedOut'
  <2> SUFFICES ASSUME KeyInv, NotLockedOut, [Next]_vars PROVE NotLockedOut'
    OBVIOUS
  <2>1. CASE lockout' = lockout
    BY <2>1 DEF NotLockedOut
  <2>2. ASSUME NEW w \in Workers, Raise(w) PROVE NotLockedOut'
    <3>1. Active(w)
      BY <2>2 DEF Raise, Active
    <3>2. ~(/\ job[w].status = "refused" /\ job[w].kind # "authorize"
            /\ job[w].alone /\ ~spoiled)
      BY <3>1 DEF KeyInv, Good, Undisturbed
    <3> QED
      BY <2>2, <3>2 DEF Raise, NotLockedOut
  <2>3. (\E w \in Workers : Raise(w)) \/ lockout' = lockout
    BY DEF Next, Work, Expire, RotateCredentials, Begin, Exchange, Capture,
           CaptureNothing, Apply, Conclude, NoReply, Junk, SaveFails, Die, vars
  <2> QED
    BY <2>1, <2>2, <2>3
<1> QED
  BY <1>1, <1>2, <1>3, InitKey, StepKeeps, StepKey, PTL DEF Spec


-----------------------------------------------------------------------------
(* Types, and how often a request is sent                                  *)

\* No job sends a request more often than the retry policy lets it, and the
\* provider acts at most once on each.
Counted(j) ==
    /\ j.status \in Statuses
    /\ j.tries \in 0..MaxTries
    /\ j.taken \in 0..j.tries
    /\ j.alone \in BOOLEAN
    /\ j.stage = "ready" => j.tries < MaxTries

Counters ==
    /\ due \in 0..MaxDue
    /\ granted \in 0..MaxAuthorize
    /\ faults \in 0..MaxFaults
    /\ spoiled \in BOOLEAN /\ lockout \in BOOLEAN

Bounded ==
    /\ \A w \in Workers : Counted(job[w])
    /\ live \subseteq 1..issued
    /\ Counters

LEMMA BoundedInit == Init => Bounded
<1> SUFFICES ASSUME Init PROVE Bounded
  OBVIOUS
<1>1. Counted(Idle)
  BY BoundsAssumption DEF Counted, Idle, Statuses
<1>2. issued \in Nat /\ issued >= 1
  BY DEF Init, Latest
<1>3. live \subseteq 1..issued
  BY <1>2 DEF Init
<1>4. spoiled = (provider \in Forgetting) /\ lockout = FALSE
      /\ due = 0 /\ granted = 0 /\ faults = 0
  BY DEF Init
<1>5. Counters
  <2>1. spoiled \in BOOLEAN /\ lockout \in BOOLEAN
    <3>1. lockout \in BOOLEAN
      BY <1>4
    <3>2. spoiled = TRUE \/ spoiled = FALSE
      BY <1>4
    <3> QED
      BY <3>1, <3>2
  <2>2. due \in 0..MaxDue /\ granted \in 0..MaxAuthorize
        /\ faults \in 0..MaxFaults
    BY <1>4, BoundsAssumption
  <2> QED
    BY <2>1, <2>2 DEF Counters
<1> QED
  BY <1>1, <1>3, <1>5 DEF Init, Bounded

\* A step of one job.
LEMMA OneCounted ==
    ASSUME Bounded, NEW w \in Workers, Counted(job'[w]),
           \A v \in Workers : v # w => job'[v] = job[v]
    PROVE  \A v \in Workers : Counted(job'[v])
<1> SUFFICES ASSUME NEW v \in Workers PROVE Counted(job'[v])
  OBVIOUS
<1>1. CASE v = w
  BY <1>1
<1>2. CASE v # w
  BY <1>2 DEF Bounded
<1> QED
  BY <1>1, <1>2

LEMMA FinishedCounted ==
    ASSUME IInv, Bounded, NEW w \in Workers, Finished(w)
    PROVE  \A v \in Workers : Counted(job'[v])
<1>1. Counted(Idle)
  BY BoundsAssumption DEF Counted, Idle, Statuses
<1>2. job'[w] = Idle /\ \A v \in Workers : v # w => job'[v] = job[v]
  BY DEF Finished, IInv
<1> QED
  BY <1>1, <1>2, OneCounted

\* An answer is one request more.
LEMMA AnsweredCounted ==
    ASSUME IInv, Bounded, NEW w \in Workers, job[w].stage = "ready",
           NEW status \in Statuses, NEW answer, Answered(w, status, answer)
    PROVE  \A v \in Workers : Counted(job'[v])
<1>1. /\ job'[w].stage = "answered" /\ job'[w].status = status
      /\ job'[w].tries = job[w].tries + 1
      /\ job'[w].taken = IF status = "refused" THEN job[w].taken
                                               ELSE job[w].taken + 1
      /\ job'[w].alone = job[w].alone
      /\ \A v \in Workers : v # w => job'[v] = job[v]
  BY FieldNames DEF IInv, Sound, Answered
<1>2. Counted(job[w]) /\ job[w].tries < MaxTries
  BY DEF Bounded, Counted
<1>3. Counted(job'[w])
  BY <1>1, <1>2, BoundsAssumption DEF Counted
<1> QED
  BY <1>1, <1>3, OneCounted

LEMMA ExchangeBounded ==
    ASSUME IInv, Typed, Typed', Bounded, NEW w \in Workers, Exchange(w)
    PROVE  Bounded'
<1>1. /\ job[w].stage = "ready"
      /\ issued \in Nat
      /\ UNCHANGED <<due, granted, faults, spoiled, lockout>>
  BY DEF Exchange, Typed
<1>2. Counters'
  BY <1>1 DEF Bounded, Counters
<1>3. {"ok", "error", "refused"} \subseteq Statuses
  BY DEF Statuses
<1>4. CASE SagaAnswers(w)
  <2>1. PICK status \in {"ok", "error"} :
          \/ /\ Answered(w, status, NoAnswer)
             /\ UNCHANGED <<accepted, issued>>
          \/ /\ issued < MaxIssued
             /\ issued' = issued + 1
             /\ accepted' = {issued'}
             /\ Answered(w, status, [access |-> issued', refresh |-> 0])
    BY <1>4 DEF SagaAnswers
  <2>2. status \in Statuses
    BY <1>3
  <2>3. \A v \in Workers : Counted(job'[v])
    BY <1>1, <2>1, <2>2, AnsweredCounted
  <2>4. live' = live /\ (issued' = issued \/ issued' = issued + 1)
    BY <1>4, <2>1 DEF SagaAnswers
  <2> QED
    BY <1>1, <1>2, <2>3, <2>4 DEF Bounded
<1>5. CASE RefreshAnswers(w)
  <2>1. \E answer : Answered(w, "ok", answer)
    BY <1>5 DEF RefreshAnswers
  <2>2. \A v \in Workers : Counted(job'[v])
    BY <1>1, <1>3, <2>1, AnsweredCounted
  <2>3. /\ live' = live \cup {issued + 1}
        /\ issued' = issued + 1 \/ issued' = issued + 2
    BY <1>1, <1>5 DEF RefreshAnswers
  <2> QED
    BY <1>1, <1>2, <2>2, <2>3 DEF Bounded
<1>6. CASE ExchangeAnswers(w)
  <2>1. Answered(w, "ok", GrantAnswer)
    BY <1>6 DEF ExchangeAnswers
  <2>2. \A v \in Workers : Counted(job'[v])
    BY <1>1, <1>3, <2>1, AnsweredCounted
  <2>3. /\ live' = live \cup {issued + 1}
        /\ issued' = issued + 1 \/ issued' = issued + 2
    BY <1>1, <1>6 DEF ExchangeAnswers, GrantAnswer, Latest
  <2> QED
    BY <1>1, <1>2, <2>2, <2>3 DEF Bounded
<1>7. CASE Refuses(w)
  <2>1. \A v \in Workers : Counted(job'[v])
    BY <1>1, <1>3, <1>7, AnsweredCounted DEF Refuses
  <2> QED
    BY <1>2, <1>7, <2>1 DEF Refuses, Bounded
<1> QED
  BY <1>4, <1>5, <1>6, <1>7 DEF Exchange

LEMMA BeginBounded ==
    ASSUME IInv, Bounded, NEW w \in Workers, NEW k \in Kinds, Begin(w, k)
    PROVE  Bounded'
<1> DEFINE busy == \E v \in Workers : Active(v)
           started == [Idle EXCEPT !.kind = k, !.stage = "ready", !.copy = row,
                         !.key = CASE k = "refresh"   -> Current(row)
                                   [] k = "authorize" -> 0
                                   [] OTHER           -> row.access,
                         !.alone = ~busy]
<1>1. /\ granted' = granted \/ (granted < MaxAuthorize
                                   /\ granted' = granted + 1)
      /\ UNCHANGED <<live, issued, due, faults, spoiled, lockout>>
  <2>1. Wanted(k) /\ granted' = granted + (IF k = "authorize" THEN 1 ELSE 0)
        /\ UNCHANGED <<live, issued, due, faults, spoiled, lockout>>
    BY DEF Begin
  <2>2. granted \in Nat
    BY BoundsAssumption DEF Bounded, Counters
  <2>3. k = "authorize" => granted < MaxAuthorize
    BY <2>1 DEF Wanted
  <2> QED
    BY <2>1, <2>2, <2>3
<1>2. Counters'
  BY <1>1, BoundsAssumption DEF Bounded, Counters
<1>4. job' = [v \in Workers |->
                IF v = w THEN started
                ELSE IF Active(v) THEN [job[v] EXCEPT !.alone = FALSE]
                ELSE job[v]]
  BY DEF Begin
<1>5. /\ started.status = Idle.status /\ started.tries = Idle.tries
      /\ started.taken = Idle.taken /\ started.alone \in BOOLEAN
  BY FieldNames DEF JobFields
<1> HIDE DEF started
<1>3. ASSUME NEW v \in Workers PROVE Counted(job'[v])
  <2>1. CASE v = w
    <3>1. /\ job'[v].status = Idle.status /\ job'[v].tries = Idle.tries
          /\ job'[v].taken = Idle.taken /\ job'[v].alone \in BOOLEAN
      BY <1>4, <1>5, <2>1
    <3>2. Idle.status = "none" /\ Idle.tries = 0 /\ Idle.taken = 0
      BY DEF Idle
    <3> QED
      BY <3>1, <3>2, BoundsAssumption DEF Counted, Statuses
  <2>2. CASE v # w
    <3>1. job'[v] = [job[v] EXCEPT !.alone = FALSE] \/ job'[v] = job[v]
      BY <1>4, <2>2, Zenon
    <3>2. Counted(job[v]) /\ DOMAIN job[v] = JobFields
      BY DEF Bounded, IInv, Sound
    <3>3. Counted([job[v] EXCEPT !.alone = FALSE])
      BY <3>2, FieldNames DEF Counted
    <3> QED
      BY <3>1, <3>2, <3>3
  <2> QED
    BY <2>1, <2>2
<1> QED
  BY <1>1, <1>2, <1>3 DEF Bounded

\* A request that is sent again has not used up the policy.
LEMMA AgainCounted ==
    ASSUME NEW j, DOMAIN j = JobFields, NEW tries, tries \in 0..MaxTries,
           tries < MaxTries, j.taken \in 0..tries, j.alone \in BOOLEAN
    PROVE  Counted([Again(j) EXCEPT !.tries = tries])
<1> DEFINE q == [Again(j) EXCEPT !.tries = tries]
<1>1. /\ q.status = "none" /\ q.tries = tries /\ q.taken = j.taken
      /\ q.alone = j.alone
  BY FieldNames DEF Again
<1> HIDE DEF q
<1>2. Counted(q)
  BY <1>1 DEF Counted, Statuses
<1> QED
  BY <1>2 DEF q

LEMMA NoReplyBounded ==
    ASSUME IInv, Bounded, NEW w \in Workers, NoReply(w)
    PROVE  Bounded'
<1> DEFINE tries == job[w].tries + (IF job[w].stage = "ready" THEN 1 ELSE 0)
<1>1. /\ faults < MaxFaults /\ faults' = faults + 1 /\ spoiled' \in BOOLEAN
      /\ UNCHANGED <<live, issued, due, granted, lockout>>
  BY DEF NoReply
<1>2. Counters'
  BY <1>1, BoundsAssumption DEF Bounded, Counters
<1>3. Counted(job[w]) /\ DOMAIN job[w] = JobFields /\ DOMAIN job = Workers
  BY DEF Bounded, IInv, Sound
<1>4. tries \in 0..MaxTries /\ job[w].taken \in 0..tries
  BY <1>3, BoundsAssumption DEF Counted
<1>5. \/ /\ tries < MaxTries
         /\ job' = [job EXCEPT ![w] = [Again(job[w]) EXCEPT !.tries = tries]]
      \/ Finished(w)
  BY DEF NoReply, MayRetry
<1> HIDE DEF tries
<1>6. \A v \in Workers : Counted(job'[v])
  <2>1. CASE Finished(w)
    BY <2>1, FinishedCounted
  <2>2. CASE /\ tries < MaxTries
             /\ job' = [job EXCEPT
                          ![w] = [Again(job[w]) EXCEPT !.tries = tries]]
    <3>1. Counted([Again(job[w]) EXCEPT !.tries = tries])
      BY <1>3, <1>4, <2>2, AgainCounted DEF Counted
    <3>2. /\ job'[w] = [Again(job[w]) EXCEPT !.tries = tries]
          /\ \A v \in Workers : v # w => job'[v] = job[v]
      BY <1>3, <2>2
    <3> QED
      BY <3>1, <3>2, OneCounted
  <2> QED
    BY <1>5, <2>1, <2>2
<1> QED
  BY <1>1, <1>2, <1>6 DEF Bounded

LEMMA ConcludeBounded ==
    ASSUME IInv, Bounded, NEW w \in Workers, Conclude(w)
    PROVE  Bounded'
<1>1. UNCHANGED <<live, issued, due, granted, faults, spoiled, lockout>>
  BY DEF Conclude
<1>2. Counted(job[w]) /\ DOMAIN job[w] = JobFields /\ DOMAIN job = Workers
  BY DEF Bounded, IInv, Sound
<1>3. \A v \in Workers : Counted(job'[v])
  <2>1. CASE Finished(w)
    BY <2>1, FinishedCounted
  <2>2. CASE /\ job[w].tries < MaxTries
             /\ job' = [job EXCEPT ![w] = Again(job[w])]
    <3>1. /\ Again(job[w]).status = "none"
          /\ Again(job[w]).tries = job[w].tries
          /\ Again(job[w]).taken = job[w].taken
          /\ Again(job[w]).alone = job[w].alone
      BY <1>2, FieldNames DEF Again
    <3>2. Counted(Again(job[w]))
      BY <1>2, <2>2, <3>1 DEF Counted, Statuses
    <3>3. /\ job'[w] = Again(job[w])
          /\ \A v \in Workers : v # w => job'[v] = job[v]
      BY <1>2, <2>2
    <3> QED
      BY <3>2, <3>3, OneCounted
  <2> QED
    BY <2>1, <2>2 DEF Conclude, MayRetry
<1> QED
  BY <1>1, <1>3 DEF Bounded, Counters

LEMMA JunkBounded ==
    ASSUME IInv, Bounded, NEW w \in Workers, Junk(w)
    PROVE  Bounded'
<1>1. /\ faults < MaxFaults /\ faults' = faults + 1
      /\ UNCHANGED <<live, issued, due, granted, spoiled, lockout>>
  BY DEF Junk
<1>2. Counters'
  BY <1>1, BoundsAssumption DEF Bounded, Counters
<1>3. /\ job'[w].stage = "answered" /\ job'[w].status = "ok"
      /\ job'[w].tries = job[w].tries + 1
      /\ job'[w].taken = job[w].taken /\ job'[w].alone = job[w].alone
      /\ \A v \in Workers : v # w => job'[v] = job[v]
  BY FieldNames DEF IInv, Sound, Junk
<1>4. Counted(job[w]) /\ job[w].tries < MaxTries
  BY DEF Bounded, Counted, Junk
<1>5. Counted(job'[w])
  BY <1>3, <1>4, BoundsAssumption DEF Counted, Statuses
<1>6. \A v \in Workers : Counted(job'[v])
  BY <1>3, <1>5, OneCounted
<1> QED
  BY <1>1, <1>2, <1>6 DEF Bounded

\* What a job does with its answer leaves its counters as they are.
LEMMA CapturedBounded ==
    ASSUME IInv, Bounded, NEW w \in Workers, Capture(w) \/ CaptureNothing(w)
    PROVE  Bounded'
<1>1. UNCHANGED <<live, issued, due, granted, faults, spoiled, lockout>>
  BY DEF Capture, CaptureNothing
<1>2. /\ job'[w].stage = "captured" /\ job'[w].status = job[w].status
      /\ job'[w].tries = job[w].tries /\ job'[w].taken = job[w].taken
      /\ job'[w].alone = job[w].alone
      /\ \A v \in Workers : v # w => job'[v] = job[v]
  <2>1. CASE Capture(w)
    BY <2>1, FieldNames DEF IInv, Sound, Capture
  <2>2. CASE CaptureNothing(w)
    BY <2>2, FieldNames DEF IInv, Sound, CaptureNothing
  <2> QED
    BY <2>1, <2>2
<1>3. Counted(job'[w])
  BY <1>2 DEF Bounded, Counted
<1>4. \A v \in Workers : Counted(job'[v])
  BY <1>2, <1>3, OneCounted
<1> QED
  BY <1>1, <1>4 DEF Bounded, Counters

\* The steps that end a job.
LEMMA EndBounded ==
    ASSUME IInv, Bounded, NEW w \in Workers,
           Apply(w) \/ Raise(w) \/ SaveFails(w) \/ Die(w)
    PROVE  Bounded'
<1>1. /\ Finished(w)
      /\ UNCHANGED <<live, issued, due, granted>>
      /\ faults' = faults \/ (faults < MaxFaults /\ faults' = faults + 1)
      /\ spoiled' = spoiled \/ spoiled' \in BOOLEAN
      /\ lockout' = lockout \/ lockout' \in BOOLEAN
  BY DEF Apply, Raise, SaveFails, Die
<1>2. Counters'
  BY <1>1, BoundsAssumption DEF Bounded, Counters
<1>3. \A v \in Workers : Counted(job'[v])
  BY <1>1, FinishedCounted
<1> QED
  BY <1>1, <1>2, <1>3 DEF Bounded

LEMMA OutsideBounded ==
    ASSUME Typed, Typed', Bounded, Expire \/ RotateCredentials
    PROVE  Bounded'
<1>1. issued \in Nat
  BY DEF Typed
<1>2. CASE Expire
  <2>1. Counters'
    BY <1>2, BoundsAssumption DEF Expire, Bounded, Counters
  <2> QED
    BY <1>2, <2>1 DEF Expire, Bounded
<1>3. CASE RotateCredentials
  <2>1. Counters'
    BY <1>3, BoundsAssumption DEF RotateCredentials, Bounded, Counters
  <2>2. /\ live' = live \cup {issued + 1}
        /\ issued' = issued + 1 \/ issued' = issued + 2
    BY <1>1, <1>3 DEF RotateCredentials, GrantAnswer, Latest
  <2>3. job' = job
    BY <1>3 DEF RotateCredentials
  <2> QED
    BY <1>1, <2>1, <2>2, <2>3 DEF Bounded
<1> QED
  BY <1>2, <1>3

LEMMA StepBounded ==
    IInv /\ Typed /\ Typed' /\ Bounded /\ [Next]_vars => Bounded'
<1> SUFFICES ASSUME IInv, Typed, Typed', Bounded, [Next]_vars PROVE Bounded'
  OBVIOUS
<1>1. CASE UNCHANGED vars
  BY <1>1 DEF vars, Bounded, Counters
<1>2. CASE Next
  BY <1>2, ExchangeBounded, BeginBounded, NoReplyBounded, ConcludeBounded,
     JunkBounded, CapturedBounded, EndBounded, OutsideBounded DEF Next, Work
<1> QED
  BY <1>1, <1>2

\* The row, what the provider takes and the jobs have their types, with any
\* number of jobs, and none of them sends its request more often than the retry
\* policy lets it, whatever answers are lost (MAX_RETRIES of the client of SAGA
\* Web, and the retry of the HTTP client below the token requests).
THEOREM TypeCorrect == Spec => []TypeOK
<1>1. Init => IInv
  BY IdleSound DEF Init, IInv
<1>2. Typed /\ Bounded => TypeOK
  <2> SUFFICES ASSUME Typed, Bounded PROVE TypeOK
    OBVIOUS
  <2>1. ASSUME NEW w \in Workers
        PROVE  /\ job[w].tries \in 0..MaxTries
               /\ job[w].taken \in 0..MaxTries
    BY BoundsAssumption DEF Bounded, Counted
  <2> QED
    BY <2>1 DEF Typed, Bounded, Counted, Counters, TypeOK
<1> QED
  BY <1>1, <1>2, BoundedInit, StepBounded, InitKey, StepKeeps, StepKey, PTL
     DEF Spec
=============================================================================
