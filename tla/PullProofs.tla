---------------------------- MODULE PullProofs ----------------------------
(***************************************************************************)
(* Proofs about PullSync, for any products, settings and bounds, and       *)
(* whether or not products change during a walk: the state keeps its types *)
(* (the resume cursor stays within the listing), and on_item is never      *)
(* called with a change of our own whose marker our link was given.  Where *)
(* a filtered walk is whole and undisturbed, no change behind the          *)
(* watermark was passed over.                                              *)
(***************************************************************************)
EXTENDS PullSync, FiniteSetTheorems, FunctionTheorems, TLAPS

-----------------------------------------------------------------------------
(* The cursor stays within the listing                                     *)

LEMMA Quotient ==
    ASSUME NEW x \in Nat, NEW y \in Nat \ {0}
    PROVE  x \div y \in Nat /\ x \div y <= x
<1>1. x = y * (x \div y) + (x % y) /\ x % y \in Nat /\ x \div y \in Nat
  BY SMTT(30)
<1>2. \A q \in Nat : q <= y * q
  BY SMTT(30)
<1> QED
  BY <1>1, <1>2, SMTT(30)

\* A full page is not empty, and some product stands before its end.
LEMMA FullPageInListing ==
    ASSUME TypeOK, NEW n \in Nat, NEW since \in Times, HasMore(n, since)
    PROVE  n + 1 <= MaxCursor
<1>1. setting.page_size \in Nat \ {0}
  BY SettingsAssumption DEF TypeOK, Setting
<1>2. /\ IsFiniteSet(Products)
      /\ Cardinality(Products) \in Nat
  BY BoundsAssumption, FS_CardinalityType
<1>3. Page(n, since) # {}
  BY <1>1, FS_EmptySet DEF HasMore
<1>4. PICK p \in Listed(since) : Position(p, since) \div setting.page_size = n - 1
  BY <1>3 DEF Page
<1> DEFINE ahead == {q \in Listed(since) : Before(q, p, since)}
<1>5. ahead \subseteq Products
  BY DEF Listed
<1>6. /\ Position(p, since) \in Nat
      /\ Position(p, since) <= Cardinality(Products)
  <2>1. IsFiniteSet(ahead) /\ Cardinality(ahead) <= Cardinality(Products)
    BY <1>2, <1>5, FS_Subset
  <2>2. Cardinality(ahead) \in Nat
    BY <2>1, FS_CardinalityType
  <2> QED
    BY <2>1, <2>2 DEF Position
<1>7. n - 1 <= Cardinality(Products)
  BY <1>1, <1>2, <1>4, <1>6, Quotient
<1> QED
  BY <1>2, <1>7 DEF MaxCursor

-----------------------------------------------------------------------------
(* Types and stamps                                                        *)

\* Stamps are made by the clock, and nothing known, listed or sent is newer than
\* the product.  A change of ours that is said to be saved has its marker in the
\* link, and the answers push has not saved yet are of no such change.
Marked ==
    \A p \in Products :
        /\ modified[p] # 0 /\ modified[p] <= clock
        /\ known[p] <= modified[p]
        /\ run.page[p] <= modified[p]
        /\ push.sent[p] <= modified[p]
        /\ origin[p] = "saved" => setting.markers /\ marker[p] = modified[p]
        /\ push.sent[p] # 0 => origin[p] # "saved"

\* A full page stands within the listing.
Within == run.more => PageNumber + 1 <= MaxCursor

IInv == TypeOK /\ Marked /\ Within

LEMMA Saved == IInv => NoEcho
<1> SUFFICES ASSUME IInv, NEW p \in Handed, origin[p] = "saved" PROVE FALSE
  BY DEF NoEcho
<1>1. p \in Products /\ ~IsEcho(p)
  BY DEF Handed, Page, Listed
<1> QED
  BY <1>1 DEF IInv, Marked, IsEcho

\* The constants the types are made of.
LEMMA Bounds ==
    /\ Cardinality(Products) \in Nat /\ MaxCursor \in Nat
    /\ 1 \in 1..MaxClock /\ 0 \in Times /\ 1 \in Times
    /\ 0 \in 0..MaxCursor
    /\ Unmarked \in [Products -> Times]
<1>1. Cardinality(Products) \in Nat
  BY BoundsAssumption, FS_CardinalityType
<1> QED
  BY <1>1, BoundsAssumption DEF Times, MaxCursor, Unmarked

LEMMA NoneTyped == NoRun \in Run /\ NoPush \in Push
BY Bounds DEF Run, NoRun, Push, NoPush

LEMMA InitKeeps == Init => IInv
<1> SUFFICES ASSUME Init PROVE IInv
  OBVIOUS
<1>1. sync \in SyncRow
  BY Bounds DEF Init, SyncRow
<1>2. TypeOK
  BY <1>1, Bounds, NoneTyped DEF Init, TypeOK, Origins
<1>3. Marked /\ Within
  BY DEF Init, Marked, Within, NoRun, NoPush, Unmarked
<1> QED
  BY <1>2, <1>3 DEF IInv

\* What the parts of the state are.
LEMMA Typed ==
    ASSUME IInv
    PROVE  /\ clock \in Nat /\ clock \in Times /\ clock # 0
           /\ modified \in [Products -> Nat] /\ modified \in [Products -> Times]
           /\ known \in [Products -> Nat] /\ known \in [Products -> Times]
           /\ marker \in [Products -> Nat] /\ marker \in [Products -> Times]
           /\ origin \in [Products -> Origins]
           /\ sync \in SyncRow /\ run \in Run /\ push \in Push
           /\ run.page \in [Products -> Nat] /\ run.page \in [Products -> Times]
           /\ push.sent \in [Products -> Nat]
           /\ push.sent \in [Products -> Times]
           /\ setting \in Settings /\ setting.bound \in 1..MaxClock
           /\ setting.page_size \in Nat \ {0} /\ setting.max_pages \in Nat
<1>1. clock \in Nat /\ clock \in Times /\ clock # 0 /\ Times \subseteq Nat
  BY BoundsAssumption DEF IInv, TypeOK, Times
<1>2. /\ modified \in [Products -> Times] /\ known \in [Products -> Times]
      /\ marker \in [Products -> Times] /\ origin \in [Products -> Origins]
      /\ sync \in SyncRow /\ run \in Run /\ push \in Push
      /\ setting \in Settings
  BY DEF IInv, TypeOK
<1>3. run.page \in [Products -> Times] /\ push.sent \in [Products -> Times]
  BY <1>2 DEF Run, Push
<1>4. /\ setting.bound \in 1..MaxClock
      /\ setting.page_size \in Nat \ {0} /\ setting.max_pages \in Nat
  BY <1>2, SettingsAssumption DEF Setting
<1> QED
  BY <1>1, <1>2, <1>3, <1>4

\* A change of a product, ours or another's, is stamped by the clock.
LEMMA ChangeKeeps ==
    ASSUME IInv, NEW p \in Products, RemoteEdit(p) \/ Send(p)
    PROVE  IInv'
<1>1. /\ clock + 1 \in 1..MaxClock /\ clock + 1 \in Times /\ clock' = clock + 1
      /\ modified' = [modified EXCEPT ![p] = clock + 1]
      /\ UNCHANGED <<marker, sync, run, setting>>
  <2>1. clock < setting.bound
    BY DEF RemoteEdit, Send, Change
  <2> QED
    BY <2>1, Typed, BoundsAssumption DEF Times, RemoteEdit, Send, Change
<1>2. \/ /\ origin' = [origin EXCEPT ![p] = "provider"]
         /\ known' = known /\ push' = push
      \/ /\ origin' = [origin EXCEPT ![p] = "sent"]
         /\ known' \in {known, [known EXCEPT ![p] = clock + 1]}
         /\ push' = [push EXCEPT !.sent[p] = clock + 1]
  BY Typed DEF RemoteEdit, Send, Change
<1>3. push' \in Push /\ push'.sent \in [Products -> Times]
      /\ \/ push'.sent = push.sent
         \/ push'.sent = [push.sent EXCEPT ![p] = clock + 1]
  BY <1>1, <1>2, Typed DEF Push
<1>4. TypeOK'
  BY <1>1, <1>2, <1>3, Typed DEF IInv, TypeOK, Origins
<1>5. ASSUME NEW q \in Products
      PROVE  /\ modified'[q] # 0 /\ modified'[q] <= clock'
             /\ known'[q] <= modified'[q]
             /\ run'.page[q] <= modified'[q]
             /\ push'.sent[q] <= modified'[q]
             /\ origin'[q] = "saved" => setting'.markers
                                        /\ marker'[q] = modified'[q]
             /\ push'.sent[q] # 0 => origin'[q] # "saved"
  <2>1. CASE q = p
    BY <1>1, <1>2, <1>3, <2>1, Typed DEF IInv, Marked
  <2>2. CASE q # p
    BY <1>1, <1>2, <1>3, <2>2, Typed DEF IInv, Marked
  <2> QED
    BY <2>1, <2>2
<1>6. Within'
  BY <1>1 DEF IInv, Within, PageNumber
<1> QED
  BY <1>4, <1>5, <1>6 DEF IInv, Marked

\* A link is saved: only the marker of the last change makes it "saved".
LEMMA SaveLinkKeeps ==
    ASSUME IInv, NEW p \in Products, NEW answer \in {"told", "untold", "lost"},
           SaveLink(p, answer)
    PROVE  IInv'
<1>1. /\ push.sent[p] # 0
      /\ answer = "told" => setting.markers
      /\ UNCHANGED <<clock, modified, known, sync, run, setting>>
      /\ push' = [stage |-> "saving", sent |-> [push.sent EXCEPT ![p] = 0]]
  BY DEF SaveLink
<1>2. /\ marker' \in [Products -> Times]
      /\ \A q \in Products \ {p} : marker'[q] = marker[q]
      /\ answer = "told" => marker'[p] = push.sent[p]
  BY Typed, Bounds DEF SaveLink
<1>3. /\ origin' \in [Products -> Origins]
      /\ \A q \in Products \ {p} : origin'[q] = origin[q]
      /\ \/ origin'[p] = origin[p]
         \/ answer = "told" /\ push.sent[p] = modified[p]
  BY Typed DEF SaveLink, Origins
<1>4. /\ push' \in Push
      /\ push'.sent[p] = 0
      /\ \A q \in Products \ {p} : push'.sent[q] = push.sent[q]
  BY <1>1, Typed, Bounds DEF Push
<1>5. TypeOK'
  BY <1>1, <1>2, <1>3, <1>4 DEF IInv, TypeOK
<1>6. Marked'
  BY <1>1, <1>2, <1>3, <1>4, Typed DEF IInv, Marked
<1>7. Within'
  BY <1>1 DEF IInv, Within, PageNumber
<1> QED
  BY <1>5, <1>6, <1>7 DEF IInv

\* The start and the end of a push touch no product and no link.
LEMMA PushKeeps ==
    ASSUME IInv, StartPush \/ EndPush \/ \E dies \in BOOLEAN : FailPush(dies)
    PROVE  IInv'
<1>1. /\ UNCHANGED <<clock, modified, origin, marker, known, run, setting>>
      /\ push' \in Push /\ push'.sent = Unmarked
  BY Bounds DEF StartPush, EndPush, FailPush, links, Push, NoPush
<1>2. sync' \in SyncRow
  BY Typed DEF StartPush, EndPush, FailPush, Taken, SyncRow
<1>3. TypeOK'
  BY <1>1, <1>2 DEF IInv, TypeOK
<1>4. Marked'
  BY <1>1, Typed DEF IInv, Marked, Unmarked
<1>5. Within'
  BY <1>1 DEF IInv, Within, PageNumber
<1> QED
  BY <1>3, <1>4, <1>5 DEF IInv

\* A page is listed: what it is to hand over is stamped as it was listed.
LEMMA ListKeeps ==
    ASSUME IInv, List
    PROVE  IInv'
<1> DEFINE page == [p \in Products |-> IF p \in Handed THEN modified[p] ELSE 0]
           more == HasMore(PageNumber, run.since)
<1>1. /\ run' = [run EXCEPT !.stage = "listed", !.page = page, !.more = more]
      /\ UNCHANGED <<clock, modified, origin, marker, known, sync, push, setting>>
  BY DEF List, links
<1>2. page \in [Products -> Times] /\ \A p \in Products : page[p] <= modified[p]
  BY Typed, Bounds
<1>3. more \in BOOLEAN
  BY DEF HasMore
<1> HIDE DEF page, more
<1>4. run' \in Run /\ run'.page = page /\ run'.more = more
      /\ run'.cursor = run.cursor
  BY <1>1, <1>2, <1>3, Typed DEF Run
<1>5. TypeOK'
  BY <1>1, <1>4 DEF IInv, TypeOK
<1>6. Marked'
  BY <1>1, <1>2, <1>4 DEF IInv, Marked
<1>7. Within'
  <2>1. PageNumber \in Nat /\ run.since \in Times
    BY Typed, Bounds DEF PageNumber, Run
  <2>2. more => PageNumber + 1 <= MaxCursor
    BY <2>1, FullPageInListing DEF more, IInv
  <2> QED
    BY <1>4, <2>2 DEF Within, PageNumber
<1> QED
  BY <1>5, <1>6, <1>7 DEF IInv

\* What the run becomes when its page was handled.
LEMMA WalkRuns ==
    ASSUME IInv, NEW refused \in SUBSET Products, Walk(refused)
    PROVE  run' \in Run /\ run'.page = Unmarked /\ run'.more = FALSE
<1> DEFINE cursor == IF run.more THEN PageNumber + 1 ELSE 0
           stage == IF ~run.more THEN "done"
                    ELSE IF setting.max_pages # 0
                            /\ run.pages + 1 >= setting.max_pages
                    THEN "partial" ELSE "walking"
<1>1. cursor \in 0..MaxCursor
  <2>1. PageNumber \in Nat
    BY Typed, Bounds DEF PageNumber, Run
  <2> QED
    BY <2>1, Bounds DEF IInv, Within
<1>2. stage \in {"walking", "partial", "done"}
  OBVIOUS
<1>3. run' = [run EXCEPT !.pages = run.pages + 1, !.page = Unmarked,
                         !.more = FALSE, !.cursor = cursor, !.stage = stage]
  BY DEF Walk
<1> HIDE DEF cursor, stage
<1> DEFINE r0 == [run EXCEPT !.pages = run.pages + 1]
           r1 == [r0 EXCEPT !.page = Unmarked, !.more = FALSE]
           r2 == [r1 EXCEPT !.cursor = cursor]
           r3 == [r2 EXCEPT !.stage = stage]
<1>4. r1 \in Run /\ r1.page = Unmarked /\ r1.more = FALSE
  <2>1. r0 \in Run
    BY Typed DEF Run
  <2> HIDE DEF r0
  <2> QED
    BY <2>1, Bounds DEF Run
<1>5. run' = r3
  BY <1>3
<1> HIDE DEF r1
<1>6. r2 \in Run /\ r2.page = Unmarked /\ r2.more = FALSE
  BY <1>1, <1>4 DEF Run
<1> HIDE DEF r2
<1>7. r3 \in Run /\ r3.page = Unmarked /\ r3.more = FALSE
  BY <1>2, <1>6 DEF Run
<1> QED
  BY <1>5, <1>7

\* A page: the markers of what was applied are those it was listed with.
LEMMA WalkKeeps ==
    ASSUME IInv, NEW refused \in SUBSET Products, Walk(refused)
    PROVE  IInv'
<1> DEFINE applied == {p \in Products : run.page[p] # 0} \ refused
<1>1. /\ Applied(applied)
      /\ UNCHANGED <<clock, modified, sync, push, setting>>
      /\ known' = [p \in Products |->
                     IF run.page[p] > known[p] THEN run.page[p] ELSE known[p]]
  BY DEF Walk
<1> HIDE DEF applied
<1>2. run' \in Run /\ run'.page = Unmarked /\ run'.more = FALSE
  BY WalkRuns
<1>3. /\ marker' \in [Products -> Times] /\ origin' \in [Products -> Origins]
      /\ known' \in [Products -> Times]
  BY <1>1, Typed, Bounds DEF Applied, Origins
<1>4. TypeOK'
  BY <1>1, <1>2, <1>3 DEF IInv, TypeOK
<1>5. ASSUME NEW p \in Products
      PROVE  /\ known'[p] <= modified[p]
             /\ origin'[p] = "saved"
                  => /\ origin[p] = "saved" /\ setting.markers
                     /\ marker'[p] = modified[p]
  BY <1>1, <1>5, Typed DEF IInv, Marked, Applied
<1>6. Marked'
  BY <1>1, <1>2, <1>5, Typed DEF IInv, Marked, Unmarked
<1>7. Within'
  BY <1>2 DEF Within
<1> QED
  BY <1>4, <1>6, <1>7 DEF IInv

\* The saves at the start and at the end of a run touch no product.
LEMMA SaveKeeps ==
    ASSUME IInv,
           \/ \E full \in BOOLEAN : Start(full)
           \/ EndPartial \/ ClearCursor \/ EndComplete
           \/ Fail \/ Crash \/ Age
    PROVE  IInv'
<1>1. UNCHANGED <<clock, modified, origin, marker, known, push, setting>>
  BY DEF Start, EndPartial, ClearCursor, EndComplete, Fail, Crash, Age, links
<1>2. /\ sync \in SyncRow /\ run \in Run /\ clock \in Times
      /\ 0 \in Times /\ 0 \in 0..MaxCursor /\ NoRun \in Run
  BY Typed, Bounds, NoneTyped
<1>3. /\ sync' \in SyncRow /\ run' \in Run
      /\ \/ run' = NoRun
         \/ run'.page = Unmarked /\ run'.more = FALSE
         \/ /\ run'.page = run.page /\ run'.more = run.more
            /\ run'.cursor = run.cursor
  <2>1. CASE \E full \in BOOLEAN : Start(full)
    <3>1. PICK full \in BOOLEAN : Start(full)
      BY <2>1
    <3>2. sync' \in SyncRow
      BY <1>2, <3>1 DEF Start, Taken, SyncRow
    <3> DEFINE since == IF full \/ ~setting.supports_since THEN 0
                                                     ELSE sync.last_sync_at
    <3>3. since \in Times /\ sync.cursor \in 0..MaxCursor
      BY <1>2 DEF SyncRow
    <3>4. run' = [NoRun EXCEPT !.stage = "walking", !.started = clock,
                               !.since = since, !.cursor = sync.cursor]
      BY <3>1 DEF Start
    <3> HIDE DEF since
    <3>5. run' \in Run /\ run'.page = Unmarked /\ run'.more = FALSE
      BY <1>2, <3>3, <3>4, Bounds DEF Run, NoRun
    <3> QED
      BY <3>2, <3>5
  <2>2. CASE EndPartial
    <3>1. KeptWatermark \in Times
      BY <1>2 DEF KeptWatermark, SyncRow
    <3>2. sync' \in SyncRow
      BY <1>2, <2>2, <3>1 DEF EndPartial, SyncRow, Run
    <3> QED
      BY <1>2, <2>2, <3>2 DEF EndPartial
  <2>3. CASE ClearCursor
    <3>1. sync' \in SyncRow
      BY <1>2, <2>3 DEF ClearCursor, SyncRow
    <3>2. /\ run' \in Run /\ run'.page = run.page /\ run'.more = run.more
          /\ run'.cursor = run.cursor
      BY <1>2, <2>3 DEF ClearCursor, Run
    <3> QED
      BY <3>1, <3>2
  <2>4. CASE EndComplete
    <3> DEFINE s1 == [sync EXCEPT !.status = "completed"]
               s2 == [s1 EXCEPT !.fresh = TRUE]
               s3 == [s2 EXCEPT !.last_sync_at = run.started]
    <3>1. sync' = s3
      BY <2>4 DEF EndComplete, NewWatermark
    <3>2. s1 \in SyncRow
      BY <1>2 DEF SyncRow
    <3> HIDE DEF s1
    <3>3. s2 \in SyncRow
      BY <3>2 DEF SyncRow
    <3> HIDE DEF s2
    <3>4. s3 \in SyncRow
      BY <1>2, <3>3 DEF SyncRow, Run
    <3> QED
      BY <1>2, <2>4, <3>1, <3>4 DEF EndComplete
  <2>5. CASE Fail
    BY <1>2, <2>5 DEF Fail, SyncRow
  <2>6. CASE Crash
    BY <1>2, <2>6 DEF Crash
  <2>7. CASE Age
    BY <1>2, <2>7 DEF Age, SyncRow
  <2> QED
    BY <2>1, <2>2, <2>3, <2>4, <2>5, <2>6, <2>7
<1>4. TypeOK'
  BY <1>1, <1>3 DEF IInv, TypeOK
<1>5. Marked'
  BY <1>1, <1>3, Typed DEF IInv, Marked, NoRun, Unmarked
<1>6. Within'
  <2>1. NoRun.more = FALSE
    BY DEF NoRun
  <2> QED
    BY <1>3, <2>1 DEF IInv, Within, PageNumber
<1> QED
  BY <1>4, <1>5, <1>6 DEF IInv

LEMMA StepKeeps == IInv /\ [Next]_vars => IInv'
<1> SUFFICES ASSUME IInv, [Next]_vars PROVE IInv'
  OBVIOUS
<1>1. CASE \E p \in Products : RemoteEdit(p) \/ Send(p)
  BY <1>1, ChangeKeeps
<1>2. CASE StartPush \/ EndPush \/ \E dies \in BOOLEAN : FailPush(dies)
  BY <1>2, PushKeeps
<1>3. CASE \E p \in Products, answer \in {"told", "untold", "lost"} :
             SaveLink(p, answer)
  BY <1>3, SaveLinkKeeps
<1>4. CASE List
  BY <1>4, ListKeeps
<1>5. CASE \E refused \in SUBSET Products : Walk(refused)
  BY <1>5, WalkKeeps
<1>6. CASE \/ \E full \in BOOLEAN : Start(full)
           \/ EndPartial \/ ClearCursor \/ EndComplete
           \/ Fail \/ Crash \/ Age
  BY <1>6, SaveKeeps
<1>7. CASE UNCHANGED vars
  BY <1>7 DEF vars, links, IInv, TypeOK, Marked, Within, PageNumber
<1> QED
  BY <1>1, <1>2, <1>3, <1>4, <1>5, <1>6, <1>7 DEF Next, Proceed, ProceedPush

LEMMA Inductive == Spec => []IInv
BY InitKeeps, StepKeeps, PTL DEF Spec

-----------------------------------------------------------------------------
(* The theorems                                                            *)

\* The state keeps its types: in particular the resume cursor that is saved and
\* sent never leads more than a page past the listing.
THEOREM TypeCorrect == Spec => []TypeOK
<1>1. IInv => TypeOK
  BY DEF IInv
<1> QED
  BY <1>1, Inductive, PTL

\* on_item is never called with a change our own push made whose marker reached
\* our link: whatever was lost, failed or died in between, whatever another push
\* or a page that was listed before put into the link, and even where products
\* are pushed whose last change was never pulled.
THEOREM OwnChangesStayOut == Spec => []NoEcho
BY Saved, Inductive, PTL

-----------------------------------------------------------------------------
(* No change is passed over                                                *)

\* Where the theorem holds: we push no product whose last change we have not
\* seen, and pushes do not move the watermark of the pulls; a walk that is
\* filtered by modification is whole and undisturbed.
SeenBeforePush == PushesUnseen = FALSE

OwnRow == \A s \in Settings : ~s.shared

WholeWalks ==
    \A s \in Settings : s.supports_since => s.at_rest /\ s.max_pages = 0

\* Every change up to t is known.
KnownUntil(t) ==
    \A p \in Products : modified[p] <= t => known[p] = modified[p]

\* A change whose marker is in the link, or on its way there, is known: the echo
\* that is not handed to on_item is no news.  Only the initial stamp is shared by two products.
Stamped ==
    \A p \in Products :
        /\ marker[p] <= clock
        /\ marker[p] = modified[p] => known[p] = modified[p]
        /\ push.sent[p] = modified[p] => known[p] = modified[p]
        /\ \A q \in Products \ {p} :
             modified[p] = modified[q] => modified[p] <= 1

\* The products on the pages the run has handled.
Read(p) ==
    /\ p \in Listed(run.since)
    /\ Position(p, run.since) < run.pages * setting.page_size

\* The watermark and the bounds of the run, and what is known up to them.
Watermarks ==
    setting.supports_since =>
        /\ sync.cursor = 0
        /\ sync.last_sync_at <= clock
        /\ sync.last_sync_at # 0 => KnownUntil(sync.last_sync_at)
        /\ run.stage # "partial"
        /\ run.since <= clock
        /\ run.since # 0 => KnownUntil(run.since)
        /\ run.stage # "none" => run.started # 0 /\ run.started <= clock
        /\ run.stage \in {"done", "cleared"} => KnownUntil(run.started)
        /\ run.stage \in {"walking", "listed"} =>
             run.cursor = IF run.pages = 0 THEN 0 ELSE run.pages + 1
        /\ run.stage = "listed" =>
             /\ run.more = HasMore(PageNumber, run.since)
             /\ \A p \in Page(PageNumber, run.since) :
                  run.page[p] = modified[p] \/ known[p] = modified[p]
        /\ MidWalk => \A p \in Products : Read(p) => known[p] = modified[p]

\* The products stand in some order.
LEMMA OrderGiven ==
    /\ Order \in [Products -> 1..Cardinality(Products)]
    /\ \A p, q \in Products : p # q => Order[p] # Order[q]
<1> DEFINE N == Cardinality(Products)
           Fixed(f) == \A p, q \in Products : p # q => f[p] # f[q]
<1>1. ExistsBijection(Products, 1..N)
  BY BoundsAssumption, FS_CardinalityType, Fun_ExistsBijSymmetric
<1>2. PICK f \in Bijection(Products, 1..N) : TRUE
  BY <1>1, Fun_ExistsBij
<1>3. f \in [Products -> 1..N] /\ Fixed(f)
  BY <1>2, Fun_BijectionProperties
<1>4. Order = CHOOSE g \in [Products -> 1..N] : Fixed(g)
  BY DEF Order
<1> HIDE DEF Fixed, N
<1>5. Order \in [Products -> 1..N] /\ Fixed(Order)
  BY <1>3, <1>4
<1> QED
  BY <1>5 DEF Fixed, N

\* Counting those before an element numbers the elements from zero, without gaps.
LEMMA Ranks ==
    ASSUME NEW L, IsFiniteSet(L), NEW r \in [L -> Nat],
           \A p, q \in L : r[p] = r[q] => p = q,
           NEW pos,
           pos = [p \in L |-> Cardinality({q \in L : r[q] < r[p]})]
    PROVE  /\ pos \in [L -> 0..(Cardinality(L) - 1)]
           /\ \A p, q \in L : pos[p] = pos[q] => p = q
           /\ \A k \in 0..(Cardinality(L) - 1) : \E p \in L : pos[p] = k
<1> DEFINE N == Cardinality(L)
           ahead == [p \in L |-> {q \in L : r[q] < r[p]}]
<1>1. N \in Nat
  BY FS_CardinalityType
<1>2. \A p \in L : pos[p] = Cardinality(ahead[p])
  OBVIOUS
<1>3. ASSUME NEW p \in L
      PROVE  /\ pos[p] \in Nat
             /\ Cardinality(ahead[p] \cup {p}) = pos[p] + 1
             /\ IsFiniteSet(ahead[p])
  <2>1. ahead[p] \subseteq L /\ p \notin ahead[p]
    OBVIOUS
  <2> HIDE DEF ahead
  <2>2. IsFiniteSet(ahead[p]) /\ Cardinality(ahead[p]) \in Nat
    BY <2>1, FS_Subset, FS_CardinalityType
  <2>3. Cardinality(ahead[p] \cup {p}) = Cardinality(ahead[p]) + 1
    BY <2>1, <2>2, FS_AddElement
  <2> QED
    BY <1>2, <2>2, <2>3
<1>4. ASSUME NEW p \in L, NEW q \in L, r[p] < r[q]
      PROVE  pos[p] < pos[q]
  <2>1. ahead[p] \cup {p} \subseteq ahead[q]
    BY <1>4
  <2>2. Cardinality(ahead[p] \cup {p}) <= Cardinality(ahead[q])
    BY <1>3, <2>1, FS_Subset
  <2>3. pos[p] + 1 <= pos[q] /\ pos[p] \in Nat /\ pos[q] \in Nat
    BY <1>2, <1>3, <2>2
  <2> QED
    BY <2>3
<1>5. ASSUME NEW p \in L
      PROVE  pos[p] \in 0..(N - 1)
  <2>1. ahead[p] \cup {p} \subseteq L
    OBVIOUS
  <2>2. Cardinality(ahead[p] \cup {p}) <= N
    BY <2>1, FS_Subset
  <2>3. pos[p] + 1 <= N /\ pos[p] \in Nat
    BY <1>3, <2>2
  <2> HIDE DEF N
  <2> QED
    BY <1>1, <2>3
<1> HIDE DEF ahead
<1>6. \A p, q \in L : pos[p] = pos[q] => p = q
  <2> SUFFICES ASSUME NEW p \in L, NEW q \in L, p # q
               PROVE  pos[p] # pos[q]
    OBVIOUS
  <2>1. r[p] < r[q] \/ r[q] < r[p]
    OBVIOUS
  <2>2. pos[p] < pos[q] \/ pos[q] < pos[p]
    BY <1>4, <2>1
  <2>3. pos[p] \in Nat /\ pos[q] \in Nat
    BY <1>3
  <2> QED
    BY <2>2, <2>3
<1>7. pos \in [L -> 0..(N - 1)]
  BY <1>5
<1>8. IsFiniteSet(0..(N - 1)) /\ Cardinality(0..(N - 1)) = N
  <2>1. IsFiniteSet(0..(N - 1))
    BY <1>1, FS_Interval
  <2>2. Cardinality(0..(N - 1)) = IF 0 > N - 1 THEN 0 ELSE (N - 1) - 0 + 1
    BY <1>1, FS_Interval
  <2> QED
    BY <1>1, <2>1, <2>2
<1>9. \A k \in 0..(N - 1) : \E p \in L : pos[p] = k
  <2> DEFINE T == 0..(N - 1)
  <2>1. pos \in [L -> T] /\ IsFiniteSet(T) /\ Cardinality(L) = Cardinality(T)
    BY <1>7, <1>8
  <2> HIDE DEF T, N
  <2>2. \A t \in T : \E p \in L : pos[p] = t
    <3>1. \A a, b \in L : pos[a] = pos[b] => a = b
      BY <1>6
    <3>2. pos \in Injection(L, T)
      BY <2>1, <3>1, Fun_IsInj
    <3>3. pos \in Surjection(L, T)
      BY <2>1, <3>2, FS_Injection
    <3> QED
      BY <3>3, Fun_SurjectionProperties
  <2> QED
    BY <2>2 DEF T
<1> QED
  BY <1>6, <1>7, <1>9

\* A slice of the numbering that something stands behind is full.
LEMMA FullSlice ==
    ASSUME NEW L, NEW N \in Nat, NEW pos \in [L -> 0..(N - 1)],
           \A p, q \in L : pos[p] = pos[q] => p = q,
           \A k \in 0..(N - 1) : \E p \in L : pos[p] = k,
           NEW a \in Nat, NEW b \in Nat, a <= b,
           NEW last \in L, pos[last] >= b
    PROVE  Cardinality({p \in L : a <= pos[p] /\ pos[p] < b}) = b - a
<1> DEFINE S == {p \in L : a <= pos[p] /\ pos[p] < b}
           T == a..(b - 1)
           f == [p \in S |-> pos[p]]
<1>1. f \in [S -> T]
  OBVIOUS
<1>2. \A p, q \in S : f[p] = f[q] => p = q
  OBVIOUS
<1>3. \A k \in T : \E p \in S : f[p] = k
  <2> SUFFICES ASSUME NEW k \in T PROVE \E p \in S : f[p] = k
    OBVIOUS
  <2>1. k \in 0..(N - 1) /\ a <= k /\ k < b
    OBVIOUS
  <2>2. PICK p \in L : pos[p] = k
    BY <2>1
  <2>3. p \in S /\ f[p] = k
    BY <2>1, <2>2
  <2> QED
    BY <2>3
<1>4. IsFiniteSet(T) /\ Cardinality(T) = b - a
  <2>1. IsFiniteSet(T)
    BY FS_Interval
  <2>2. Cardinality(T) = IF a > b - 1 THEN 0 ELSE (b - 1) - a + 1
    BY FS_Interval
  <2> QED
    BY <2>1, <2>2
<1> HIDE DEF S, T, f
<1>5. f \in Bijection(S, T)
  BY <1>1, <1>2, <1>3, Fun_IsBij
<1>6. ExistsBijection(T, S)
  BY <1>5, Fun_ExistsBij, Fun_ExistsBijSymmetric
<1>7. Cardinality(S) = b - a
  BY <1>4, <1>6, FS_Bijection
<1> QED
  BY <1>7 DEF S

\* The n-th slice of s elements, counting from zero.
LEMMA Slice ==
    ASSUME NEW x \in Nat, NEW s \in Nat \ {0}, NEW n \in Nat
    PROVE  x \div s = n <=> n * s <= x /\ x < (n + 1) * s
<1>1. /\ x = s * (x \div s) + (x % s)
      /\ x % s \in 0..(s - 1)
      /\ x \div s \in Nat
  BY SMTT(30)
<1> DEFINE d == x \div s
           m == x % s
<1> HIDE DEF d, m
<1>2. x = s * d + m /\ m \in 0..(s - 1) /\ d \in Nat
  BY <1>1 DEF d, m
<1>3. n * s = s * n /\ (n + 1) * s = s * n + s
  BY SMTT(30)
<1>4. CASE d = n
  BY <1>2, <1>3, <1>4, SMTT(30) DEF d
<1>5. CASE d < n
  <2>1. PICK e \in Nat : n = d + 1 + e
    <3>1. n - d - 1 \in Nat /\ n = d + 1 + (n - d - 1)
      BY <1>2, <1>5
    <3> QED BY <3>1
  <2>2. s * n = s * d + s + s * e /\ s * e \in Nat
    BY <1>2, <2>1, SMTT(30)
  <2>3. x < s * n
    BY <1>2, <2>2
  <2> QED BY <1>2, <1>3, <1>5, <2>3 DEF d
<1>6. CASE d > n
  <2>1. PICK e \in Nat : d = n + 1 + e
    <3>1. d - n - 1 \in Nat /\ d = n + 1 + (d - n - 1)
      BY <1>2, <1>6
    <3> QED BY <3>1
  <2>2. s * d = s * n + s + s * e /\ s * e \in Nat /\ s * n \in Nat
    BY <1>2, <2>1, SMTT(30)
  <2>3. x >= s * n + s
    BY <1>2, <2>2
  <2> QED BY <1>2, <1>3, <1>6, <2>2, <2>3 DEF d
<1> QED BY <1>2, <1>4, <1>5, <1>6

\* What precedes a product in the listing is counted, page by page.
LEMMA Pages ==
    ASSUME TypeOK, NEW since \in Times, NEW n \in Nat
    PROVE  /\ \A p \in Listed(since) : Position(p, since) \in Nat
           /\ Page(n + 1, since) =
                {p \in Listed(since) :
                   /\ n * setting.page_size <= Position(p, since)
                   /\ Position(p, since) < (n + 1) * setting.page_size}
<1>1. setting.page_size \in Nat \ {0}
  BY SettingsAssumption DEF TypeOK, Setting
<1>2. ASSUME NEW p \in Listed(since)
      PROVE  Position(p, since) \in Nat
  <2> DEFINE ahead == {q \in Listed(since) : Before(q, p, since)}
  <2>1. ahead \subseteq Products
    BY DEF Listed
  <2> HIDE DEF ahead
  <2>2. Cardinality(ahead) \in Nat
    BY <2>1, BoundsAssumption, FS_Subset, FS_CardinalityType
  <2> QED
    BY <2>2 DEF Position, ahead
<1>3. (n + 1) - 1 = n
  OBVIOUS
<1>4. \A p \in Listed(since) :
        Position(p, since) \div setting.page_size = n
          <=> /\ n * setting.page_size <= Position(p, since)
              /\ Position(p, since) < (n + 1) * setting.page_size
  BY <1>1, <1>2, Slice
<1>5. Page(n + 1, since) =
        {p \in Listed(since) : Position(p, since) \div setting.page_size = n}
  BY <1>3 DEF Page
<1> QED
  BY <1>2, <1>4, <1>5

\* A page that something stands behind is full, so the walk goes on to it.
LEMMA MoreBehind ==
    ASSUME TypeOK, Marked, Stamped, NEW since \in Times, NEW n \in Nat,
           NEW last \in Listed(since),
           Position(last, since) >= (n + 1) * setting.page_size
    PROVE  HasMore(n + 1, since)
<1> DEFINE L == Listed(since)
           size == setting.page_size
           r == [p \in L |-> IF since > 0 THEN modified[p] ELSE Order[p]]
           pos == [p \in L |-> Position(p, since)]
<1>1. size \in Nat \ {0}
  BY SettingsAssumption DEF TypeOK, Setting
<1>2. IsFiniteSet(L) /\ L \subseteq Products
  <2>1. L \subseteq Products
    BY DEF Listed
  <2> HIDE DEF L
  <2> QED
    BY <2>1, BoundsAssumption, FS_Subset
<1>3. Cardinality(L) \in Nat
  BY <1>2, FS_CardinalityType
<1>4. r \in [L -> Nat]
  <2>1. \A p \in Products : modified[p] \in Nat /\ Order[p] \in Nat
    BY OrderGiven DEF TypeOK, Times
  <2> QED
    BY <1>2, <2>1
<1>5. \A p, q \in L : r[p] = r[q] => p = q
  <2> SUFFICES ASSUME NEW p \in L, NEW q \in L, p # q
               PROVE  r[p] # r[q]
    OBVIOUS
  <2>1. p \in Products /\ q \in Products
    BY <1>2
  <2>2. CASE since > 0
    <3>1. r[p] = modified[p] /\ r[q] = modified[q]
      BY <2>2
    <3>2. modified[p] > since /\ modified[p] \in Nat /\ since \in Nat
      BY <2>1, <2>2 DEF Listed, TypeOK, Times
    <3>3. modified[p] = modified[q] => modified[p] <= 1
      BY <2>1 DEF Stamped
    <3> QED
      BY <2>2, <3>1, <3>2, <3>3
  <2>3. CASE ~(since > 0)
    <3>1. r[p] = Order[p] /\ r[q] = Order[q]
      BY <2>3
    <3> QED
      BY <2>1, <3>1, OrderGiven
  <2> QED
    BY <2>2, <2>3
<1>6. \A p, q \in L : Before(q, p, since) <=> r[q] < r[p]
  BY DEF Before
<1>7. \A p \in L :
        Position(p, since) = Cardinality({q \in L : r[q] < r[p]})
  <2> SUFFICES ASSUME NEW p \in L
               PROVE  Position(p, since) = Cardinality({q \in L : r[q] < r[p]})
    OBVIOUS
  <2>1. {q \in Listed(since) : Before(q, p, since)} = {q \in L : r[q] < r[p]}
    BY <1>6
  <2> QED
    BY <2>1 DEF Position
<1>8. pos = [p \in L |-> Cardinality({q \in L : r[q] < r[p]})]
  BY <1>7
<1>9. last \in L /\ pos[last] >= (n + 1) * size
  OBVIOUS
<1>10. Page(n + 1, since) =
         {p \in L : n * size <= pos[p] /\ pos[p] < (n + 1) * size}
  BY Pages
<1> DEFINE N == Cardinality(L)
           a == n * size
           b == (n + 1) * size
<1>11. a \in Nat /\ b \in Nat /\ b = a + size
  BY <1>1, SMTT(30)
<1> HIDE DEF r, pos
<1>12. /\ pos \in [L -> 0..(N - 1)]
       /\ \A p, q \in L : pos[p] = pos[q] => p = q
       /\ \A k \in 0..(N - 1) : \E p \in L : pos[p] = k
  BY <1>2, <1>4, <1>5, <1>8, Ranks
<1>13. Page(n + 1, since) = {p \in L : a <= pos[p] /\ pos[p] < b}
  BY <1>10
<1>14. pos[last] >= b /\ last \in L
  BY <1>9
<1> HIDE DEF L, size, N, a, b
<1>15. N \in Nat /\ a <= b
  BY <1>1, <1>3, <1>11 DEF N
<1>16. Cardinality({p \in L : a <= pos[p] /\ pos[p] < b}) = b - a
  BY <1>11, <1>12, <1>14, <1>15, FullSlice
<1>17. b - a = size
  BY <1>1, <1>11
<1> QED
  BY <1>13, <1>16, <1>17 DEF HasMore, size

LEMMA InitDelivered == Init => Stamped /\ Watermarks
<1> SUFFICES ASSUME Init PROVE Stamped /\ Watermarks
  OBVIOUS
<1>1. /\ run = NoRun /\ sync.cursor = 0 /\ sync.last_sync_at = 0 /\ clock = 1
      /\ \A p \in Products : modified[p] = 1 /\ marker[p] = 0
  BY DEF Init, Unmarked
<1> QED
  BY <1>1 DEF Init, Stamped, Watermarks, NoRun, NoPush, Unmarked, MidWalk

\* A change is stamped later than anything known or watched, and a push is of a
\* product whose last change we know.
LEMMA ChangeDelivered ==
    ASSUME SeenBeforePush, WholeWalks, IInv, Stamped, Watermarks,
           NEW p \in Products, RemoteEdit(p) \/ Send(p)
    PROVE  Stamped' /\ Watermarks'
<1>1. /\ clock' = clock + 1
      /\ modified' = [modified EXCEPT ![p] = clock + 1]
      /\ UNCHANGED <<marker, sync, run, setting>>
      /\ setting.at_rest => ~MidWalk
  BY DEF RemoteEdit, Send, Change
<1>2. \/ known' = known /\ push' = push
      \/ /\ known' = [known EXCEPT ![p] = clock + 1]
         /\ push' = [push EXCEPT !.sent[p] = clock + 1]
  <2>1. CASE RemoteEdit(p)
    BY <2>1 DEF RemoteEdit
  <2>2. CASE Send(p)
    <3>1. known[p] = modified[p]
      BY <2>2 DEF Send, SeenBeforePush
    <3> QED
      BY <2>2, <3>1 DEF Send
  <2> QED
    BY <2>1, <2>2
<1>3. \A q \in Products : /\ modified[q] <= clock /\ marker[q] <= clock
                          /\ push.sent[q] <= clock
  BY Typed DEF IInv, Marked, Stamped
<1>4. /\ modified'[p] = clock + 1 /\ marker'[p] # clock + 1
      /\ \A q \in Products \ {p} : /\ modified'[q] = modified[q]
                                   /\ known'[q] = known[q]
                                   /\ push'.sent[q] = push.sent[q]
      /\ \/ push'.sent[p] # clock + 1
         \/ known'[p] = clock + 1
  BY <1>1, <1>2, <1>3, Typed DEF Push
<1>5. Stamped'
  BY <1>1, <1>3, <1>4, Typed DEF Stamped
<1>6. ASSUME NEW t, t \in Nat, t <= clock, KnownUntil(t)
      PROVE  \A q \in Products : modified'[q] <= t => known'[q] = modified'[q]
  BY <1>4, <1>6, Typed DEF KnownUntil
<1>7. setting.supports_since => ~MidWalk
  BY <1>1, Typed DEF WholeWalks
<1>8. /\ sync.last_sync_at \in Nat /\ run.since \in Nat /\ run.started \in Nat
  BY Typed DEF SyncRow, Run, Times
<1>9. Watermarks'
  <2> SUFFICES ASSUME setting.supports_since
               PROVE  /\ (sync.last_sync_at # 0 => KnownUntil(sync.last_sync_at))'
                      /\ (run.since # 0 => KnownUntil(run.since))'
                      /\ (run.stage \in {"done", "cleared"}
                            => KnownUntil(run.started))'
    BY <1>1, <1>7, <1>8, Typed DEF Watermarks, MidWalk
  <2> QED
    BY <1>1, <1>6, <1>8 DEF Watermarks, KnownUntil
<1> QED
  BY <1>5, <1>9

\* A push that starts, saves its links or ends changes no product: what it saves
\* is the marker of a change we know.
LEMMA PushDelivered ==
    ASSUME OwnRow, IInv, Stamped, Watermarks,
           \/ StartPush \/ EndPush \/ \E dies \in BOOLEAN : FailPush(dies)
           \/ \E p \in Products, answer \in {"told", "untold", "lost"} :
                SaveLink(p, answer)
    PROVE  Stamped' /\ Watermarks'
<1>1. ~setting.shared
  BY Typed DEF OwnRow
<1>2. UNCHANGED <<clock, modified, known, sync, run, setting>>
  BY <1>1 DEF StartPush, EndPush, FailPush, SaveLink
<1>3. \A p \in Products : /\ modified[p] # 0 /\ modified[p] <= clock
                          /\ push.sent[p] <= modified[p]
  BY DEF IInv, Marked
<1>4. \A p \in Products : /\ marker'[p] \in {marker[p], push.sent[p], 0}
                          /\ push'.sent[p] \in {push.sent[p], 0}
  <2>1. CASE \E p \in Products, answer \in {"told", "untold", "lost"} :
               SaveLink(p, answer)
    <3>1. PICK p \in Products, answer \in {"told", "untold", "lost"} :
            SaveLink(p, answer)
      BY <2>1
    <3>2. /\ marker'[p] \in {marker[p], push.sent[p], 0}
          /\ \A q \in Products \ {p} : marker'[q] = marker[q]
      BY <3>1, Typed DEF SaveLink
    <3>3. \A q \in Products : push'.sent[q] \in {push.sent[q], 0}
      BY <3>1, Typed DEF SaveLink
    <3> QED
      BY <3>2, <3>3
  <2>2. CASE StartPush \/ EndPush \/ \E dies \in BOOLEAN : FailPush(dies)
    BY <2>2 DEF StartPush, EndPush, FailPush, links, NoPush, Unmarked
  <2> QED
    BY <2>1, <2>2
<1>5. Stamped'
  <2>1. ASSUME NEW p \in Products
        PROVE  /\ marker'[p] <= clock
               /\ marker'[p] = modified[p] => known[p] = modified[p]
               /\ push'.sent[p] = modified[p] => known[p] = modified[p]
    BY <1>3, <1>4, <2>1, Typed DEF Stamped
  <2> QED
    BY <1>2, <2>1 DEF Stamped
<1>6. Watermarks'
  <2>1. /\ \A t : KnownUntil(t)' = KnownUntil(t)
        /\ MidWalk' = MidWalk
        /\ \A p \in Products : Read(p)' = Read(p)
        /\ HasMore(PageNumber, run.since)' = HasMore(PageNumber, run.since)
        /\ Page(PageNumber, run.since)' = Page(PageNumber, run.since)
    BY <1>2 DEF KnownUntil, MidWalk, Read, HasMore, Page, PageNumber, Position,
                Listed, Before
  <2> QED
    BY <1>2, <2>1 DEF Watermarks
<1> QED
  BY <1>5, <1>6

\* A page is listed: what it will not hand over is an echo, and so it is known.
LEMMA ListDelivered ==
    ASSUME IInv, Stamped, Watermarks, List
    PROVE  Stamped' /\ Watermarks'
<1> DEFINE page == [p \in Products |-> IF p \in Handed THEN modified[p] ELSE 0]
           more == HasMore(PageNumber, run.since)
<1>1. /\ run.stage = "walking"
      /\ run' = [run EXCEPT !.stage = "listed", !.page = page, !.more = more]
      /\ UNCHANGED <<clock, modified, marker, known, sync, push, setting>>
  BY DEF List, links
<1>2. /\ run'.stage = "listed" /\ run'.page = page /\ run'.more = more
      /\ run'.cursor = run.cursor /\ run'.pages = run.pages
      /\ run'.since = run.since /\ run'.started = run.started
  BY <1>1, Typed DEF Run
<1>3. Stamped'
  BY <1>1 DEF Stamped
<1>4. \A p \in Page(PageNumber, run.since) :
        page[p] = modified[p] \/ known[p] = modified[p]
  <2> SUFFICES ASSUME NEW p \in Page(PageNumber, run.since), p \notin Handed
               PROVE  known[p] = modified[p]
    BY DEF Page, Listed
  <2>1. p \in Products /\ marker[p] = modified[p]
    BY DEF Handed, IsEcho, Page, Listed
  <2> QED
    BY <2>1 DEF Stamped
<1>5. ASSUME setting.supports_since, NEW p \in Products, Read(p)
      PROVE  known[p] = modified[p]
  <2>1. CASE run.pages = 0
    <3>1. run.pages * setting.page_size = 0
      BY <2>1, Typed
    <3>2. Position(p, run.since) \in Nat
      <4>1. run.since \in Times /\ p \in Listed(run.since)
        BY <1>5, Typed DEF Read, Run
      <4> QED
        BY <4>1, Pages, Bounds DEF IInv
    <3> QED
      BY <1>5, <3>1, <3>2 DEF Read
  <2>2. CASE run.pages # 0
    <3>1. MidWalk
      BY <1>1, <2>2, Typed DEF MidWalk, Run
    <3> QED
      BY <1>5, <3>1 DEF Watermarks
  <2> QED
    BY <2>1, <2>2
<1>6. Watermarks'
  <2>1. /\ \A t : KnownUntil(t)' = KnownUntil(t)
        /\ \A p \in Products : Read(p)' = Read(p)
        /\ HasMore(PageNumber, run.since)' = more
        /\ Page(PageNumber, run.since)' = Page(PageNumber, run.since)
    BY <1>1, <1>2 DEF KnownUntil, Read, HasMore, Page, PageNumber, Position,
                      Listed, Before
  <2> HIDE DEF page, more
  <2> QED
    BY <1>1, <1>2, <1>4, <1>5, <2>1 DEF Watermarks
<1> QED
  BY <1>3, <1>6

\* A page: its products become known, by on_item or as echoes; when it was not
\* full it was the last, and then everything listed is known, and so is
\* everything that was not listed.
LEMMA WalkDelivered ==
    ASSUME WholeWalks, IInv, Stamped, Watermarks,
           NEW refused \in SUBSET Products, Walk(refused)
    PROVE  Stamped' /\ Watermarks'
<1> DEFINE n == PageNumber
           page == Page(n, run.since)
           more == run.more
           applied == {p \in Products : run.page[p] # 0} \ refused
<1>0. /\ run.stage = "listed"
      /\ known' = [p \in Products |->
                     IF run.page[p] > known[p] THEN run.page[p] ELSE known[p]]
      /\ marker' = [p \in Products |->
                      IF p \in applied
                      THEN IF setting.markers THEN run.page[p] ELSE 0
                      ELSE marker[p]]
      /\ run' = [run EXCEPT
                !.pages = @ + 1,
                !.page = Unmarked,
                !.more = FALSE,
                !.cursor = IF more THEN n + 1 ELSE 0,
                !.stage = IF ~more THEN "done"
                          ELSE IF setting.max_pages # 0
                                  /\ run.pages + 1 >= setting.max_pages
                          THEN "partial" ELSE "walking"]
      /\ UNCHANGED <<clock, modified, sync, push, setting>>
  BY DEF Walk, Applied
<1>1. /\ run \in Run /\ run.since \in Times /\ run.pages \in Nat
      /\ run.started \in Times /\ clock \in Nat
      /\ setting \in Settings
      /\ \A p \in Products : modified[p] \in Nat /\ modified[p] # 0
                             /\ modified[p] <= clock
  BY Typed DEF IInv, Run, Marked
<1>2. page \subseteq Products
  BY DEF Page, Listed
\* A page tells of a change we know or will know now.
<1>3. \A p \in Products :
        /\ known[p] = modified[p] => known'[p] = modified[p]
        /\ run.page[p] = modified[p] => known'[p] = modified[p]
        /\ run.page[p] <= modified[p]
  BY <1>0, Typed DEF IInv, Marked
<1>4. setting.supports_since => \A p \in page : known'[p] = modified[p]
  BY <1>0, <1>2, <1>3 DEF Watermarks
<1>5. Stamped'
  <2>1. ASSUME NEW p \in Products
        PROVE  /\ marker'[p] <= clock
               /\ marker'[p] = modified[p] => known'[p] = modified[p]
               /\ push.sent[p] = modified[p] => known'[p] = modified[p]
    <3>1. marker'[p] \in {run.page[p], 0, marker[p]}
      BY <1>0
    <3> QED
      BY <1>1, <1>3, <3>1, Typed DEF Stamped
  <2> HIDE DEF page, more, n, applied
  <2> QED
    BY <1>0, <2>1 DEF Stamped
<1>6. ASSUME setting.supports_since
      PROVE  /\ n = run.pages + 1
             /\ setting.max_pages = 0
  <2>1. run.cursor = IF run.pages = 0 THEN 0 ELSE run.pages + 1
    BY <1>0, <1>6 DEF Watermarks
  <2> QED
    BY <1>1, <1>6, <2>1 DEF PageNumber, WholeWalks
\* What has been read by now is known.
<1>7. ASSUME setting.supports_since, NEW p \in Listed(run.since),
             Position(p, run.since) < n * setting.page_size
      PROVE  known'[p] = modified[p]
  <2> DEFINE x == Position(p, run.since)
             size == setting.page_size
             a == run.pages * size
  <2>1. n = run.pages + 1 /\ p \in Products
    BY <1>6, <1>7 DEF Listed
  <2>2. /\ x \in Nat
        /\ page = {q \in Listed(run.since) :
                     /\ a <= Position(q, run.since)
                     /\ Position(q, run.since) < (run.pages + 1) * size}
    BY <1>1, <2>1, Pages DEF IInv
  <2>3. size \in Nat /\ a \in Nat
    <3>1. size \in Nat
      BY <1>1, SettingsAssumption DEF Setting
    <3> HIDE DEF size
    <3> QED
      BY <1>1, <3>1, SMTT(30)
  <2>4. CASE a <= x
    <3>1. p \in page
      BY <1>7, <2>1, <2>2, <2>4
    <3> QED
      BY <1>4, <1>7, <3>1
  <2>5. CASE x < a
    <3>1. Read(p)
      BY <2>5 DEF Read
    <3>2. MidWalk
      BY <1>0 DEF MidWalk
    <3>3. known[p] = modified[p]
      BY <1>7, <2>1, <3>1, <3>2 DEF Watermarks
    <3> QED
      BY <1>3, <2>1, <3>3
  <2> HIDE DEF x, a
  <2> QED
    BY <2>2, <2>3, <2>4, <2>5
<1>8. ASSUME setting.supports_since, ~more
      PROVE  \A p \in Products : known'[p] = modified[p]
  <2> SUFFICES ASSUME NEW p \in Products PROVE known'[p] = modified[p]
    OBVIOUS
  <2>1. CASE p \in Listed(run.since)
    <3>1. ~(Position(p, run.since) >= (run.pages + 1) * setting.page_size)
      <4>1. ~HasMore(run.pages + 1, run.since)
        BY <1>0, <1>6, <1>8 DEF Watermarks
      <4> QED
        BY <1>1, <1>6, <2>1, <4>1, MoreBehind DEF IInv
    <3>2. /\ Position(p, run.since) \in Nat
          /\ (run.pages + 1) * setting.page_size \in Nat
      <4>1. Position(p, run.since) \in Nat
        BY <1>1, <2>1, Pages DEF IInv
      <4>2. setting.page_size \in Nat
        BY <1>1, SettingsAssumption DEF Setting
      <4> QED
        BY <1>1, <4>1, <4>2, SMTT(30)
    <3>3. Position(p, run.since) < n * setting.page_size
      BY <1>6, <1>8, <3>1, <3>2
    <3> QED
      BY <1>7, <1>8, <2>1, <3>3
  <2>2. CASE p \notin Listed(run.since)
    <3>1. run.since # 0 /\ modified[p] <= run.since
      BY <1>1, <2>2 DEF Listed, Times
    <3>2. known[p] = modified[p]
      BY <1>8, <3>1 DEF Watermarks, KnownUntil
    <3> QED
      BY <1>3, <3>2
  <2> QED
    BY <2>1, <2>2
<1>9. Watermarks'
  <2> SUFFICES ASSUME setting.supports_since PROVE Watermarks'
    BY <1>0 DEF Watermarks
  <2>1. /\ run'.stage = IF ~more THEN "done" ELSE "walking"
        /\ run'.cursor = IF more THEN run.pages + 2 ELSE 0
        /\ run'.pages = run.pages + 1
        /\ run'.since = run.since /\ run'.started = run.started
    <3> DEFINE cursor == IF more THEN n + 1 ELSE 0
               stage == IF ~more THEN "done" ELSE "walking"
    <3>1. run' = [run EXCEPT !.pages = run.pages + 1, !.page = Unmarked,
                             !.more = FALSE, !.cursor = cursor, !.stage = stage]
      BY <1>0, <1>6
    <3>2. cursor = IF more THEN run.pages + 2 ELSE 0
      BY <1>1, <1>6
    <3> HIDE DEF cursor, stage, n, more
    <3> QED
      BY <1>1, <3>1, <3>2 DEF Run, stage
  <2>2. ASSUME NEW t, KnownUntil(t)
        PROVE  \A p \in Products : modified'[p] <= t => known'[p] = modified'[p]
    BY <1>0, <1>3, <2>2 DEF KnownUntil
  <2>3. (sync.last_sync_at # 0 => KnownUntil(sync.last_sync_at))'
    BY <1>0, <2>2 DEF Watermarks, KnownUntil
  <2>4. (run.since # 0 => KnownUntil(run.since))'
    BY <2>1, <2>2 DEF Watermarks, KnownUntil
  <2>5. (run.stage \in {"done", "cleared"} => KnownUntil(run.started))'
    <3>1. CASE more
      BY <2>1, <3>1
    <3>2. CASE ~more
      BY <1>0, <1>8, <3>2 DEF KnownUntil
    <3> QED
      BY <3>1, <3>2
  <2>6. (MidWalk => \A p \in Products : Read(p) => known[p] = modified[p])'
    <3>1. \A p \in Products : Read(p)' =>
            /\ p \in Listed(run.since)
            /\ Position(p, run.since) < n * setting.page_size
      <4>1. Listed(run.since)' = Listed(run.since)
        BY <1>0, <2>1 DEF Listed
      <4>2. \A p \in Products : Position(p, run.since)' = Position(p, run.since)
        BY <1>0, <2>1 DEF Position, Listed, Before
      <4> QED
        BY <1>0, <1>6, <2>1, <4>1, <4>2 DEF Read
    <3> QED
      BY <1>0, <1>7, <3>1
  <2>7. /\ sync' = sync /\ clock' = clock /\ setting' = setting
        /\ run.started # 0 /\ run.started <= clock
        /\ sync.cursor = 0 /\ sync.last_sync_at <= clock
        /\ run.since <= clock
    BY <1>0 DEF Watermarks
  <2> HIDE DEF more, n, page, applied
  <2> QED
    BY <1>1, <2>1, <2>3, <2>4, <2>5, <2>6, <2>7 DEF Watermarks
<1> QED
  BY <1>5, <1>9

\* The saves of a run: a whole run has the watermark moved to its start, up to
\* which everything is known by then; a failed or killed one moves nothing.
LEMMA SaveDelivered ==
    ASSUME IInv, Stamped, Watermarks,
           \/ \E full \in BOOLEAN : Start(full)
           \/ EndPartial \/ ClearCursor \/ EndComplete
           \/ Fail \/ Crash \/ Age
    PROVE  Stamped' /\ Watermarks'
<1>1. UNCHANGED <<clock, modified, marker, known, push, setting>>
  BY DEF Start, EndPartial, ClearCursor, EndComplete, Fail, Crash, Age, links
<1>2. Stamped'
  BY <1>1 DEF Stamped
<1>3. \A t : KnownUntil(t)' = KnownUntil(t)
  BY <1>1 DEF KnownUntil
<1>4. /\ sync \in SyncRow /\ run \in Run /\ clock \in Nat /\ clock # 0
      /\ setting \in Settings
  BY DEF IInv, TypeOK
<1>5. ASSUME run' = NoRun, sync'.cursor = sync.cursor,
             \/ sync'.last_sync_at = sync.last_sync_at
             \/ /\ setting.supports_since
                => /\ sync'.last_sync_at <= clock
                   /\ KnownUntil(sync'.last_sync_at)
      PROVE  Watermarks'
  <2>1. run'.stage = "none" /\ run'.since = 0 /\ clock' = clock
    BY <1>1, <1>5 DEF NoRun
  <2> QED
    BY <1>1, <1>4, <1>5, <2>1 DEF Watermarks, MidWalk, KnownUntil
<1>6. CASE \E full \in BOOLEAN : Start(full)
  <2>1. PICK full \in BOOLEAN : Start(full)
    BY <1>6
  <2>2. /\ run'.stage = "walking" /\ run'.pages = 0
        /\ run'.started = clock /\ run'.cursor = sync.cursor
        /\ run'.since \in {0, sync.last_sync_at}
        /\ sync'.cursor = sync.cursor
        /\ sync'.last_sync_at = sync.last_sync_at
    BY <1>4, <2>1 DEF Start, Taken, NoRun, SyncRow
  <2> QED
    BY <1>1, <1>2, <1>4, <2>2 DEF Watermarks, MidWalk, KnownUntil
<1>7. CASE EndPartial
  <2>1. ~setting.supports_since
    BY <1>7 DEF EndPartial, Watermarks
  <2> QED
    BY <1>1, <1>2, <2>1 DEF Watermarks
<1>8. CASE ClearCursor
  <2>1. /\ run.stage = "done" /\ run' = [run EXCEPT !.stage = "cleared"]
        /\ sync'.cursor = 0 /\ sync'.last_sync_at = sync.last_sync_at
    <3>1. 0 \in 0..MaxCursor
      BY BoundsAssumption, FS_CardinalityType DEF MaxCursor
    <3> QED
      BY <1>4, <1>8, <3>1 DEF ClearCursor, SyncRow
  <2>2. /\ run'.stage = "cleared" /\ run'.since = run.since
        /\ run'.started = run.started
    BY <1>4, <2>1 DEF Run
  <2> QED
    BY <1>1, <1>2, <2>1, <2>2 DEF Watermarks, MidWalk, KnownUntil
<1>9. CASE EndComplete
  <2>1. /\ run.stage = "cleared" /\ run' = NoRun
        /\ sync'.cursor = sync.cursor /\ sync'.last_sync_at = run.started
    BY <1>4, <1>9 DEF EndComplete, NewWatermark, SyncRow
  <2>2. setting.supports_since
          => run.started <= clock /\ KnownUntil(run.started)
    BY <2>1 DEF Watermarks
  <2> QED
    BY <1>2, <1>5, <2>1, <2>2
<1>10. CASE Fail \/ Crash
  <2>1. /\ run' = NoRun
        /\ sync'.cursor = sync.cursor
        /\ sync'.last_sync_at = sync.last_sync_at
    BY <1>4, <1>10 DEF Fail, Crash, SyncRow
  <2> QED
    BY <1>2, <1>5, <2>1
<1>11. CASE Age
  <2>1. /\ run' = run /\ sync'.cursor = sync.cursor
        /\ sync'.last_sync_at = sync.last_sync_at
    BY <1>4, <1>11 DEF Age, SyncRow
  <2>2. /\ \A p \in Products : Read(p)' = Read(p)
        /\ MidWalk' = MidWalk
        /\ HasMore(PageNumber, run.since)' = HasMore(PageNumber, run.since)
        /\ Page(PageNumber, run.since)' = Page(PageNumber, run.since)
    BY <1>1, <2>1 DEF Read, MidWalk, HasMore, Page, PageNumber, Position,
                      Listed, Before
  <2> QED
    BY <1>1, <1>2, <2>1, <2>2 DEF Watermarks, KnownUntil
<1> QED
  BY <1>2, <1>6, <1>7, <1>8, <1>9, <1>10, <1>11

\* Where the listing is filtered by modification, every change the watermark
\* has passed was handed over or is our own: whole walks pass over nothing,
\* for any page size, any number of products and any failures between.
THEOREM NothingPassedOver ==
    ASSUME SeenBeforePush, OwnRow, WholeWalks
    PROVE  Spec => []EveryChangeDelivered
<1>1. IInv /\ Stamped /\ Watermarks /\ [Next]_vars => Stamped' /\ Watermarks'
  <2> SUFFICES ASSUME IInv, Stamped, Watermarks, [Next]_vars
               PROVE  Stamped' /\ Watermarks'
    OBVIOUS
  <2>1. CASE \E p \in Products : RemoteEdit(p) \/ Send(p)
    BY <2>1, ChangeDelivered
  <2>2. CASE \/ StartPush \/ EndPush \/ \E dies \in BOOLEAN : FailPush(dies)
             \/ \E p \in Products, answer \in {"told", "untold", "lost"} :
                  SaveLink(p, answer)
    BY <2>2, PushDelivered
  <2>3. CASE List
    BY <2>3, ListDelivered
  <2>4. CASE \E refused \in SUBSET Products : Walk(refused)
    BY <2>4, WalkDelivered
  <2>5. CASE \/ \E full \in BOOLEAN : Start(full)
             \/ EndPartial \/ ClearCursor \/ EndComplete
             \/ Fail \/ Crash \/ Age
    BY <2>5, SaveDelivered
  <2>6. CASE UNCHANGED vars
    <3>1. /\ \A t : KnownUntil(t)' = KnownUntil(t)
          /\ MidWalk' = MidWalk
          /\ \A p \in Products : Read(p)' = Read(p)
          /\ HasMore(PageNumber, run.since)' = HasMore(PageNumber, run.since)
          /\ Page(PageNumber, run.since)' = Page(PageNumber, run.since)
      BY <2>6 DEF vars, KnownUntil, MidWalk, Read, HasMore, Page, PageNumber,
                  Position, Listed, Before
    <3> QED
      BY <2>6, <3>1 DEF vars, links, Stamped, Watermarks
  <2> QED
    BY <2>1, <2>2, <2>3, <2>4, <2>5, <2>6 DEF Next, Proceed, ProceedPush
<1>2. Watermarks => EveryChangeDelivered
  BY DEF Watermarks, KnownUntil, EveryChangeDelivered
<1> QED
  BY <1>1, <1>2, InitDelivered, Inductive, PTL DEF Spec

=============================================================================
