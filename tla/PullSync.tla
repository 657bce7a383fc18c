----------------------------- MODULE PullSync -----------------------------
(***************************************************************************)
(* PullService.pull: the provider's products are walked page by page, our  *)
(* own writes are recognised by their modified marker, every other change  *)
(* is handed to the consumer's on_item, and the SyncState row keeps the    *)
(* resume cursor and the watermark last_sync_at.                           *)
(*                                                                         *)
(* Products may change at the provider between two pages, and our pushes   *)
(* change them too: PushService.push writes first and saves the markers    *)
(* the provider answered later, link by link.  The provider's clock counts *)
(* its changes: a change made after a run started is stamped later than    *)
(* the start, every earlier one not later.                                 *)
(***************************************************************************)
EXTENDS Naturals, FiniteSets

CONSTANTS
    Products,       \* the provider's products
    Settings,       \* the settings the caller and its adapter may have
    PushesUnseen,   \* whether we push products whose last change we never saw
    MaxClock,       \* the largest of their bounds on changes
    MayCrash        \* whether the workers may die

\* page_size: products on a page; max_pages of the caller, 0 for None;
\* supports_since: adapter.supports_modified_since; markers: the provider tells
\* date_modified_gmt in its listing and in its answers; shared: pushes and pulls
\* are given the same SyncState row; at_rest: no product changes between two
\* pages of a walk; bound: changes at the provider.
Setting == [page_size: Nat \ {0}, max_pages: Nat, supports_since: BOOLEAN,
            markers: BOOLEAN, shared: BOOLEAN, at_rest: BOOLEAN,
            bound: 1..MaxClock]

ASSUME BoundsAssumption ==
    /\ Products # {} /\ IsFiniteSet(Products)
    /\ MaxClock \in Nat \ {0}
ASSUME SettingsAssumption == Settings # {} /\ Settings \subseteq Setting
ASSUME FlagsAssumption == {PushesUnseen, MayCrash} \subseteq BOOLEAN

VARIABLES
    clock,     \* changes made at the provider so far, plus one
    modified,  \* when each product last changed
    origin,    \* whose its last change is, and what became of it
    marker,    \* remote_hash of each product's link, 0 when empty
    known,     \* the last change of each product we know: delivered or pushed
    sync,      \* the SyncState row of the pulls
    run,       \* the run of the worker that holds its lock
    push,      \* the push under way
    setting    \* the settings, chosen once

links == <<origin, marker>>
vars == <<clock, modified, links, known, sync, run, push, setting>>

Times == 0..MaxClock

\* "provider": another's change.  "sent": ours.  "saved": ours, and our link
\* holds its marker.
Origins == {"provider", "sent", "saved"}

\* last_sync_at = 0 is None; cursor = 0 is the empty cursor, n asks for page n.
MaxCursor == Cardinality(Products) + 2

SyncRow == [status: {"idle", "running", "completed", "failed"},
            fresh: BOOLEAN, cursor: 0..MaxCursor, last_sync_at: Times]

\* page: what the page being handled is to hand to on_item, each product with the
\* modified marker it was listed with, 0 for the others; more: has_more.
Run == [stage: {"none", "walking", "listed", "partial", "cleared", "done"},
        started: Times, since: Times, cursor: 0..MaxCursor, pages: Nat,
        page: [Products -> Times], more: BOOLEAN]

Unmarked == [p \in Products |-> 0]

NoRun == [stage |-> "none", started |-> 0, since |-> 0, cursor |-> 0,
          pages |-> 0, page |-> Unmarked, more |-> FALSE]

\* sent: the markers of what the engine wrote and push has not saved yet.
Push == [stage: {"none", "sending", "saving"}, sent: [Products -> Times]]

NoPush == [stage |-> "none", sent |-> Unmarked]

-----------------------------------------------------------------------------
(* The provider's listing (WooCommerce): ordered by modification when it   *)
(* is filtered by it, in a fixed order otherwise; the cursor is a page.    *)

Listed(since) == {p \in Products : since > 0 => modified[p] > since}

\* The fixed order of the unfiltered listing.
Order == CHOOSE f \in [Products -> 1..Cardinality(Products)] :
            \A p, q \in Products : p # q => f[p] # f[q]

Before(p, q, since) ==
    IF since > 0 THEN modified[p] < modified[q] ELSE Order[p] < Order[q]

Position(p, since) ==
    Cardinality({q \in Listed(since) : Before(q, p, since)})

Page(n, since) ==
    {p \in Listed(since) : Position(p, since) \div setting.page_size = n - 1}

\* A full page may have another one behind it.
HasMore(n, since) == Cardinality(Page(n, since)) = setting.page_size

-----------------------------------------------------------------------------
\* Before the first run nothing is known of the products.
Init ==
    /\ clock = 1
    /\ modified = [p \in Products |-> 1]
    /\ origin = [p \in Products |-> "provider"]
    /\ marker = Unmarked
    /\ known = Unmarked
    /\ sync = [status |-> "idle", fresh |-> TRUE, cursor |-> 0,
               last_sync_at |-> 0]
    /\ run = NoRun
    /\ push = NoPush
    /\ setting \in Settings

\* Some pages were read and more are to come.
MidWalk == run.stage = "listed" \/ (run.stage = "walking" /\ run.pages > 0)

\* A product changes at the provider: at any moment, or at none between two
\* pages of a walk.
Change(p, whose) ==
    /\ clock < setting.bound
    /\ setting.at_rest => ~MidWalk
    /\ clock' = clock + 1
    /\ modified' = [modified EXCEPT ![p] = clock + 1]
    /\ origin' = [origin EXCEPT ![p] = whose]

RemoteEdit(p) ==
    /\ Change(p, "provider")
    /\ UNCHANGED <<marker, known, sync, run, push, setting>>

Locked == sync.status = "running" /\ sync.fresh

Taken == [sync EXCEPT !.status = "running", !.fresh = TRUE]

-----------------------------------------------------------------------------
(* PushService.push, as far as pulls see it                                *)

\* A push with a SyncState row of its own meets no lock of the pulls.
StartPush ==
    /\ push.stage = "none"
    /\ setting.shared => run.stage = "none" /\ ~Locked
    /\ sync' = IF setting.shared THEN Taken ELSE sync
    /\ push' = [NoPush EXCEPT !.stage = "sending"]
    /\ UNCHANGED <<clock, modified, links, known, run, setting>>

\* The engine changes a product.  Push looks at the link alone: that the product
\* changed at the provider since our last pull does not hold it back.
Send(p) ==
    /\ push.stage = "sending" /\ push.sent[p] = 0
    /\ PushesUnseen \/ known[p] = modified[p]
    /\ Change(p, "sent")
    /\ known' = [known EXCEPT ![p] = IF @ = modified[p] THEN clock + 1 ELSE @]
    /\ push' = [push EXCEPT !.sent[p] = clock + 1]
    /\ UNCHANGED <<marker, sync, run, setting>>

\* When the engine is through, the links are saved one after the other:
\* mark_linked keeps the marker of the answer, an empty one where it told none
\* (the engine's path without bulk calls asks for none); after a lost answer
\* mark_error keeps the marker the link had.
SaveLink(p, answer) ==
    /\ push.stage # "none" /\ push.sent[p] # 0
    /\ answer = "told" => setting.markers
    /\ marker' = [marker EXCEPT ![p] = CASE answer = "told"   -> push.sent[p]
                                         [] answer = "untold" -> 0
                                         [] answer = "lost"   -> @]
    /\ origin' = [origin EXCEPT ![p] =
                    IF answer = "told" /\ push.sent[p] = modified[p]
                    THEN "saved" ELSE @]
    /\ push' = [stage |-> "saving", sent |-> [push.sent EXCEPT ![p] = 0]]
    /\ UNCHANGED <<clock, modified, known, sync, run, setting>>

\* mark_completed of a push names no last_sync_at: it becomes timezone.now().
EndPush ==
    /\ push.stage # "none" /\ push.sent = Unmarked
    /\ sync' = IF setting.shared
               THEN [sync EXCEPT !.status = "completed", !.fresh = TRUE,
                                 !.last_sync_at = clock]
               ELSE sync
    /\ push' = NoPush
    /\ UNCHANGED <<clock, modified, links, known, run, setting>>

\* An exception, or the death of the worker, ends the push where it is: what was
\* written is written, and no link tells.
FailPush(dies) ==
    /\ push.stage # "none"
    /\ dies => MayCrash
    /\ sync' = IF setting.shared /\ ~dies
               THEN [sync EXCEPT !.status = "failed", !.fresh = TRUE]
               ELSE sync
    /\ push' = NoPush
    /\ UNCHANGED <<clock, modified, links, known, run, setting>>

-----------------------------------------------------------------------------
(* PullService.pull                                                        *)

\* acquire_lock, then the start of the run.
Start(full) ==
    /\ run.stage = "none"
    /\ setting.shared => push.stage = "none"
    /\ ~Locked
    /\ sync' = Taken
    /\ run' = [NoRun EXCEPT
                !.stage = "walking",
                !.started = clock,
                !.since = IF full \/ ~setting.supports_since THEN 0
                                                   ELSE sync.last_sync_at,
                !.cursor = sync.cursor]
    /\ UNCHANGED <<clock, modified, links, known, push, setting>>

PageNumber == IF run.cursor = 0 THEN 1 ELSE run.cursor

\* Faulty variant: the marker of the link is never looked at.
IsEchoNever(p) == FALSE

IsEcho(p) == setting.markers /\ marker[p] # 0 /\ marker[p] = modified[p]

\* What on_item is called with: every product of the page that is no echo.
Handed == {p \in Page(PageNumber, run.since) : ~IsEcho(p)}

\* The page is listed and its links are read.
List ==
    /\ run.stage = "walking"
    /\ run' = [run EXCEPT
                !.stage = "listed",
                !.page = [p \in Products |->
                            IF p \in Handed THEN modified[p] ELSE 0],
                !.more = HasMore(PageNumber, run.since)]
    /\ UNCHANGED <<clock, modified, links, known, sync, push, setting>>

\* mark_linked keeps the marker of the applied products.  The others (conflicts,
\* errors of on_item, skipped ones) keep the marker their link had.  A page that
\* was listed before a push of ours puts an older marker over that push's.
Applied(products) ==
    /\ marker' = [p \in Products |->
                    IF p \in products
                    THEN IF setting.markers THEN run.page[p] ELSE 0
                    ELSE marker[p]]
    /\ origin' = [p \in Products |->
                    IF /\ p \in products /\ origin[p] = "saved"
                       /\ run.page[p] # modified[p]
                    THEN "sent" ELSE origin[p]]

\* on_item is called for every product of the page that is no echo; it refuses
\* some.
Walk(refused) ==
    LET seen == {p \in Products : run.page[p] # 0}
    IN
    /\ run.stage = "listed"
    /\ refused \subseteq seen
    /\ known' = [p \in Products |->
                   IF run.page[p] > known[p] THEN run.page[p] ELSE known[p]]
    /\ Applied(seen \ refused)
    /\ run' = [run EXCEPT
                !.pages = @ + 1,
                !.page = Unmarked,
                !.more = FALSE,
                !.cursor = IF run.more THEN PageNumber + 1 ELSE 0,
                !.stage = IF ~run.more THEN "done"
                          ELSE IF setting.max_pages # 0
                                  /\ run.pages + 1 >= setting.max_pages
                          THEN "partial" ELSE "walking"]
    /\ UNCHANGED <<clock, modified, sync, push, setting>>

\* mark_completed of a partial run: the cursor is kept, and last_sync_at is
\* kept too, unless there is none: "last_sync_at or timezone.now()".
KeptWatermark == IF sync.last_sync_at # 0 THEN sync.last_sync_at ELSE clock

EndPartial ==
    /\ run.stage = "partial"
    /\ sync' = [status |-> "completed", fresh |-> TRUE, cursor |-> run.cursor,
                last_sync_at |-> KeptWatermark]
    /\ run' = NoRun
    /\ UNCHANGED <<clock, modified, links, known, push, setting>>

\* Faulty variant: the resume point of an earlier run is left behind.
ClearCursorNot ==
    /\ run.stage = "done"
    /\ sync' = [sync EXCEPT !.fresh = TRUE]
    /\ run' = [run EXCEPT !.stage = "cleared"]
    /\ UNCHANGED <<clock, modified, links, known, push, setting>>

\* A run that reached the last page clears the cursor in a save of its own.
ClearCursor ==
    /\ run.stage = "done"
    /\ sync' = [sync EXCEPT !.cursor = 0, !.fresh = TRUE]
    /\ run' = [run EXCEPT !.stage = "cleared"]
    /\ UNCHANGED <<clock, modified, links, known, push, setting>>

\* Faulty variant: the watermark is the end of the run.
NewWatermarkNow == clock

NewWatermark == run.started

EndComplete ==
    /\ run.stage = "cleared"
    /\ sync' = [sync EXCEPT !.status = "completed", !.fresh = TRUE,
                            !.last_sync_at = NewWatermark]
    /\ run' = NoRun
    /\ UNCHANGED <<clock, modified, links, known, push, setting>>

\* An exception (a refused key, a broken page, a save of a link) ends the run:
\* neither cursor nor watermark move.
Fail ==
    /\ run.stage \in {"walking", "listed"}
    /\ sync' = [sync EXCEPT !.status = "failed", !.fresh = TRUE]
    /\ run' = NoRun
    /\ UNCHANGED <<clock, modified, links, known, push, setting>>

\* The worker dies; its lock stays until it is stale.
Crash ==
    /\ MayCrash
    /\ run.stage # "none"
    /\ run' = NoRun
    /\ UNCHANGED <<clock, modified, links, known, sync, push, setting>>

Age ==
    /\ sync' = [sync EXCEPT !.fresh = FALSE]
    /\ UNCHANGED <<clock, modified, links, known, run, push, setting>>

-----------------------------------------------------------------------------
\* A run goes on: its next page, or its last saves.
Proceed ==
    \/ List
    \/ \E refused \in SUBSET Products : Walk(refused)
    \/ EndPartial \/ ClearCursor \/ EndComplete

\* A push goes on: its next link, or its end.
ProceedPush ==
    \/ \E p \in Products, answer \in {"told", "untold", "lost"} :
         SaveLink(p, answer)
    \/ EndPush

Next ==
    \/ \E p \in Products : RemoteEdit(p) \/ Send(p)
    \/ StartPush \/ ProceedPush
    \/ \E dies \in BOOLEAN : FailPush(dies)
    \/ \E full \in BOOLEAN : Start(full)
    \/ Proceed
    \/ Fail \/ Crash \/ Age

Spec == Init /\ [][Next]_vars

\* Pulls are scheduled again and again, a live worker runs on, time passes.
Fairness ==
    /\ WF_vars(Age)
    /\ WF_vars(\E full \in BOOLEAN : Start(full))
    /\ WF_vars(Proceed)
    /\ WF_vars(ProceedPush)

FairSpec == Spec /\ Fairness

-----------------------------------------------------------------------------
(* What a pull promises                                                    *)

TypeOK ==
    /\ clock \in 1..MaxClock
    /\ modified \in [Products -> Times]
    /\ origin \in [Products -> Origins]
    /\ marker \in [Products -> Times]
    /\ known \in [Products -> Times]
    /\ sync \in SyncRow
    /\ run \in Run
    /\ push \in Push
    /\ setting \in Settings

\* Every change of a product the watermark has passed was handed to on_item or is
\* our own: where the watermark filters, the next incremental pull will not ask
\* for it again.  (An unfinished walk may still be on its way to it; a leftover
\* cursor means one is unfinished.)
EveryChangeDelivered ==
    setting.supports_since /\ sync.last_sync_at # 0 /\ sync.cursor = 0 =>
        \A p \in Products :
            modified[p] <= sync.last_sync_at => known[p] = modified[p]

\* on_item is never called with a change our own push made and whose marker
\* reached our link, whatever failed, died or was refused in between.  (A push
\* that was told no marker, lost the answer or died before the save leaves the
\* link's older marker, and so does a page that was listed before it.)
NoEcho ==
    run.stage = "walking" => \A p \in Handed : origin[p] # "saved"

\* When runs stop failing and the provider is at rest (its changes are bounded
\* here), everything it holds becomes known, however the walk is cut in parts.
EventuallyKnown ==
    <>[][~Fail /\ ~Crash]_vars
        => <>[](\A p \in Products : known[p] = modified[p])

=============================================================================
