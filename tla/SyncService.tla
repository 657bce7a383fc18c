---------------------------- MODULE SyncService ----------------------------
(***************************************************************************)
(* Walking a listing of a provider: SyncService reads one page per call    *)
(* and keeps the cursor in the SyncState row, ProductSyncEngine reads page *)
(* after page and keeps nothing.                                           *)
(*                                                                         *)
(* Tasks and scripts run beside each other without a lock, each with the   *)
(* copy of the row it loaded, while rows are created and removed at the    *)
(* provider.  The row's status, which SyncService writes and never reads,  *)
(* is left out.                                                            *)
(***************************************************************************)
EXTENDS Listings, FiniteSets

CONSTANTS
    Workers,     \* processes that walk the listing of one connection
    Settings,    \* the listings, each with an order of its rows
    MaxRows,     \* bound: rows ever created
    MaxGone,     \* bound: rows removed
    MaxWalks,    \* bound: full resyncs and pulls
    MaxFailures  \* bound: calls that fail and workers that die

\* oldest_first: new rows come last; otherwise they come first.
Setting == [name: ListingNames, oldest_first: BOOLEAN]

ASSUME SettingsAssumption ==
    /\ Settings # {} /\ Settings \subseteq Setting
    /\ \A s \in Settings :
         /\ s.name \in NewestFirst => ~s.oldest_first
         /\ s.name \in OldestFirst => s.oldest_first
ASSUME SyncBoundsAssumption ==
    /\ MaxRows \in Nat /\ MaxGone \in Nat
    /\ MaxWalks \in Nat /\ MaxFailures \in Nat

VARIABLES
    setting,  \* the listing that is walked, chosen once
    listing,  \* the rows at the provider, in its order
    created,  \* the last row created
    gone,     \* rows removed so far
    sync,     \* the cursor of the SyncState row
    job,      \* what each worker is doing
    seen,     \* history: rows that were on a page somebody read
    walk,     \* history: what each walk from the start owes, and has read
    walks,    \* walks from the start so far
    failures  \* failures so far

syncVars == <<setting, listing, created, gone, sync, job, seen, walk, walks,
              failures>>

Cursors == 0..(2 * MaxRows + 3)

\* cursor: of the worker's copy of the row, or of the loop of pull_products;
\* next and more: of the page it has read.
Job == [stage: {"none", "resetting", "loaded", "read", "returned", "pulling"},
        cursor: Cursors, next: Cursors, more: BOOLEAN]

At(stage, cursor) ==
    [stage |-> stage, cursor |-> cursor, next |-> 0, more |-> FALSE]

NoJob == At("none", 0)

NoWalk == [owed |-> {}, got |-> {}]

\* What a walk from the start has to read.
Walk == [owed |-> Listed(setting.name, Rows(listing)), got |-> {}]

-----------------------------------------------------------------------------
SyncInit ==
    /\ setting \in Settings
    /\ listing = <<>>
    /\ created = 0
    /\ gone = 0
    /\ sync = 0
    /\ job = [w \in Workers |-> NoJob]
    /\ seen = {}
    /\ walk = [w \in Workers |-> NoWalk]
    /\ walks = 0
    /\ failures = 0

-----------------------------------------------------------------------------
(* The provider                                                            *)

Create ==
    /\ created < MaxRows
    /\ created' = created + 1
    /\ listing' = IF setting.oldest_first THEN Append(listing, created')
                                          ELSE <<created'>> \o listing
    /\ UNCHANGED <<setting, gone, sync, job, seen, walk, walks, failures>>

\* A row is removed.  Where positions move with it, nothing more can be asked
\* of the walks that are under way.
Remove(i) ==
    /\ gone < MaxGone
    /\ i \in DOMAIN listing
    /\ gone' = gone + 1
    /\ listing' = SubSeq(listing, 1, i - 1)
                     \o SubSeq(listing, i + 1, Len(listing))
    /\ walk' = [w \in Workers |->
         [owed |-> IF setting.name \in Steady THEN walk[w].owed \ {listing[i]}
                                              ELSE {},
          got  |-> walk[w].got]]
    /\ UNCHANGED <<setting, created, sync, job, seen, walks, failures>>

-----------------------------------------------------------------------------
(* SyncService.incremental_sync and full_resync                            *)

\* The task or the script loads the row.
Load(w) ==
    /\ job[w].stage = "none"
    /\ job' = [job EXCEPT ![w] = At("loaded", sync)]
    /\ walk' = [walk EXCEPT ![w] = NoWalk]
    /\ UNCHANGED <<setting, listing, created, gone, sync, seen, walks,
                   failures>>

LoadForResync(w) ==
    /\ job[w].stage = "none"
    /\ walks < MaxWalks
    /\ walks' = walks + 1
    /\ job' = [job EXCEPT ![w] = At("resetting", sync)]
    /\ walk' = [walk EXCEPT ![w] = NoWalk]
    /\ UNCHANGED <<setting, listing, created, gone, sync, seen, failures>>

\* Faulty variant: the cursor is reset in the row, and kept in the copy.
ResetRowOnly(w) ==
    /\ job[w].stage = "resetting"
    /\ sync' = 0
    /\ job' = [job EXCEPT ![w].stage = "loaded"]
    /\ walk' = [walk EXCEPT ![w] = Walk]
    /\ UNCHANGED <<setting, listing, created, gone, seen, walks, failures>>

\* full_resync: the cursor is emptied in the copy and in the row.
Reset(w) ==
    /\ job[w].stage = "resetting"
    /\ sync' = 0
    /\ job' = [job EXCEPT ![w] = At("loaded", 0)]
    /\ walk' = [walk EXCEPT ![w] = Walk]
    /\ UNCHANGED <<setting, listing, created, gone, seen, walks, failures>>

\* fetch_fn reads the page behind the cursor and deals with its items.
Read(w) ==
    LET answer == Listing(setting.name, listing, job[w].cursor)
        page   == {answer.items[i] : i \in DOMAIN answer.items}
    IN
    /\ job[w].stage = "loaded"
    /\ job' = [job EXCEPT ![w].stage = "read", ![w].next = answer.cursor,
                          ![w].more = answer.has_more]
    /\ seen' = seen \cup page
    /\ walk' = [walk EXCEPT ![w].got = @ \cup page]
    /\ UNCHANGED <<setting, listing, created, gone, sync, walks, failures>>

\* Faulty variant: the cursor is never saved.
KeptCopy(copy, next) == copy

\* mark_completed: an empty cursor leaves that of the copy, and saves it.
Kept(copy, next) == IF next # 0 THEN next ELSE copy

Complete(w) ==
    LET cursor == Kept(job[w].cursor, job[w].next) IN
    /\ job[w].stage = "read"
    /\ sync' = cursor
    /\ job' = [job EXCEPT ![w].stage = "returned",
                          ![w].cursor = cursor, ![w].next = 0]
    /\ UNCHANGED <<setting, listing, created, gone, seen, walk, walks,
                   failures>>

\* The adapter or fetch_fn raises before it has dealt with the page:
\* mark_failed leaves the cursor alone, and the result has errors.
ReadFails(w) ==
    /\ job[w].stage = "loaded"
    /\ failures < MaxFailures
    /\ failures' = failures + 1
    /\ job' = [job EXCEPT ![w] = NoJob]
    /\ walk' = [walk EXCEPT ![w] = NoWalk]
    /\ UNCHANGED <<setting, listing, created, gone, sync, seen, walks>>

\* A script calls again with the same object while there is more.
Again(w) ==
    /\ job[w].stage = "returned"
    /\ job[w].more
    /\ job' = [job EXCEPT ![w] = At("loaded", job[w].cursor)]
    /\ UNCHANGED <<setting, listing, created, gone, sync, seen, walk, walks,
                   failures>>

\* A task reads one page, more or not.
Return(w) ==
    /\ job[w].stage = "returned"
    /\ job' = [job EXCEPT ![w] = NoJob]
    /\ walk' = [walk EXCEPT ![w] = NoWalk]
    /\ UNCHANGED <<setting, listing, created, gone, sync, seen, walks,
                   failures>>

-----------------------------------------------------------------------------
(* ProductSyncEngine.pull_products                                         *)

Pull(w) ==
    /\ job[w].stage = "none"
    /\ walks < MaxWalks
    /\ walks' = walks + 1
    /\ job' = [job EXCEPT ![w] = At("pulling", 0)]
    /\ walk' = [walk EXCEPT ![w] = Walk]
    /\ UNCHANGED <<setting, listing, created, gone, sync, seen, failures>>

\* A page is read and every item handed to on_product, which may refuse some.
PullPage(w) ==
    LET answer == Listing(setting.name, listing, job[w].cursor)
        page   == {answer.items[i] : i \in DOMAIN answer.items}
    IN
    /\ job[w].stage = "pulling"
    /\ job' = [job EXCEPT ![w] = IF answer.has_more
                                 THEN At("pulling", answer.cursor)
                                 ELSE At("returned", 0)]
    /\ seen' = seen \cup page
    /\ walk' = [walk EXCEPT ![w].got = @ \cup page]
    /\ UNCHANGED <<setting, listing, created, gone, sync, walks, failures>>

\* An exception of the adapter leaves pull_products, or a worker dies.
Stop(w) ==
    /\ job[w].stage # "none"
    /\ failures < MaxFailures
    /\ failures' = failures + 1
    /\ job' = [job EXCEPT ![w] = NoJob]
    /\ walk' = [walk EXCEPT ![w] = NoWalk]
    /\ UNCHANGED <<setting, listing, created, gone, sync, seen, walks>>

-----------------------------------------------------------------------------
Proceed(w) ==
    \/ Reset(w) \/ Read(w) \/ Complete(w) \/ Again(w) \/ Return(w)
    \/ PullPage(w)

SyncNext ==
    \/ Create
    \/ \E i \in 1..MaxRows : Remove(i)
    \/ \E w \in Workers :
         \/ Load(w) \/ LoadForResync(w) \/ Pull(w)
         \/ Proceed(w)
         \/ ReadFails(w) \/ Stop(w)

SyncSpec == SyncInit /\ [][SyncNext]_syncVars

\* A scheduled sync is started again and again, and what was started goes on.
Fairness == \A w \in Workers : WF_syncVars(Load(w) \/ Proceed(w))

FairSpec == SyncSpec /\ Fairness

-----------------------------------------------------------------------------
(* What the walks promise                                                  *)

SyncTypeOK ==
    /\ setting \in Settings
    /\ listing \in Seq(1..MaxRows) /\ Len(listing) <= created
    /\ created \in 0..MaxRows
    /\ gone \in 0..MaxGone
    /\ sync \in Cursors
    /\ job \in [Workers -> Job]
    /\ seen \subseteq 1..created
    /\ \A w \in Workers : walk[w].owed \cup walk[w].got \subseteq 1..created
    /\ walks \in 0..MaxWalks
    /\ failures \in 0..MaxFailures

\* Rows that keep their place: nothing was removed, or it does not matter.
InPlace == gone = 0 \/ setting.name \in Steady

\* What a cursor has behind it.
Behind(cursor) ==
    {listing[i] : i \in {k \in DOMAIN listing :
       CASE setting.name = "shopify" -> listing[k] <= cursor
         [] setting.name \in FromZero -> k <= cursor * PageSize
         [] OTHER -> cursor > 0 /\ k <= (cursor - 1) * PageSize}}

\* Oldest first, no cursor ever passes a row that nobody read: not the saved
\* one, whatever copies the workers wrote it from, nor that of a worker.
NothingSkipped ==
    setting.oldest_first /\ InPlace
        => /\ Behind(sync) \subseteq seen
           /\ \A w \in Workers :
                job[w].stage # "none" => Behind(job[w].cursor) \subseteq seen

\* A walk from the start that ends without an error has read every row that was
\* there from its start to its end, in either order, whatever was created and
\* whatever other workers saved meanwhile.
WalkComplete ==
    \A w \in Workers :
        job[w].stage = "returned" /\ ~job[w].more
            /\ setting.name \notin FirstPageOnly
          => walk[w].owed \subseteq walk[w].got

\* Walks end: a loop on has_more comes to a page that has none.
WalksEnd ==
    setting.name \notin Cursorless
        => \A w \in Workers : []<>(job[w].stage = "none")

\* Scheduled syncs, each of one page, come to every row in the end: however
\* many are created, there is again a time when every row has been read.
EventuallyFetched ==
    (setting.oldest_first \/ setting.name \in AllAtOnce)
            /\ setting.name \notin FirstPageOnly
        => []<>(Rows(listing) \subseteq seen \/ ~InPlace)

=============================================================================
