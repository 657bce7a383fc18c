----------------------------- MODULE PushSync -----------------------------
(***************************************************************************)
(* PushService.push: local products are sent to the provider through       *)
(* ProductSyncEngine, SyncLink rows remember what was sent, and one        *)
(* SyncState row is the lock.                                              *)
(*                                                                         *)
(* The provider is called for every product before any link is saved, and  *)
(* each worker goes by the copies of the rows it read when it started.     *)
(***************************************************************************)
EXTENDS Naturals, FiniteSets, Sequences

CONSTANTS
    Workers,    \* workers that may push the same resource of one connection
    Items,      \* local products
    Contents,   \* contents of a local product: what its parts say
    Adapters,   \* kinds of adapter: what they can do with a product
    MaxRemote,  \* bound: products ever created at the provider
    MaxEdits,   \* bound: local edits and products adopted
    MaxFaults,  \* bound: rejections, lost answers, exceptions and crashes
    MayCrash    \* whether a worker may die once products were sent

ASSUME BoundsAssumption ==
    /\ MaxRemote \in Nat
    /\ MaxEdits \in Nat
    /\ MaxFaults \in Nat
ASSUME CrashAssumption == MayCrash \in BOOLEAN
ASSUME AdaptersAssumption ==
    Adapters \subseteq [full: BOOLEAN, create: BOOLEAN]

\* A product as the engine tells its parts apart.
Parts == {"stock", "price", "rest"}

\* What a product says, part by part; 0 is a part left to the shop (None).
Shown == [Parts -> Nat]

\* Nothing is left out of a product but its stock and its price.
ASSUME ContentsAssumption ==
    Contents # {} /\ \A c \in Contents : c \in Shown /\ c["rest"] # 0

VARIABLES
    sync,    \* the SyncState row: status, and whether updated_at is recent
    links,   \* the SyncLink row of each item
    local,   \* the current local content of each item
    remote,  \* the provider's products, in the order they were created
    job,     \* what each worker is doing, with its copies
    edits, faults,
    losses,  \* history: faults after which we cannot know what was created
    unsure,  \* history: items sent by a run that ended before saving their link
    adapter  \* whether the adapter has the full update and the creation

vars == <<sync, links, local, remote, job, edits, faults, losses, unsure,
          adapter>>

-----------------------------------------------------------------------------
(* Data.  A remote id is a position in remote; 0 is the empty remote_id.   *)
(* A missing link and a pending one with no ids are the same to push.  A   *)
(* content hash is the content it is the hash of.                          *)

NoHash == [part \in Parts |-> 0]

SyncRow == [status: {"idle", "running", "completed", "failed"},
            fresh: BOOLEAN]

Link == [remote_id: 0..MaxRemote, content_hash: Contents \cup {NoHash},
         status: {"pending", "linked", "error"}]

Product == [item: Items, content: Shown]

Result == [status: {"unsent", "ok", "error"}, remote_id: 0..MaxRemote]

Unsent == [status |-> "unsent", remote_id |-> 0]

Job == [stage: {"idle", "loaded", "running", "pushing", "held"},
        sync: SyncRow,
        want: [Items -> Contents],
        links: [Items -> Link],
        todo: SUBSET Items,
        result: [Items -> Result]]

\* What a worker holds before its first push.
Blank ==
    [stage |-> "idle",
     sync |-> [status |-> "idle", fresh |-> TRUE],
     want |-> [i \in Items |-> CHOOSE c \in Contents : TRUE],
     links |-> [i \in Items |->
                 [remote_id |-> 0, content_hash |-> NoHash,
                  status |-> "pending"]],
     todo |-> {},
     result |-> [i \in Items |-> Unsent]]

\* Faulty variant: an item in error is skipped like a linked one.
UnchangedWhateverStatus(l, c) ==
    l.remote_id # 0 /\ l.content_hash = c

\* The items whose link says nothing has changed.
Unchanged(l, c) ==
    l.status = "linked" /\ l.remote_id # 0 /\ l.content_hash = c

-----------------------------------------------------------------------------
Init ==
    /\ sync = [status |-> "idle", fresh |-> TRUE]
    /\ links = Blank.links
    /\ local \in [Items -> Contents]
    /\ remote = <<>>
    /\ adapter \in Adapters
    /\ job = [w \in Workers |-> Blank]
    /\ edits = 0
    /\ faults = 0
    /\ losses = 0
    /\ unsure = {}

\* The consumer edits a product.
LocalEdit(i, c) ==
    /\ edits < MaxEdits
    /\ local[i] # c
    /\ local' = [local EXCEPT ![i] = c]
    /\ edits' = edits + 1
    /\ UNCHANGED <<sync, links, remote, job, faults, losses, unsure, adapter>>

\* Faulty variant: a dead holder's lock is never taken over.
FreeNeverStale(s) == s.status # "running"

\* acquire_lock refuses a running state that is recent on the worker's copy.
Free(s) == ~(s.status = "running" /\ s.fresh)

\* A pull links an item to a product that was made at the provider, and gives
\* the item its content (PullDecision with a local_id and a content_hash).
Adopt(i, c) ==
    /\ \A w \in Workers : job[w].stage = "idle"
    /\ Free(sync)
    /\ edits < MaxEdits
    /\ \A n \in 1..Len(remote) : remote[n].item # i
    /\ links[i].remote_id = 0
    /\ Len(remote) < MaxRemote
    /\ remote' = Append(remote, [item |-> i, content |-> c])
    /\ links' = [links EXCEPT ![i] = [remote_id |-> Len(remote) + 1,
                                      content_hash |-> c,
                                      status |-> "linked"]]
    /\ local' = [local EXCEPT ![i] = c]
    /\ sync' = [status |-> "completed", fresh |-> TRUE]
    /\ edits' = edits + 1
    /\ UNCHANGED <<job, faults, losses, unsure, adapter>>

\* The caller of push loads the SyncState row and builds the PushItems.
Load(w) ==
    /\ job[w].stage = "idle"
    /\ job' = [job EXCEPT ![w] =
                [Blank EXCEPT !.stage = "loaded", !.sync = sync,
                              !.want = local]]
    /\ UNCHANGED <<sync, links, local, remote, edits, faults, losses, unsure,
                   adapter>>

Refused(w) ==
    /\ job[w].stage = "loaded"
    /\ ~Free(job[w].sync)
    /\ job' = [job EXCEPT ![w] = Blank]
    /\ UNCHANGED <<sync, links, local, remote, edits, faults, losses, unsure,
                   adapter>>

Acquire(w) ==
    /\ job[w].stage = "loaded"
    /\ Free(job[w].sync)
    /\ sync' = [status |-> "running", fresh |-> TRUE]
    /\ job' = [job EXCEPT ![w].stage = "running", ![w].sync = Blank.sync]
    /\ UNCHANGED <<links, local, remote, edits, faults, losses, unsure,
                   adapter>>

\* The links are read, the unchanged items skipped.
ReadLinks(w) ==
    /\ job[w].stage = "running"
    /\ job' = [job EXCEPT
                ![w].stage = "pushing",
                ![w].links = links,
                ![w].todo = {i \in Items :
                               ~Unchanged(links[i], job[w].want[i])}]
    /\ UNCHANGED <<sync, links, local, remote, edits, faults, losses, unsure,
                   adapter>>

\* match_fn: the remote_id of the link as it was read.
Match(w, i) == job[w].links[i].remote_id

Sending(w, i) ==
    /\ job[w].stage = "pushing"
    /\ i \in job[w].todo
    /\ job[w].result[i] = Unsent

\* The parts an update carries: without ProductFullUpdateCapability only the
\* stock and the price, a call each.
Written == IF adapter.full THEN Parts ELSE {"stock", "price"}

\* A part that is None is not sent: the shop keeps its own.
Overlay(old, new, parts) ==
    [part \in Parts |-> IF part \in parts /\ new[part] # 0
                        THEN new[part] ELSE old[part]]

\* What the provider does with one product of a call, of which these parts
\* reach it.
Apply(w, i, parts) ==
    IF Match(w, i) # 0
    THEN remote' = [remote EXCEPT ![Match(w, i)] =
                     [item |-> i,
                      content |-> Overlay(remote[Match(w, i)].content,
                                          job[w].want[i], parts)]]
    ELSE /\ adapter.create
         /\ Len(remote) < MaxRemote
         /\ remote' = Append(remote,
                             [item |-> i, content |-> job[w].want[i]])

\* Faulty variant: answers are read one index off.
AnsweredIdOfNeighbour(w, i) ==
    IF Match(w, i) # 0 THEN Match(w, i) ELSE Len(remote)

\* The id the answer carries.  _absorb_bulk finds it by the item's index.
AnsweredId(w, i) ==
    IF Match(w, i) # 0 THEN Match(w, i) ELSE Len(remote) + 1

Sent(w, i) ==
    /\ Sending(w, i)
    /\ Apply(w, i, Written)
    /\ job' = [job EXCEPT ![w].result[i] =
                [status |-> "ok", remote_id |-> AnsweredId(w, i)]]
    /\ UNCHANGED <<sync, links, local, edits, faults, losses, unsure, adapter>>

\* There is no such product and the adapter cannot create one: nothing is sent,
\* and the engine reports no error.
Skipped(w, i) ==
    /\ Sending(w, i)
    /\ Match(w, i) = 0
    /\ ~adapter.create
    /\ job' = [job EXCEPT ![w].result[i] =
                [status |-> "ok", remote_id |-> 0]]
    /\ UNCHANGED <<sync, links, local, remote, edits, faults, losses, unsure,
                   adapter>>

\* create_product answered without an id: the engine reports no error.
SentWithoutId(w, i) ==
    /\ Sending(w, i)
    /\ Match(w, i) = 0
    /\ faults < MaxFaults
    /\ Apply(w, i, Written)
    /\ job' = [job EXCEPT ![w].result[i] =
                [status |-> "ok", remote_id |-> 0]]
    /\ faults' = faults + 1
    /\ losses' = losses + 1
    /\ UNCHANGED <<sync, links, local, edits, unsure, adapter>>

\* The provider refuses the product, or the call with it: nothing is applied.
Rejected(w, i) ==
    /\ Sending(w, i)
    /\ faults < MaxFaults
    /\ job' = [job EXCEPT ![w].result[i] =
                [status |-> "error", remote_id |-> 0]]
    /\ faults' = faults + 1
    /\ UNCHANGED <<sync, links, local, remote, edits, losses, unsure, adapter>>

\* The provider applies the product and the answer never arrives; or, where the
\* stock and the price are two calls, only the first of them succeeds.
Lost(w, i) ==
    /\ Sending(w, i)
    /\ faults < MaxFaults
    /\ \/ Apply(w, i, Written)
       \/ ~adapter.full /\ Match(w, i) # 0 /\ Apply(w, i, {"stock"})
    /\ job' = [job EXCEPT ![w].result[i] =
                [status |-> "error", remote_id |-> 0]]
    /\ faults' = faults + 1
    /\ losses' = losses + 1
    /\ UNCHANGED <<sync, links, local, edits, unsure, adapter>>

\* The answer to a creation is lost and the HTTP client sends the call again
\* (RetryPolicy, for the adapters that do not pass retry=False): the product is
\* created twice and the second id is answered.
Replayed(w, i) ==
    /\ Sending(w, i)
    /\ Match(w, i) = 0
    /\ adapter.create
    /\ faults < MaxFaults
    /\ Len(remote) + 2 <= MaxRemote
    /\ LET product == [item |-> i, content |-> job[w].want[i]]
       IN  remote' = remote \o <<product, product>>
    /\ job' = [job EXCEPT ![w].result[i] =
                [status |-> "ok", remote_id |-> Len(remote) + 2]]
    /\ faults' = faults + 1
    /\ losses' = losses + 1
    /\ UNCHANGED <<sync, links, local, edits, unsure, adapter>>

AllSent(w) ==
    \A i \in job[w].todo : job[w].result[i] # Unsent

\* Faulty variant: the hash is taken when the link is saved.
SavedCurrentHash(w, i) ==
    LET r == job[w].result[i]
        l == job[w].links[i]
    IN  IF r.status = "error"
        THEN [links[i] EXCEPT !.status = "error"]
        ELSE [remote_id |-> IF r.remote_id # 0 THEN r.remote_id
                                               ELSE l.remote_id,
              content_hash |-> local[i],
              status |-> "linked"]

\* Faulty variant: an error forgets the product we already knew.
SavedForgetsId(w, i) ==
    LET r == job[w].result[i]
        l == job[w].links[i]
    IN  [remote_id |-> IF r.remote_id # 0 \/ r.status = "error"
                       THEN r.remote_id ELSE l.remote_id,
         content_hash |-> job[w].want[i],
         status |-> IF r.status = "error" THEN "error" ELSE "linked"]

\* mark_linked and mark_error, on the copy read at the start of the run.
Saved(w, i) ==
    LET r == job[w].result[i]
        l == job[w].links[i]
    IN  IF r.status = "error"
        THEN [links[i] EXCEPT !.status = "error"]
        ELSE [remote_id |-> IF r.remote_id # 0 THEN r.remote_id
                                               ELSE l.remote_id,
              content_hash |-> job[w].want[i],
              status |-> "linked"]

SaveLink(w, i) ==
    /\ job[w].stage = "pushing"
    /\ AllSent(w)
    /\ i \in job[w].todo
    /\ links' = [links EXCEPT ![i] = Saved(w, i)]
    /\ job' = [job EXCEPT ![w].todo = @ \ {i}, ![w].result[i] = Unsent]
    /\ unsure' = unsure \ {i}
    /\ UNCHANGED <<sync, local, remote, edits, faults, losses, adapter>>

\* mark_completed, whatever became of the single items.
Finish(w) ==
    /\ job[w].stage = "pushing"
    /\ job[w].todo = {}
    /\ sync' = [status |-> "completed", fresh |-> TRUE]
    /\ job' = [job EXCEPT ![w] = Blank]
    /\ UNCHANGED <<links, local, remote, edits, faults, losses, unsure,
                   adapter>>

\* With release_lock=False the caller keeps the lock,
Keep(w) ==
    /\ job[w].stage = "pushing"
    /\ job[w].todo = {}
    /\ job' = [job EXCEPT ![w] = [Blank EXCEPT !.stage = "held"]]
    /\ UNCHANGED <<sync, links, local, remote, edits, faults, losses, unsure,
                   adapter>>

\* and releases it itself when it is done.
Release(w) ==
    /\ job[w].stage = "held"
    /\ sync' = [status |-> "completed", fresh |-> TRUE]
    /\ job' = [job EXCEPT ![w] = Blank]
    /\ UNCHANGED <<links, local, remote, edits, faults, losses, unsure,
                   adapter>>

\* History of a run that ends with links unsaved.
Interrupted(w) ==
    LET sent == {i \in job[w].todo : job[w].result[i] # Unsent} IN
    /\ losses' = IF sent # {} THEN losses + 1 ELSE losses
    /\ unsure' = unsure \cup sent

\* Any exception outside the engine (the adapter cannot be built, the database
\* fails) ends the run with mark_failed: the lock is not left held.
Fail(w) ==
    /\ \/ job[w].stage = "running"
       \/ job[w].stage = "pushing" /\ AllSent(w) /\ MayCrash
    /\ faults < MaxFaults
    /\ sync' = [status |-> "failed", fresh |-> TRUE]
    /\ job' = [job EXCEPT ![w] = Blank]
    /\ faults' = faults + 1
    /\ Interrupted(w)
    /\ UNCHANGED <<links, local, remote, edits, adapter>>

\* The worker dies and leaves the lock as it is.
Crash(w) ==
    /\ job[w].stage \in {"running", "pushing", "held"}
    /\ job[w].stage = "pushing" => MayCrash
    /\ faults < MaxFaults
    /\ job' = [job EXCEPT ![w] = Blank]
    /\ faults' = faults + 1
    /\ Interrupted(w)
    /\ UNCHANGED <<sync, links, local, remote, edits, adapter>>

\* LOCK_STALE_MINUTES go by without a save of the SyncState row; acquire_lock asks
\* for the age of a running state only.
Age ==
    /\ \/ sync.status = "running"
       \/ \E w \in Workers : job[w].sync.status = "running"
    /\ sync' = [sync EXCEPT !.fresh = FALSE]
    /\ job' = [w \in Workers |-> [job[w] EXCEPT !.sync.fresh = FALSE]]
    /\ UNCHANGED <<links, local, remote, edits, faults, losses, unsure,
                   adapter>>

\* The steps a push takes as long as its worker lives.
Proceed(w) ==
    \/ Refused(w) \/ Acquire(w) \/ ReadLinks(w)
    \/ Finish(w) \/ Keep(w) \/ Release(w)
    \/ \E i \in Items : Sent(w, i) \/ Skipped(w, i) \/ SaveLink(w, i)

Next ==
    \/ \E i \in Items, c \in Contents : LocalEdit(i, c) \/ Adopt(i, c)
    \/ \E w \in Workers :
         \/ Load(w)
         \/ Proceed(w)
         \/ \E i \in Items :
              \/ SentWithoutId(w, i) \/ Rejected(w, i)
              \/ Lost(w, i) \/ Replayed(w, i)
         \/ Fail(w)
         \/ Crash(w)
    \/ Age

Spec == Init /\ [][Next]_vars

\* A live worker runs on, pushes are scheduled again and again, time passes.
Fairness ==
    /\ \A w \in Workers : WF_vars(Proceed(w)) /\ WF_vars(Load(w))
    /\ WF_vars(Age)

FairSpec == Spec /\ Fairness

-----------------------------------------------------------------------------
(* What a push promises                                                    *)

TypeOK ==
    /\ sync \in SyncRow
    /\ links \in [Items -> Link]
    /\ local \in [Items -> Contents]
    /\ remote \in Seq(Product)
    /\ Len(remote) <= MaxRemote
    /\ adapter \in [full: BOOLEAN, create: BOOLEAN]
    /\ job \in [Workers -> Job]
    /\ edits \in 0..MaxEdits
    /\ faults \in 0..MaxFaults
    /\ losses \in 0..MaxFaults
    /\ unsure \subseteq Items

\* A link never points at another item's product, however runs overlap, fail or
\* die: otherwise the next push would overwrite the wrong product.
LinkOwnsRemote ==
    \A i \in Items :
        links[i].remote_id # 0 =>
            /\ links[i].remote_id <= Len(remote)
            /\ remote[links[i].remote_id].item = i

\* With one worker, a product is created twice only after a fault that hid the
\* first creation: a lost or replayed answer, an answer without id, a death
\* after sending.
OneProductPerLoss ==
    \A i \in Items :
        Cardinality({n \in 1..Len(remote) : remote[n].item = i})
            <= 1 + losses

Quiet == \A w \in Workers : job[w].stage = "idle"

\* The product holds what the content says, in the parts that an update sends
\* and that are not left to the shop.
Tells(product, c) ==
    \A part \in Written : c[part] # 0 => product.content[part] = c[part]

\* The content hash of a linked item is the hash of what the provider holds, in
\* every part this adapter can update, so that an unchanged hash may cost no
\* call.  Only the items that a killed run had sent and not saved are excepted,
\* until they are saved again.
LinkTellsRemote ==
    Quiet =>
        \A i \in Items \ unsure :
            links[i].status = "linked" /\ links[i].remote_id # 0 =>
                Tells(remote[links[i].remote_id], links[i].content_hash)

\* Two workers never push the same resource at the same time.
MutualExclusion ==
    \A v, w \in Workers :
        job[v].stage = "pushing" /\ job[w].stage = "pushing" => v = w

\* Whoever holds the lock, dead or alive, it is released in the end.
LockRecovered ==
    sync.status = "running" ~> sync.status # "running"

\* Once edits and faults are over, every product the adapter can create or knows
\* says at the provider what it says here, in every part this adapter can
\* update, with the same exception.
Converges ==
    <>[](\A i \in Items \ unsure :
            /\ links[i].status = "linked"
            /\ adapter.create => links[i].remote_id # 0
            /\ links[i].remote_id # 0 =>
                 Tells(remote[links[i].remote_id], local[i]))

=============================================================================
