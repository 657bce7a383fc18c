# bapp-connectors in TLA+

`bapp-connectors` connects a Django application to shops, couriers, payment
services and the like. Each provider has an adapter; a framework layer
(`src/bapp_connectors/core`) gives adapters an HTTP client with retry and rate
limiting, a product synchronisation engine and a webhook dispatcher; a Django
layer (`packages/django`) keeps connections, sync states, links and webhook
events in database rows and drives the adapters from web requests and Celery
tasks.

Two things are hard. In the two upper layers several workers act on rows of
which each holds a copy, providers answer late, twice or never, and processes
die between a remote write and a saved row. Below them, some seventy adapters
each have their own idea of a cursor, of a session, of an idempotency key, of
what a refresh hands out, of what may be sent again and of which errors it
mentions. These modules model both.

Paths below are relative to the repository; `dj/` stands for
`packages/django/src/django_bapp_connectors/`, `core/` for
`src/bapp_connectors/core/` and provider paths for
`src/bapp_connectors/providers/`.

## Inventory

| Part | State | Operations | What is hard | What makes it correct |
|---|---|---|---|---|
| Connection, circuit breaker (`dj/models/connection.py`, `dj/tasks.py`, part of `dj/services/connection.py`) | enabled and connected flags, failure count, reason, credentials; copies in workers | run a task, test, record a failure, mark connected, re-enable, edit | all writes are made from copies loaded earlier and save some fields only; signals come after the save | the threshold disables, nothing else does, only an operator re-enables, one failure suspends the tasks, listeners are told |
| Push (`dj/services/push.py`, `dj/models/sync_link.py`, `core/sync/engine.py`) | SyncState as a lock, one SyncLink per product, the provider's products | lock, choose, send, save links, release | all products are sent before any link is saved; lost and replayed answers; adapters that send a part of a product or nothing; a lock that is tested and taken in two steps on a copy | links stay with their product, a product is created once unless a fault hid it, links tell what the provider holds, every product arrives, the lock is recovered |
| Pull (`dj/services/pull.py`, `dj/models/sync_state.py`) | cursor and watermark on SyncState, modified marker on the links | walk pages, recognise echoes, hand changes over, resume | products change while they are listed; our own pushes write first and save the marker later; partial runs, failures, deaths | no change is passed over by the watermark, none of our own comes back, a walk in parts ends |
| Webhooks (`dj/webhooks/views.py`, `dj/services/webhook.py`, `core/webhooks/dispatcher.py`, `dj/tasks.py`, `parse_webhook` of the adapters) | one row per idempotency key, the task queue | verify, look up, store, announce, dispatch, process | simultaneous and repeated deliveries; database, broker or process failing between steps; keys that say less than the notification | one announcement per row, at most one processing per delivery, rejected deliveries block nothing, rows settle, what was answered is in a row |
| Rate limiter (`core/http/rate_limit.py`) | tokens, time of the last refill | wait, acquire | threads that sleep outside the lock and compete again | never too fast, no token lost |
| HTTP client, retry (`core/http/client.py`, `retry.py`) | none of its own | call, classify, retry | replay of calls that did take effect; pauses the provider asks for | every request is paid for, Retry-After is honoured, a call keeps its contract |
| Listings (some fifty listing methods of the adapters) and SyncService (`dj/services/sync.py`), `pull_products` of the engine | the cursor on SyncState | one page per scheduled sync, full resync, walk of the engine | every provider has its own cursor and its own sign of the end; no lock; copies; rows come and go during a walk | no cursor passes a row nobody read, walks are complete and end, new rows are fetched |
| Credentials (`persist_rotated_credentials`, `dj/services/oauth.py`, token answers of nineteen adapters, the SAGA Web client) | encrypted credentials | call, import, refresh, authorise, set by hand | read, merge, write from copies; a key replaced before it is saved; answers that leave a token out | the live key is kept, nobody is locked out by us, an import is sent once, refreshes go on |
| Courier bookings (clients and adapters of seven couriers) | the session token of a client | look up, book, wait, fetch the label | one token shared by threads, looked at, read, stored and cleared in separate steps; errors after the shipment was booked | no shipment booked twice, a revoked session is replaced |
| Inbox (`dj/services/inbox.py`, IMAP and Gmail clients) | the mailbox | list, ask the receivers, delete, move, mark | other pollers and the user in the same folder; two or three commands for one action | mail is kept, moved once, a backlog drains |
| Operations of the adapters (`providers/*/*/client.py`, `adapter.py`, some seventeen hundred methods) | none but a session | a few requests each, under `try`, in loops, with the client's own errors | the retry repeats what made something; a handler that catches too much; a step of several that fails | nothing is made twice, no failed change is passed over, a refusal of credentials is heard |
| Order statuses (`core/status_mapping.py`, the mappers of seven shops) | the status of an order on both sides | read, write, overrides of a tenant | two tables that are not each other's inverse; the shop moves the order meanwhile | writing back what was read changes nothing |
| Category sync (`core/sync/engine.py`) | none | `sync_categories` | parents before children | not modelled |
| Registry, errors | none | `create_adapter`, the classes of exceptions | | in `Operations` and `Calls` as far as calls see them |
| Manifests, ports, DTOs, mappings of items, product feeds, pricing, reports, execution log, encryption, admin | none that decides anything between calls | | | not modelled |

The parts meet in four places. The tasks call adapters and tell the breaker of
authentication errors. Push and pull share `SyncState` and `SyncLink`: a push
leaves the modified marker by which a pull knows an echo. Adapters call the
provider through the HTTP client, whose retry may repeat a push, a booking or an
import. What an adapter reads out of a notification becomes the key of its row.

## Modules

Names follow the source. Each module defines the component with its
specification and properties; `MC*` modules hold what TLC needs to instantiate
it, `*Proofs` modules hold theorems. Operators introduced as a *faulty variant*
(`FailedOneLate`, `PageFromZero`...) stand next to the definition they would
replace; they are no part of any specification and serve to show that a
property notices the slip.

Several modules are about many adapters at once. They choose the adapter, and
what goes with it, in `Init` (`setting`, `provider`, `courier`, `setup`,
`policy`): one run then goes through all of them.

**Connection** (`Connection`, `MCConnection`, `ConnectionProofs`). `row` is the
database row, `job[w].copy` the object worker `w` loaded. A job goes from
`idle` over `loaded` (after `_get_connection` and the guard), `answered` (the
provider has spoken) and `saved` (the fields in `update_fields` are in the row)
back to `idle` when its signals are out. `Failed`/`FailedFields`,
`Connected`/`ConnectedFields` and `ReEnabled`/`ReEnabledFields` are the three
mutators and the fields they save. `Begin` is the guard of `dj/tasks.py`; the
kinds of job say who catches an `AuthenticationError`. `Kinds` restricts a run
to some jobs. `total`, `streak` and `muted` are history; `Recount` starts `total`
anew at every success, `re_enable` and edit, from what the row and the copies that
may still be saved carry then. Timestamps and messages
are left out, `disabled_reason` is whether it is empty.

**PushSync** (`PushSync`, `MCPushSync`, `PushProofs`). A remote id is a position
in `remote`, 0 the empty id. `Load` is the caller loading the SyncState row,
`Acquire` and `Refused` are `acquire_lock` on that copy, `ReadLinks` reads links
and chooses `todo`, one `Sent`/`Rejected`/`Lost`/`SentWithoutId`/`Replayed` per
product is `push_products` (a bulk call is a sequence of them, since links are
saved only after all), `SaveLink` is `mark_linked` or `mark_error`, `Finish`,
`Fail` and `Crash` end the run; with `release_lock=False` it is `Keep`, and the
caller's own `Release` later. A content is the stock, the price and the rest of a
product, 0 a part that is left to the shop (None in the DTO). `adapter` says what
the adapter can do: without `ProductFullUpdateCapability` an update carries the
stock and the price alone, in two calls of which the second may fail (`Written`,
`Lost`); without the creation a new product is `Skipped`, and the engine reports no
error. `Adopt` is a link that a pull made, the only way such an adapter gets to know
a product. `Age` lets LOCK_STALE_MINUTES go by. `losses` and
`unsure` are history: the faults that can hide a creation, and the products that
a run sent without living to save the link.

**PullSync** (`PullSync`, `MCPullSync`, `PullProofs`). `clock` counts the
provider's changes; `modified`, `own` and `marker` are times on it. `setting` is
how this host walks: page size, pages per run, with or without the watermark as a
filter, whether products rest between two pages, how many changes there are.
`Page` and `HasMore` are the WooCommerce listing: ordered by modification when
filtered by it, in a fixed order otherwise, cut into numbered pages. `List`
is the call for a page with the look at the links, `Walk` the calls of `on_item` for
what was no echo and the loop, `EndPartial`, `ClearCursor` and `EndComplete` the saves
at the end (the last two are two saves, a death fits between them). `known` is
the last change the consumer was given or made himself. What `on_item` answers
matters only in whether `mark_linked` follows.

Beside the pull runs a push, in its own steps: `StartPush`, `Send` for each product
the engine writes, `SaveLink` when it is through, with the marker of the answer, an
empty one, or after a lost answer the old one, `EndPush`, and `FailPush` for an
exception or a death anywhere between. `origin` is history: whose the last change of
a product is, and whether the marker of ours reached the link. `markers` says whether
the provider tells markers at all, `shared` whether push and pull are given one
SyncState row, as `docs/DJANGO_INTEGRATION.md` does, whose lock then keeps them apart.
One pull and one push run at a time: overlapping holders of the lock have their own
model in `PushSync`.

**Webhook** (`Webhook`, `WebhookKeys`, `WebhookContent`, `MCWebhook`,
`WebhookProofs`). In `Webhook` a notification stands for its key. A request is
`new` or `known` after the look-up, `stored` after the insert, `announced` before
the dispatch. `Conflict` is the IntegrityError of the second insert. `queue`
counts tasks, `Take` to `Signal` are `process_webhook`. `announced`, `processed`,
`accepted` and `hit` are history. `WebhookKeys` has the idempotency key of every
adapter that reads one out of the notification, as the parts it is made of
(the provider's id, the subject, its status, a result code, the time), and the
body hash the receiver uses without an adapter. `WebhookContent` puts the
notifications themselves beside the rows: a request carries one, `Store` puts it
into the row of its key, a duplicate leaves its own behind. Its steps are those of
`Webhook` and no others (`ContentKeepsRows`).

**RateLimiter** (`RateLimiter`; its proofs are in `HttpClientProofs`). Time is in ticks and a
token costs `Interval` of them. `Grant` and `Miss` are the critical section of
`wait` and `acquire`, `Refuse` and `Sleep` what follows outside the lock.
Rounding of floats is left out.

**HttpClient** (`HttpClient`, `RemoteCall`, `MCHttpClient`, `HttpClientProofs`).
`HttpClient` extends the limiter by `call[t]`, the call a thread is making: it
waits for a token (`limited`), has one (`granted`), pauses before the next
attempt (`pausing`), or has ended as a value (`returned`), as the raw answer of
`direct_response` (`unchecked`) or as an exception (`raised`). The answer of an
attempt is classified as `_classify_error` does; `Delay` and `Retryable` are the
retry policy. `RemoteCall` is what a caller may rely on, with no clock, no limiter
and no policy: a bounded number of requests, one under `retry=False`, and a value
only if the provider applied the call. `CallsKept` is the refinement. `LimiterUsed`
is a second one: seen from its own variables, the limiter follows its own
specification.

**Listings, SyncService** (`Listings`, `SyncService`, `MCSyncService`; proofs in
`AdapterProofs`).
`Listings` is pure: for each listing method, the items, the cursor and `has_more`
it answers for a cursor, over a listing that the provider orders. Methods that
are alike share an operator (`FullPage`, `CountedPages`...) and each keeps a
definition of its own. Rows are numbers that grow in the order of creation, so the
provider's "after this row" and "before this row" are a place in the listing
(`RemoteSince`, `RemoteBefore`). `SyncService` walks one of them: `Load` to the save of
`incremental_sync`, `full_resync`, and the loop of `pull_products`, by workers
with copies of the cursor, while rows are created and removed.

**Credentials** (`TokenGrants`, `Credentials`, `MCCredentials`,
`CredentialsProofs`). `TokenGrants` is pure: which of the two stored tokens each
adapter replaces when a code is exchanged and when a token is refreshed.
`Credentials` has the row, the jobs with their copies and the provider, with
the keys it takes. SAGA Web may answer any request with a new key and block the
old one; OAuth providers replace tokens in refreshes. `spoiled` is history: the
row holds a key nobody takes because a fault lost the other, or because the
adapter never stores it.

**Courier** (`Courier`, `MCAdapters`, `AdapterProofs`). `generate_awb` by threads
that share a client: look up what the booking needs (`Prepare`: branch, pickup point,
localities, form), book, wait (eColet), fetch the label, then the next shipment. Before
every request `_ensure_token` looks at the shared token (`Look`) and reads it for the
header (`Take`), or logs in (`LogIn`) and stores the new one (`Store`), which some
clients then read again (`ReReads`); another thread's refusal may clear it between any
two of these, and the request then goes out with an empty one. `Refusal` says which
answers reach the user as wrong data, whereupon he corrects them and books again: with
DPD these are all answers with an error object, those of an outage included.

**Inbox** (`Inbox`, `MCInbox`, `InboxProofs`). `poll` by several pollers: what is fetched, what
the receivers answer, and the IMAP or Gmail commands of each action, beside a
user who flags messages. `setup` is the server with its extensions and the
receivers' answers.

**Operations** (`Calls`, the nine catalogues, `Scripts`, `Operations`, `MCAdapters`,
`AdapterProofs`). What
each operation of an adapter, and each method of its client, does to its provider
is a *script*: the requests in the order in which the code sends them, and the
control around them. `Calls` has the words. A request reads (`Ask`), does the same
when repeated (`Change`), removes (`Drop`) or makes a new thing each time
(`Make(what)`); it may go out under `retry=False` (`Once`) or have its status
looked at by nobody (`Unread`). `Either`, `Optional` and `Each` stand for what the
arguments and the answers decide; `Try`, `Raise`, `Reraise`, `Tell` (the result
says that something failed) and `Forget` (what was caught is not mentioned) for
the handlers. The exceptions are those a handler somewhere tells apart.
`Payments`, `Shops`, `AdCalls`, `SocialCalls`, `MessagingCalls`, `CourierCalls`,
`StorageCalls`, `EmailCalls` and `ServiceCalls` (accounting, ERP, app stores,
devops, monitoring, network, hosting, models) are the catalogues: a record per
client and per adapter, a field per method. A name like `CargusCall` is the
wrapper through which a client sends everything, with its login, its second
attempt and its renaming of errors. A client is listed beside its adapter where
hosts can call it; where an adapter sends all by itself it stands alone.

`Operations` carries one script out of its constant `Catalogue`, which `MCAdapters`
makes of the nine. `Send` is a whole call of the HTTP client
with what `RemoteCall` lets become of it: an error or a lost answer after none,
one or two effects, or none or one under `retry=False`. `Throw` looks for the
innermost handler left in `todo`, and `Repeat` goes round a loop any number of
times. `hidden`, `repeated`, `blind` and `refused` are
history; `refused` stays once any request of the call was refused for its
credentials, whatever is sent after it. An answer that is not what the code expects is left out unless the code
looks for it, which then is an `Optional(Raise(...))`.

`Scripts` says what can be told of a script without carrying it out: its nodes, how
they nest, what may come first in it, what comes after what.
`CatalogueAssumption` puts the discipline of the adapters in those words: what is
made is made with `retry=False` (`MakesOnce`), a handler of `AuthenticationError`
begins by raising it or telling of it and no status goes unread (`Hears`), nothing is made after a failure is forgotten
(`Sighted`), and what is forgotten after a change is the failure of reads (`Frank`).
TLC evaluates it for all of the 1,680 operations in every run of `MCAdapters`; the
theorems hold for any catalogue that satisfies it.

**OrderStatuses** (`OrderStatuses`, `MCAdapters`, `AdapterProofs`). The tables of
seven shops, whatever a tenant maps in place of them (`Configs`: any raw statuses,
any statuses, misspelt ones too), and one order that the shop moves, that the
application reads, and to which it writes a status. `Reads` and `Writes` are the
dictionaries that the mapper of the shop looks in; `OwnInbound` and `OwnOutbound`
are what the tenant's mappings put into them, for not every adapter passes them on.

`MCAdapters` checks Courier, Operations and OrderStatuses in one run: `part` is the
one that moves, the others stand still.

## Runs

| Run | Instance | Shows |
|---|---|---|
| connection_serial | 1 worker, 2 keys, threshold 3, all jobs but the service's test and the sync tasks, deaths | ConsecutiveFailuresDisable, StatusAnnounced |
| connection_live | 2 workers, threshold 2, tasks, both tests and re-enabling, fairness | NoSpuriousTrip, OnlyManualReenable, StormEnds, TripAlerted |
| connection_swallow | 1 worker, scheduled syncs only | StormEnds fails |
| push_faults | 1 worker, 2 products, 2 contents, an adapter that can create and fully update or neither, 2 edits or adoptions, 2 faults, deaths, fairness | LinkOwnsRemote, OneProductPerLoss, LinkTellsRemote, LockRecovered, Converges |
| push_race | 2 workers, no fault | MutualExclusion fails |
| pull_walks | 2 products, 2 changes; pages of 1, at rest between two pages; pages of 3, changing at any moment; pages of 1, one a run, no filter, no markers, changing; pushes with a row of their own; failures, deaths, fairness | EveryChangeDelivered, NoEcho, EventuallyKnown |
| webhook_races | 2 notifications, 2 requests, 2 workers, up to 3 deliveries, 2 failures, 5 providers, fairness | AnnouncedOnce, ProcessedPerDelivery, AcceptedWasAnnounced, ContentKept, RowsSettle |
| http_client | 2 threads, interval 2, burst 1, 4 ticks, 2 policies, Retry-After 0 or 3 | WindowBound, EveryRequestPaid, RetryAfterHonoured, LimiterUsed, CallsKept |
| listing_sync | 2 workers, pages of 2, 3 rows, 1 removed, 1 walk, 1 fault, 9 listings, fairness | NothingSkipped, WalkComplete, WalksEnd, EventuallyFetched |
| credentials | 2 workers, 7 providers, 4 keys, 2 expirations, 1 authorisation, 2 faults, fairness | KeyKept, NotLockedOut, ImportOnce, Refreshed |
| adapters | 2 callers, 7 couriers, 2 calls for a shipment, 2 logins, 1 fault; every operation of every adapter and client in the catalogues; 7 shops, 7 tenants | BookedOnce, SessionReplaced, MadeOnce, NothingHidden, RefusalHeard, StatusSettles |
| inbox | 2 pollers, 3 messages, limit 2, 4 servers, 1 fault, 1 mark, fairness | MailKept, BacklogDrains |

Why these bounds. Lost updates, races for a lock, a key or a token take two
actors; a third adds no new pair of copies. The threshold is the code's 3 where
the count matters, 2 where liveness makes states dear: what counts is that one
failure does not reach it and that it can be passed. Two products make links that
could cross; two contents make a product that changes and changes back, and the
second leaves its stock to the shop. Two kinds of adapter are the two there are: with
the full update and the creation, and with neither; an adoption takes one of the
edits. Two faults make a fault while another is being mended. `MaxRemote` is large
enough never to block a run under these faults, or `Converges` would fail. Two
products on pages of one make a listing of several pages, whose last is full and has
an empty one behind it, also after a filter; on a page of three they are a partial
one. Two changes suffice for one before or during a run and one after it, ours or the
provider's. Three rows on pages of two make a full and a partial page,
and a row that arrives when the first is read or is removed below the cursor;
the nine listings are one for every kind of cursor and every way to find the end.
Two notifications are one about a subject and the next one about it; three
deliveries make a forged, a genuine and a repeated one, two of them a repeated
one beside. The providers of webhook_races are the receiver without an adapter,
a key with the status, a key with the time, one per status where a report is repeated, and one
that blurs; of all the others TLC evaluates over small parts that their keys tell
what `Covers` says (the assumption `KeysTell`). Four ticks let the bucket
run dry, refill, be missed and let a pause of Retry-After pass its limit of 2.
Four keys of SAGA Web make a first one, its replacement, one more by another job
and one set by hand. Two calls are a booking and the one after a refusal, and a
shipment may follow it; two logins are one of each caller beside the other, or one and
the one after a revocation; each token may be revoked. A request acts at most twice because a third effect is no other
than the second; the handlers of a script do not depend on anything else, so all
of them are run through, and no loop needs a bound, since a pass more leads to no new
state once nothing new is left to go wrong in it. The seven tenants map nothing, one
status in either direction or both, as `status_mapping.py` has it in its comment, the
raw statuses of other statuses, a misspelt and an empty one, and cancellations in
ways that agree and ways that do not. Three messages with a limit of two leave one out
of sight.

`CHECK_DEADLOCK FALSE` is set everywhere because the counters bound by `Max...`
do stop the models, as does the end of an operation; the programs do not.
`MCSymmetry` is used by http_client and adapters: nothing in them tells two threads
or two callers apart and their properties are invariants and step properties.

`ThresholdDisables`, `SuspectNotOperational` and `NoTokenLost` are stated in their
modules and proved (see below) for every instance; no run checks them.

### Fairness

* Connection: a job that has begun goes on (`Proceed`; its worker is not killed
  in this run), and Celery beat starts guarded tasks again and again. Nothing is
  assumed of operators.
* PushSync: a live worker goes on, pushes are scheduled again and again, time
  passes. No fairness is asked of faults, edits or any single product.
* PullSync: pulls are scheduled, a live pull and a live push go on, time passes.
  Nothing makes a push start.
  `EventuallyKnown` assumes that failures stop some time.
* Webhook: a request being handled goes on, a worker goes on and takes from the
  queue as long as it holds something. Nothing is assumed of the provider.
* SyncService: syncs are scheduled again and again and a sync that has begun goes
  on. Full resyncs and pulls are started by people: nothing is assumed of them.
* Credentials: a job goes on, and the host refreshes tokens periodically, as
  `docs/DJANGO_INTEGRATION.md` asks it to.
* Inbox: the host polls again and again and a poll that has begun goes on.
* HttpClient, Courier, Operations and OrderStatuses are checked for safety only.

Each is weak fairness of the whole next step of an actor, which a scheduler that
runs every process gives.

### Exceptions in the properties

Each exception is something the code does; without it TLC shows the behaviour.

* `LinkTellsRemote` and `Converges` except the products a killed run had sent and
  not saved (`unsure`): the link names the content before, and a local product
  that changes back to it is skipped while the provider keeps the other.
  `OneProductPerLoss` allows one more creation for each fault that hid one, and
  holds for one worker: two that overlap may both create.
* `LinkTellsRemote` and `Converges` speak of the parts that the adapter can update
  and that the product does not leave to the shop: without the full update the link
  takes the hash of what was never sent. A product that such an
  adapter cannot create is linked without an id and held to nothing.
* `EveryChangeDelivered` speaks of walks with no cursor left over and of pushes that
  have a SyncState row of their own: with one row for both (`OneRow` in
  `MCPullSync`) a push moves the watermark past changes nobody pulled, and TLC finds
  it violated;
  where pages are numbered over a filtered listing (`at_rest`) its setting lets
  products change at any moment except between two pages, and no product is pushed
  whose last change was not pulled (`PushesUnseen`).
* `NoEcho` is about the changes of ours whose marker reached the link and is still
  the one of the last change. A push that dies before the save, loses its answer or is
  told no marker leaves another, and a page listed before the push puts an older one
  over it: our change then comes back.
* `NoSpuriousTrip` counts, on top of what was recorded since the last reset, what the
  jobs then under way had loaded: a job that outlives a `re_enable` saves the count
  it knew, and may disable the connection again at once.
* `AcceptedWasAnnounced`, `ContentKept` and `RowsSettle` except the notifications
  on which a failure fell (`hit`): the view answers 200 whatever happens, and
  nothing takes such a row up again. `ContentKept` asks of the `ByStatus` keys
  that the row report the same status and of the `Blurring` ones no more than the
  same subject.
* `NothingSkipped` and `EventuallyFetched` are about listings that grow at their
  end (or come whole): where new rows come first, a saved page number leads past
  them. They leave out the time after a removal where cursors are positions
  (`InPlace`). `WalksEnd` excepts `Cursorless`, `WalkComplete` and
  `EventuallyFetched` except `FirstPageOnly`: eMAG invoices, filtered Stripe
  payments, CEL.
* `KeyKept`, `NotLockedOut` and `Refreshed` except `spoiled` connections;
  those of the `Forgetting` adapters (TikTok, LinkedIn, Pinterest and the
  advertising of the last two) are spoiled from the start.
* `BookedOnce` leaves out `Retries`, Sameday and Colete Online, which book under
  the retry policy, and DPD, whose error answers all read as wrong data
  (`courier/dpd/client.py:53`): after an outage that did book, the user is told to
  correct the shipment and books it again.
* `SessionReplaced` leaves out requests that bear an empty token. One caller's 401
  clears the shared token after another has looked at it and before he reads it
  (`courier/fancourier/client.py:58`, `courier/cargus/client.py:65`,
  `courier/ecolet/client.py:69`). With eColet that call fails; with FAN Courier and
  Cargus it logs in again and fails only if a third caller does the same to it once
  more. It speaks of the couriers that answer a 401 at all: the others keep the
  refused token until its time is over.
* `MailKept` excepts a message whose COPY was refused, and on servers without
  UIDPLUS those the user has flagged; of the copies it allows
  one, except for the moves that a fault, the user or another poll disturbed;
  `BacklogDrains` asks that fewer messages stay in the
  folder than a poll takes.
* `MadeOnce` speaks of the `Careful` adapters, which send with `retry=False` (or
  under a key of their own) whatever makes a thing. Of the others most may make it
  twice when an answer is lost: most shops a product, most messengers a message.
* `NothingHidden` except the operations of `Quiet`, which return as if all were
  well after a failed change (the addresses of a mail that were refused, a `delete`
  that takes any error for "not there", GLS labels, Google's status changes and the
  like), and those of `MayBeBlind`, which make something after a read they could do
  without.
* `RefusalHeard` except the `Unheard` adapters. Couriers, Altex, GitLab, Sentry,
  LinkedIn, YouTube and Gmail take a 403 for something else, logins over FTP, SFTP,
  IMAP, SMTP and S3 fail with the library's error, and Meta names an expired token
  in a code of the body: the breaker of their connections never counts these.
  Of the other adapters it excepts the sixty-three operations of `Deaf`, where one
  kind of request is not heard: a handler takes every failure for "nothing there"
  (`shop/emag/adapter.py:285`, the detections of Temu and WooCommerce, PrestaShop's
  paid state, Magento's related products, labels of Sameday and Colete Online), or
  runs into another error of its own (Magento's update of the stock), or the status of
  the answer is looked at by nobody (downloads of the cloud stores), or something else
  is tried. Every one of the sixty-three is needed: TLC finds the property violated
  there.
* `StatusSettles` leaves out Altex (processing is written as in progress and read as
  accepted), tenants whose mappings do not agree (`Agrees`: a status mapped one way
  only, a raw status claimed for another than the one the table writes it for, any
  mapping of PrestaShop, since `order_from_prestashop` never looks at the inbound
  ones), and tenants of Shopify who read a fulfilment as a cancellation, which
  writing a cancellation does not change.

## Proofs

TLAPS checks eight modules of theorems, for every value of the constants that
satisfies the named assumptions of the modules: any number of workers, requests,
callers, pollers, products, messages and rows, any threshold, rate, page size,
policy and bound. The sets of requests, workers, threads and products are finite
where deliveries, requests or products are counted (`FiniteAssumption`,
`ThreadsAssumption`). Every safety property that a passing run checks, invariant or
step property, is stated by a theorem.

Some theorems have a hypothesis beside the assumptions. Each is a deployment the
program really has, or the exception that "Exceptions in the properties" explains.
Without any one of them but the last, TLC finds the property violated (for products
that change during a filtered walk, with pages of one and six changes):

| Hypothesis | Theorems | Why |
|---|---|---|
| `OneWorker` (Connection), `Kinds` without `service_test`, without `sync` | `RefusalsInARowDisable`, `StatusIsAnnounced` | two stale copies lose a failure and cross their signals; the service's test changes a status without a signal and the count without the flag; the sync tasks hide refusals |
| `OneWorker` (PushSync) | `CreatedOncePerLoss`, `LinksTellTheirProducts` | the lock lets two workers in that loaded the idle row (push_race) |
| `SeenBeforePush`, `WholeWalks`, `OwnRow` (PullSync) | `NothingPassedOver` | a push over an unseen change hides it; numbered pages shift while products change under a filter; a push on the row of the pulls moves their watermark |
| `Unfiltered` (SyncService) | `NothingIsSkipped`, `WalksAreComplete` | leaves out three listings that are filtered or walked in two groups: they are cut by `SelectSeq`, a recursive function of which the prover knows too little. TLC checks two of them |

**Connection.** The properties about `row` are not inductive, since a row is made
of whatever a stale copy holds. The inductive invariants say the same of the row
*and of every copy*, and that a job keeps the fields consistent that it will save
together: a count at the threshold comes with a disabled row (`ThresholdAlwaysDisables`),
and no version that may still be saved has a higher count, or is disabled, without
as many failures recorded since the last reset or carried over it
(`TripsAreEarned`, with `Earns`). A saved row takes each field from the copy
or from the row, and `update_fields` names fields that belong together; each
mutator is one lemma. `SuspectsAreSuspended` follows the same pattern.
`OnlyOperatorsReenable` needs only the types: it goes through the actions and
shows that the only saves with `is_enabled` among their fields that can turn it
on are those of `re_enable` and of an edit by hand.

With one worker the copy is as good as the row: `SerialInv` says that it agrees
with the row on the breaker's fields until it is saved, and that an announcement
owed is the job's own. From it `StatusIsAnnounced` is immediate, and
`RefusalsInARowDisable` follows with `StreakInv`, that refusals in a row are all on
the row's count, and the invariant above that disables a full count.

**RateLimiter, HttpClient.** `WindowBound` speaks of past grants and says nothing
of the tokens, so it is not inductive. `Ceiling` adds that the bucket holds no more
than any grant left free of it, which makes the next grant keep the bound
(`NeverTooFast`). `Floor` adds that the bucket is full or holds at least what some
grant left free, from which `NothingLost` follows. `UsesLimiter` shows that every
step of a call is a step or a stutter of the limiter, so both carry over to the
client; `RequestsArePaid` adds that a thread with a token has one that no request
has used. `ContractKept` is the refinement: the mapped initial states are initial
states of `RemoteCall`, and each step of a call maps to `Open`, `Request` or a
stutter, whatever the policy. `ComesBackInTime` (`TimedInv`): a call pauses at
least as long as Retry-After asked up to the policy's limit, and one that waits
for a token, or has it, has done so.

**Webhook.** `Typed` bounds and types, `Counted` accounts for every delivery as
rejected, still in a request, a task, or processed, `Rows` says what has become of
a row whose key is stored: at most one request stands between its insert and its
signal. `RowsAnnouncedOnce`, `OneTaskPerDelivery` and `AcceptedAnnounced` follow.
`ContentKeepsRows` carries them to every choice of keys. `ContentIsKept` (`Kept`):
a request is about the row of what it carries, every row holds something with its
key, and what was answered has its row; what two notifications with one key have in
common is a lemma about the keys of each family.

**PushSync.** `LinksOwnTheirProducts`: every id in a link, in a copy of a link and
in an answer belongs to its product (`OwnInv`), for any number of workers that
overlap, which the run with its one worker does not show. With one worker,
`SerialInv` accounts for every product the provider has: it is known to the link or
to the run about to save it, or one of the losses stands for it
(`CreatedOncePerLoss`); and a link, or the answer about to become one, tells what
its product holds, in the parts that the adapter can update, unless the item is among
those a killed run left behind (`LinksTellTheirProducts`).

**PullSync.** `OwnChangesStayOut`: a change of ours that is said to have its marker
saved has it in the link, and no answer that push has yet to save is of such a change
(`Marked`); it does not need that pushes follow pulls, nor that they have a row of
their own. `NothingPassedOver`: everything modified up to the watermark is
known, and a run under way has read every change between its start and the
products on its pages (`Watermarks`), with positions in the listing counted as
cardinalities; a marker that would make a foreign change look like our own is of a
change that is known (`Stamped`).

**Listings, SyncService.** The adapters fall into six families by what a cursor
is: a page number from 1 or from 0, a number of rows, the last row read with newer
or with older ones behind it, or nothing (`Families`). Two words serve for all of
them: `Passed`, every row before the cursor has been read, and `Ahead`, a row is
behind it. `PageAdvances` says of every answer of every adapter that what is ahead
of a cursor is on the page or, with has_more, ahead of the next one, and that what
the next cursor passes was passed or is on the page; four lemmas say what a row
more or less does to both. `SyncInv` then has every cursor, saved, held or just
read, with only read rows before it (`NothingIsSkipped`) and whatever a walk owes
and has not read ahead of the cursor it goes on with, so that nothing is owed at
an answer without has_more (`WalksAreComplete`). Adapters are in no theorem by
name: one with a page counted wrongly fails in the lemma of its family.

**Credentials.** `ImportedOnce`: a job whose import was taken has no further
request to send. `KeyIsKept` and `NeverLockedOut` (`KeyInv`): unless a fault has
spoiled the connection, the key of the row is taken by the provider or lies in the
answer of exactly one job that is about to save it; where keys do not replace each
other, all of them stay good; and a job beside which no other ran has the row's key.
The stored credentials of every kind of provider keep the token the next request
needs (`Held`), which is where the answers of `TokenGrants` come in. `TypeCorrect`
bounds the requests too: no job sends its own more often than the retry policy lets
it, and a job about to send has a try left (`Counted`).

**Inbox.** `NoMailLost` (`InboxInv`): a message that is gone, or is marked and goes
with the next EXPUNGE, may go: it was wanted deleted, is in the target folder or the
trash, its copy was refused, or the user marked it on a server without UIDPLUS. And a
message that no fault, user or other poll came between is held by one poll at a
time and lies in both folders only between the commands of its move.

**Courier.** `BookedNeverTwice` (`Single`), for FAN Courier, Cargus, eColet and GLS: a
caller with a booking is past the stages before it, or ended in an outcome that does
not invite another call. `SessionIsReplaced` (`Replaced`): whoever is at his last
attempt, and has lost no token since his call began or last failed so, bears one that
is alive or none, and so is the shared one. These proofs, those of the listings and
the next two are in `AdapterProofs`.

**Operations.** Induction over the nesting of a script is out of the prover's reach,
and so are the recursive operators that would say what a script does. The proofs
go round both: `OpTypeOK` has `todo` a sequence over `Steps`, the nodes of the
operation's own script, at whatever depth, and their handlers on the way; `StepShape`
and `ThrowTo` say what a step makes of such a sequence (the next node gives way to a
script of the same nodes, or all up to the innermost handler gives way to what that
handler does), and `Cut` where each element of the new one comes from. What has to
be said of the nesting is a relation on the nodes that the blocks respect, checked
on the catalogue by evaluation and carried along `todo` by the proof.

* `OpMadeOnce`: every node that makes something is sent once.
* `OpNothingHidden`: `NotBlind` says that once a failure is hidden nothing that makes
  anything is left in `todo` (`Ordered`, `Upward`). `ReadsHidden` says that what is
  hidden is a failure to read, and that there is either nothing to forget after a
  change, or that what is forgotten next is the failure of a block of reads: where a
  handler on the way forgets, what lies before it in `todo` writes nothing and begins
  with the read that the handler is for, or that read was the last request
  (`Guarded`).
* `OpRefusalHeard`, for the operations outside `Unheard` and `Deaf`, whatever else is
  hidden or refused later: after a refusal of which nothing is told the call is
  over with "auth", or `todo` begins with a node that deals with it (`Hearing`).
  `Placed` is what makes that inductive: an exception of another library can come out
  of a handler only while a block that tells of every failure is around it
  (`Sheltered`), and it is the smallest place in `todo` (`SmallestOf`) that decides
  which handler is reached.

**OrderStatuses.** `StatusStable` (`Settling`): what the application knows is always
something that is read in that shop under that tenant (`Readable`). `TableReads` and
`RoundTrips` say of the tables of the five shops that write them whole that each raw
status they write is read as the one status it was written for; `WrittenReads` adds
any mappings of a tenant that agree.

Only model-checked: all liveness (fairness and `ENABLED` are beyond the prover); that
the catalogues satisfy `CatalogueAssumption`, an evaluation of constants; the three
listings that `Unfiltered` leaves out; and the overlapping pushes, pulls and jobs
that the hypotheses above exclude, where the properties fail as "Exceptions in the
properties" and "Disagreements" tell.

## Disagreements between code and documentation

Two runs show one:

* **push_race**. `dj/services/push.py:5` says the lock exists "so two workers
  never push the same resource concurrently". `acquire_lock` tests the copy and
  saves unconditionally: two workers that loaded the idle row both proceed.
* **connection_swallow**. `packages/django/README.md:289` says "All tasks check
  `connection.is_operational` before running and integrate with the circuit
  breaker". `SyncService` catches the `AuthenticationError`, so the sync tasks
  never tell the breaker and call for ever.

Met while modelling:

* Webhooks: `core/webhooks/dispatcher.py:30` promises "Deduplication via
  idempotency keys", but the view dispatches the existing row again; the keys of
  EuPlatesc, Utrust, LibraPay, mobilPay, WhatsApp and of GitLab pushes take a later
  notification about the same subject for a repetition; a database failure in
  the view loses a webhook that is answered 200 (`dj/webhooks/views.py:140`);
  `process_webhook` has no guard (`dj/tasks.py:152`).
* Connection: `test_connection` counts an outage as an authentication failure
  (`dj/models/connection.py:97`); the service's `test_connection` changes a status
  without a signal (`dj/services/connection.py:203`); two stale copies lose a
  failure (`dj/models/connection.py:125`).
* Push: an adapter without the full update is sent the stock and the price alone
  (`core/sync/engine.py:144`) and one without the creation nothing (`:156`), and the
  link is marked linked with the hash of the whole product, while
  `docs/DJANGO_INTEGRATION.md:640` has the link tell what was pushed.
* Pull and sync: of the echoes that `docs/DJANGO_INTEGRATION.md:657` suppresses, those
  of pushes without a marker, with a lost answer or cut short come back; with the one
  `sync_state` of its example (`:648`) a push sets the watermark of the pulls to now
  (`dj/services/push.py:149`, `dj/models/sync_state.py:48`); a first partial pull gets the present time as its watermark,
  because `mark_completed` takes "none" for "now" (`dj/models/sync_state.py:48`);
  a cursor saved under one filter is used under another (`dj/services/pull.py:85`);
  a product modified between two pages shifts another past the walk; a push over
  an unseen change makes it look like an echo (`dj/services/pull.py:98`);
  `incremental_sync` without `fetch_fn` discards the items; `full_resync` reads one
  page; newest-first listings never show new rows to a saved page number.
* Listings: Stripe payments filtered by status can answer `has_more` without a
  cursor (`payment/stripe/adapter.py:178`), eMAG invoices always do
  (`shop/emag/mappers.py:526`), CEL lists its first hundred only, FAN Courier
  without `since` today's shipments.
* Credentials: the refresh tokens of TikTok, LinkedIn and Pinterest are not
  among the credentials the host stores, which `docs/DJANGO_INTEGRATION.md:512`
  lets it rely on; `persist_rotated_credentials` saves a stale `config`.
* Adapters: 403 is an authentication error to `core/http/client.py` and to the
  breaker, but not to the adapters of `Unheard`; `delete` of the stores and FTP
  servers reports nothing when it fails; PrestaShop ignores the inbound overrides a
  tenant sets (`shop/prestashop/mappers.py:235`), so a status written through them
  is read back as pending.
* HTTP: the status code sets of a retry policy are read by nothing but tests.
* Shops: after a failed look at a product Magento's update of the stock reads a
  `product` that was never bound (`shop/magento/adapter.py:178`).
* Couriers: every DPD answer with an error object is a ValidationError, an outage's
  too (`courier/dpd/client.py:53`); a token cleared by another thread between look
  and use goes out empty; Sameday and Colete Online book under the retry policy; an
  `AuthenticationError` during the label loses the number of a booked shipment.
* Inbox: the COPY of a move may be answered NO and the message is expunged all
  the same (`email/smtp/client.py:425`); summaries come oldest first though
  `core/capabilities/inbox.py` says newest first.

## Plan

Done: the breaker, push, pull, webhooks with their keys, the limiter, the HTTP
client with its contract, listings and their walks, credentials, courier bookings,
the inbox, the operations of all adapters, the statuses of orders, and the proofs
above. Left, in order:

1. What half of an operation leaves behind: a product whose pictures failed, an
   upload without its last part; scripts tell the order of the requests, not yet
   what remains.
2. Composition of Connection with `Operations`: which errors of which call reach
   the breaker, over several calls.
3. Abstract specifications: a lock (implemented by `PushSync` once overlapping
   loads are excluded), an at-least-once queue (implemented by `Webhook`), a
   set of delivered changes (implemented by `PullSync`).
4. `sync_categories`, against a reference definition.
5. Proofs: of filtered listings, that what `SelectSeq` leaves keeps its order; the
   abstract specifications of 3 as refinements.

## Not modelled

Formatting, logging, redaction and encryption; time stamps except where they steer
(the lock's age, the watermark, Retry-After, sessions); manifests and admin;
product feeds, pricing and reports; `sync_categories`. Of the adapters, what
requests carry and how the items of answers are mapped to DTOs (the statuses of
orders are), and answers that break the provider's own contract. These hold no
state between calls or decide nothing that a run could order differently.
