# TLA+ models of vidbot-site-api

This directory holds a formal model of the parts of the API server (Go) whose
correctness depends on what happens in which order: goroutines that share a
session, requests that race an administrator, copies in memory of what is in
Redis, tables that several requests write, slots, lifetimes and quotas.  Each
module is translated from the code it names; `PROJECT.json` maps every
definition to its lines.

Line numbers below are those of the source tree (`src/`).

## 1. The system

A client calls the HTTP API (gin).  A request passes the middleware (access
token, API key with quota, feature flag, rate limit) and reaches a service:
content extraction, stream extraction ("vidhub"), conversion, application and
media catalogs, leak search, IPTV, or the stream proxy.  State is in Redis, in
PostgreSQL, in SQLite files and in the memory of the one server process.
Administrators change keys, flags, provider orders and catalogs through `/admin`.

| Component | State | Operations | Hard behaviour | What makes it correct |
|---|---|---|---|---|
| Concurrency limiter `pkg/limiter/limiter.go` | one atomic counter per limiter | Acquire (load, test, compare-and-swap loop), Release | swaps that collide, refusal at the limit | counter = holders, never above max; somebody always gets out of Acquire |
| HLS sessions `internal/stream/handler.go` | table URL -> session, reader count, done, context, two limiters | look up, take a slot, get or create, join, leave, watcher, fallback, timer, shutdown | one request = handler + watcher + producer + timer; each lock region interleaves with all others | no slot or host slot lost or doubled; every session is freed; no expired session is handed out |
| HLS chunk buffer, same file | chunks, done, err, one-token channel, two download goroutines | append, signal, wait, read without the lock, fall back, expire, free | lost wake-up, overflow, fallback under readers, buffer freed in use | complete streams are whole; waits end; the unlocked read is in range |
| API keys and quota `internal/admin/handler.go`, `pkg/cache/apikey_cache.go`, `middleware/api_key.go` | record and counter in Redis, 60 s copy in memory | create, revoke, top up, reset, check | read-modify-write by overlapping admins, fills that race an invalidation, failing commands | quota never exceeded; revocation takes effect; top-ups add up |
| Access tokens `internal/auth` | none (HMAC of a 300 s window) | generate, validate | window boundaries, two readings of the clock | life between five and ten minutes |
| Rate limits `pkg/limiter/ratelimit.go`, `middleware/*rate_limit*.go` | counter and lifetime in Redis | Incr, Expire as two commands | second command lost | no more than the limit in a life; nobody is limited for good |
| Admin sessions `internal/admin/session_handler.go` | record and index in Redis | login, logout, revoke, list, clean up | two writes in different orders | index and records agree |
| Feature flags `pkg/cache/feature_cache.go` | flag in Redis, 30 s copy | toggle, check | fill races toggle | a toggle takes effect, at the latest when the copy ends |
| Provider order `pkg/cache/provider_cache.go` | list in Redis, copy refreshed every 5 min | update (delete, push), reset, refresh, resolve | refresh between delete and push | a request always has an order to use; the copy follows the list |
| Content extraction `internal/services/content` | goroutines and two channels per request | run providers in parallel, wait 1 s | one-place channels, late result | the answer is put together of what belongs together; it fails only if all fail; goroutines end |
| Convert jobs `internal/services/convert` | job at a foreign service | validate, submit, poll, ask later | time limit races completion, order changes under a job | one answer per job; a job stays known |
| Short links `pkg/shortlink` and the handlers of vidhub and content | metadata, payload and index keys in Redis | visit a page, create links, resolve | lifetimes of three keys, requests that overlap, refused commands | a link leads to its page and its file |
| Masked links `pkg/appstore/shortlink.go`, `pkg/downloaderstore/shortlink.go` | payload and index in Redis, memory over them | mask a batch, renew, resolve | lives of three copies, places in batch and misses | a key leads home; a dead key fades |
| Leakcheck store `pkg/leakcheck/store.go` | PostgreSQL tables, search cache | AddDir, Reload (staging table and swap), search | reload during search, failing step, crash | there is always a table to search; what was added stays until the next rebuild |
| IPTV store `pkg/iptvstore/store.go` | lists and indexes in memory | load, refresh by two tickers, query | lists and indexes replaced one by one | indexes agree with lists |
| Usage statistics `pkg/stats` | bounded channel, batch, monthly partitions | track, flush, daily job | full channel, failed flush, days 29 to 31 | each event recorded once; a partition is there when its month comes |
| Applications `pkg/appstore/db.go`, `internal/services/app` | SQLite tables apps and versions | upsert, bulk upsert, edit, delete, search | statements that fail inside a transaction that is committed, edits in two statements, answers from two queries | versions have their application; names and slugs differ; an answer is of one application |
| Movies, ebooks, albums `pkg/downloaderstore/*.go`, `internal/services/downloader` | SQLite table with a text index kept by triggers | the same, and the refresh from TMDB | the same, and writes prepared from an older state | rows, keys and index agree; a row that stays is found |
| CDN links `pkg/cdnstore` | signed URLs cached in Redis | - | - | nothing calls it |
| Start and stop `main.go` | - | start loops, signal, cancel, drain | requests during the drain | downloads end before the process |
| Scrapers, vault, health, logging, validation | none of their own | - | - | not modelled: requests to foreign pages, encryption and formatting |

How they interact: the stream proxy takes slots from `limiter.HLSDownload` and
the per-host limiters; `main.go` calls `CancelAllSessions` before
`srv.Shutdown`; the middleware reads what the admin handlers write, through the
copies in `pkg/cache`; extraction and conversion use the provider order in
force when they begin; catalogs mask the links of their answers.

## 2. Modules

| Module | Contents |
|---|---|
| `Semaphore` | abstract: a process is out, in or refused; at most Max are in; refused only when full |
| `Limiter` | `pkg/limiter/limiter.go` at the grain of its atomic operations |
| `HlsSessions` | life cycle of HLS sessions, slots and per-host slots |
| `HlsBuffer` | the chunks of one session, its download goroutines and its readers |
| `ApiKeys` | one API key, its admins and its clients |
| `AccessTokens`, `RateLimits`, `FeatureFlags`, `AdminSessions` | the rest of what stands before a handler |
| `Lifetimes` | Redis keys that live for a number of ticks: SET, EXPIRE, DEL, the passing of time |
| `Filters` | the loop that keeps some elements of a slice |
| `ProviderOrder` | the lists of providers, their copy in memory, and the order a request gets |
| `ContentExtract` | one extraction: the goroutines of the providers, their channels, the answer |
| `ConvertJob` | conversions from validation to the last answer about the job |
| `PageLinks` | the pages of vidhub and content: metadata cache and short links |
| `MaskedLinks` | the masked links of a list, in Redis and in memory |
| `AppCatalog` | applications and versions |
| `MediaTable`; `Movies`, `Ebooks`, `Flac`; `MediaCatalog` | what the three tables share; the statements on each; the requests over them |
| `BulkRequest` | what a bulk request passes on and how it reports |
| `LeakcheckStore` | the leak table, its rebuild and the search cache |
| `UsageStats` | usage and error events from the channel to PostgreSQL, and the monthly partitions |
| `IptvStore` | the IPTV lists, their refresh, their indexes and the requests that read them |
| `MCHlsSessions`, `MCHlsBuffer` | instances for TLC |
| `MCGate`, `MCRequests`, `MCCatalogs`, `MCServices` | instances for TLC of several components each |
| `HlsSessionsProofs`, `HlsBufferProofs` | theorems about streams |
| `GateProofs` | about what stands before a handler |
| `RequestProofs` | about provider orders, extractions and conversions |
| `CatalogProofs`, `LinkProofs` | about the catalogs, and about short and masked links |
| `ServicesProofs` | about the components that share no state |
| `FilterProofs` | lemmas about `Filters` |

In every module definitions whose comment begins with "A slip" (in the older
modules, those of the section "Faulty variants") are alternative definitions,
each a mistake the code could contain; they are not part of the specification.
`PROJECT.json` says which property notices which.

A property that a run checks is often the conjunction of a type invariant and a
few named parts that concern one component; each part has its own comment.

### Limiter and Semaphore

`current`, `seen` (the local of Acquire's loop) and `pc`.  `Load` is line 16-19,
`CompareAndSwap` line 20-23, `Release` line 26-28.  The module is shown to
implement `Semaphore` with `pc = "holding"` as "in": a slot is taken at the
successful swap.  The other modules then use Acquire and Release as single
steps.

### HlsSessions

A request creates at most one session, so a session has the name of the request
that created it.  `table`, `slots` and `cdn` are `hlsSessions`,
`HLSDownload.current` and the host limiters; `handler`, `watcher` and `producer`
are program counters of the three kinds of goroutines; `done`, `readers`,
`cancelled` and `freed` are fields or effects on a session.  `cancelled` is only
cancellation from outside: the producer's own deferred `cancel` (line 98) comes
after everything that looks at the context.  Each lock region is one action:
`Lookup` 821-823, `AcquireSlot` 825-834, `GetOrCreate` 836-850 with 80-132,
`Join` 852-855, `Leave` 857-881, then `FreeChunks`, `UnlistDone`,
`CancelAbandoned`, `UnlistCancelled` 869-888.  The last two lock regions of the
abandoned branch are one action.  Whether the last reader came within two
minutes is a choice ("young" or "old").  `Overflow` stands for the chunk that
exceeds `maxChunks` (line 143-151); `overlong` is history, the sessions it
happened to.

### HlsBuffer

One session.  `chunks` is a sequence of the methods ("ffmpeg", "ytdlp") that
made each chunk, which is what the properties can tell chunks apart by; a
chunk's number is its place.  `producer` is the goroutine of
`getOrCreateSession`, `pump` the goroutine of `runDirectHLS` that copies
ffmpeg's output (line 529-546) and that `runDirectHLS` does not wait for when it
fails (549-554).  `token` is the channel `notify` with its capacity of one, and
`signals` the goroutines that have left their lock region and are about to call
`signalNew`.  A reader's `pc` follows `streamProgressive` from
`getOrCreateSession` on: the initial wait (`buffering`, `awaitBuffer`), the
loop (`serving`, `writing`, `polling`, `awaitChunk`), the deferred function.
`Write` is the unlocked `sess.chunks[idx]` of line 932: it panics when `chunks`
was emptied since the reader looked.  `dropped` and `lateSwitch` are history:
the chunks were freed, or the fallback emptied a buffer in use.

### ApiKeys

Keys share no state, so there is one.  `store` and `used` are the record and the
counter in Redis, `mem` the copy in `apiKeyMem`.  A client repeats
`RequireAPIKey`: `Request` (copy or miss), `Fetch`, `StoreInMemory`, `Check`
(inactive, then `AtomicQuotaCheck`, one Lua script).  An admin request reads the
record, writes it whole and then invalidates the copy: `RevokeRead`,
`RevokeSet`, `RevokeDrop` and so on.  `param` says whether the path parameter
was the hash or the plain key, since `RevokeKey` invalidates the parameter (line
166) and `TopUpQuota` the hash (382).  Any command may fail where
`RedisMayFail`; where the code ignores the error the model goes on.  History:
`overtaken` is what others have written since an admin's read, and `lost` what
was thereby or by a failed write taken from what an admin was told.
`AdminWritesHold` says that nothing else takes anything, and `key_revived` shows
what a write of an old record does.

### AccessTokens

`now` counts ticks, `WindowTicks` of which are the five minutes of a window.  A
token is the window it was made in and, as history, the tick.  `TryCurrent` and
`TryBefore` are the two hashes `ValidateToken` compares, each with a reading of
the clock of its own, so that a window may end between them.

### RateLimits and Lifetimes

A counter is a key with a count and perhaps a life.  `Incr` and `GiveLife` are
the two commands of `CheckRateLimit` (and of the login's middleware), either of
which may be refused, with a crash between them (`LimitCrash`).  The handler
lets a request pass when INCR is refused, and ignores an error of EXPIRE.

### FeatureFlags

`flags` is Redis, `featureCache` the memory of half a minute.  A request asks
the memory, then Redis (`GetFeatureFlag`), then fills the memory (`FillFlag`):
a toggle may come between.  `StoreFlag` and `InvalidateFeatureFlag` are the two
steps of a toggle, in that order.  An unset flag is on.

### AdminSessions

`sessions` are the records with their life, `active` the index without one.
`Login` writes record, then index; `Logout` and `RevokeSession` delete the
record, then the index entry; the cleanup goes through the index (`Members`,
`GetSession`, `Remove`) and strikes what has no record, also when Redis only
refused to say.  `struck`, `answered` and `begun` are history.

### ProviderOrder

`lists` is Redis, `orderCache` the map in memory, `orderLoad` the refresh that
reads list after list into a new map and then replaces the old one.  An update
is `DeleteOrder` and `PushOrder`; overlapping ones may leave both orders one
after the other in the list.  `ResolveProviderForCategory` keeps the names
the category has and falls back to all of them.  `ResetProviderOrder` looks for
the default order under a key it never has (see section 3).

### ContentExtract

`extraction[r]` is the request: the order it was given, the state of each
provider's call, the channel of the first provider and the one that all others
share, each with one place.  `ReceivePrimary`, `ReceiveFallback`, `ReceiveSecond`
and `SecondIsLate` are the selects of `service.go`; `Beside` pairs the items
of the second answer with those of the first as each site's `buildResult` does.
spotify asks one provider after the other (`TryNext`).  With two providers every
call finds room to send; of n > 2 all but two may block for ever, since they
share one place (Development.md:774 lists it as B4), and `CallsEnd` says that no
more than these n - 2 do.

### ConvertJob

`conversion[r]` follows a request from `Validate` or `ValidateUpload` through
`CreateJob` (at the first provider of the order that writes the format),
`UploadFile` and the polling (`PollTick`, `PollAnswer`,
`TimeIsUp`) to the answer; `Status` is what the client asks afterwards.
`OrderChanges` may come at any time: all services share it here, since a
conversion reads it once.  A job is a record with its provider's prefix.

### PageLinks

A file's address is the page it was extracted from, the generation of addresses
the site then served, and a number.  `metadata`, `payloads` and `slIndex` are
the three kinds of keys with their lives; a visit reads the metadata or
extracts, stores them, and creates a link per file (`LookUpIndex`,
`RenewPayload`, `RenewIndex` or `SavePayload`, `SaveIndex`).  The eleven
handlers differ in whether they store first and in the index key; `Handler` and
`cacheTTL` hold what each does.  A sealed token (key 0) is the answer when Redis
refuses the payload.

### MaskedLinks

One batch at a time per request: `AskMemory`, `AskIndex` (one MGET over the
misses of the memory), then for each miss a look-up and a renewal or a new key.
The places in the batch, among the misses and in MGET's answer differ, which is
what `Miss` is about.  `gone` is history: when a payload ended.  An index entry
is written or renewed up to a tick after its payload, by each of two requests
that overlap, so it may outlive the payload by two ticks; memory that is filled
from it then keeps a dead key for its own life and no longer (`DeadMasksFade`).
A key can be dead from tick 3 on, so the 6 ticks of the run let memory outlive it
by more than the 2 that are allowed, if `evictExpired` did nothing (one of the
two mutants of `MasksLead`).

### AppCatalog

SQLite has one writing connection, so a transaction is never interleaved with
another writer: an upsert is one action (`Upsert`, all or nothing), a bulk
request is an open transaction `tx` with a step per entry, during which visitors
see what is committed.  `UpdateApp` reads a row and writes all its columns in
another statement (`UpdateAppRead`, `UpdateAppWrite`).  A slug is the name's
slug with a suffix: a bare one, a number up to `MaxSuffix`, or one from the
clock.  A visitor reads the applications and then the versions.  `born`,
`stripped`, `renamed`, `refused` are history.

The answer to a bulk request is `report` (`BulkRequest`).  If the transaction
cannot begin or be committed, `BulkUpsert` answers its error as entry 0 of those
passed on, and the handler looks up that entry's place in the request
(`Refusal`): the other entries are not named at all, and without a valid entry
the lookup panics.

### MediaCatalog

The same for the three kinds of media, whose tables (`MediaTable`) hold rows,
the text index that three triggers keep, and the counter of ids.  `Movies`,
`Ebooks` and `Flac` are the statements of the three files, `MediaCatalog` the
handlers; `mkind` says which kind moves.  An edit of the metadata, a refresh
from TMDB and an edit of the links are each a read and a write.  A visitor reads
count, rows and keys in steps; `steady` is history: the rows that matched what
was meant and stayed as they were while the visitor read.

### LeakcheckStore

A row stands for a (login, password) pair of the login that is searched, and
PostgreSQL for what it does with the statements of `store.go`: `tables` are the
committed tables with their rows and unique indexes, `swapping` the tables as
the open swap transaction sees them.  `Reload` (384) creates the staging table,
`Flush` is a batch of `insertEntriesFromDirToTable` (521-616) with its row by
row second try, then `BuildIndexes`, `SwapRenameOld`, `SwapRenameNew`,
`SwapCommit` (424-463) and `DropOld`, the goroutine of line 466.  `AddDir` (324)
uses the same `Flush` on the live table.  Both hold `writeMu`; the load at
start-up does not, and does not need to, because nothing is served before it is
over.  `Insertable` is why `Reload` fails: `ON CONFLICT (login, password)` is an
error on a table without a unique index on these columns.  `Crash` may come
between any two statements.  `added` is history: what was reported as added
since the last swap, which a successful rebuild replaces with what it inserted
itself.

### UsageStats

`kind` says whether the channel is that of requests (`tracker.go`) or that of
errors (`errors.go`), which have the same code but for the partitions.
`Receive`, `Tick` and `FlushBatch` are `batchWorker`; a full channel drops the
event in `Track`, which changes nothing.  `Midnight` and `DailyJob` are the
calendar and `cleanupScheduler`.  `AddMonth` is `AddDate(0, 1, 0)`: from the 31st
of January it ends up in March, so the partition of February has to have been
asked for on an earlier day, and one of the statements asked for on such a day
may overlap what is there and be refused.

### IptvStore

`channels` and `streams` are the lists as sets, `channelsByCountry` and
`streamsByChannelID` the indexes, each assigned in a lock region of its own.
`refresher` is where `Init` or the goroutine of `startRefresh` is; there is one
of them at a time.  A fetch fails or brings the list of `site`.  A request
(`Check`, `GetChannels`, `GetStreams` for each channel, `Answer`) takes the lock
anew at each step.

### The instances of several components

The components of `MCGate`, `MCRequests`, `MCCatalogs` and `MCServices` never
change each other's state, so a property of one is violated in the whole if and
only if it is violated while only that one moves.  `part`, chosen at the start,
says which one does; fairness is given for that one.  What a component takes
from another is a constant that the other is checked against: `OrdersAreServed`,
a part of `EveryRequestEnds`, says that every order admins can bring about
(`ProviderOrder`) is among those that `ContentExtract` and `ConvertJob` are given.

## 3. What TLC checks

Twelve runs; seven pass.

| Run | Part | Instance | Properties |
|---|---|---|---|
| `hls_shared` | - | 3 requests for 1 URL, 2 slots, 1 per host, shutdown, no overflow | `TypeOK`, `SessionsTended`, `SlotsAreSemaphore` |
| `hls_live` | - | 2 requests, 2 URLs of one host, 1 slot, overflow, shutdown, fair | `OneFfmpegPerHost`, `SlotHeldWhileDownloading`, `ChunksFreed`, `SlotReturnsUnlessCancelled` |
| `hls_buffer` | - | 2 readers, buffer of 2 chunks, 3 chunks per method, initial wait for 2, failure, expiry, cancellation | `TypeOK`, `WholeVideo`, `LoneReaderWoken`, `PanicsOnlyIfEmptied` |
| `gate` | key | 2 clients, 3 overlapping admin requests of any kind, failing commands | `AdminWritesHold`, `QuotaRespected` |
| | token | 2 clients, windows of 2 ticks, 6 ticks | `TokenLife` |
| | limit | 2 requests at a time, 5 in all, limits 1 (login) and 2, a life of 2 ticks, 4 ticks, 1 failure or crash | `LimitsHold` |
| | flag | 2 requests and 2 toggles at a time, a group with one platform, 1 refused command | `FlagsFollow` |
| | session | 2 administrators, 2 cleanups, 2 tokens, 1 failure or crash | `SessionsAgree` |
| `requests` | key | 2 clients, creation and overlapping revocations, fair | `RevocationTakesEffect` |
| | order | 2 categories, 2 orders, 2 overlapping updates or resets, 1 refused command, fair | `OrdersAreUsable`, `ListsAreFollowed`, `EveryRequestEnds` |
| | content | 1 extraction at each of five sites, orders of one and two providers and a doubled one of four, 3 items from each, fair | `ExtractsFit`, `EveryRequestEnds` |
| | convert | 1 conversion out of eight, by address and by upload, at the limits of type and size, 2 changes of the order, fair | `JobsStayKnown`, `EveryRequestEnds` |
| | fallback, stopped | a session with a buffer of 1 chunk, its download falling back under 1 reader or cancelled under 2, fair | `StreamsReturn` |
| `catalogs` | app | 3 names of one slug, two alike but for case, suffixes to 2, 2 admins, 1 visitor, 4 requests, bulk requests of 2, failing statements and transactions | `AppsFit`, `AppAnswersFit`, `ReportsAreTrue` |
| | media | each kind: 2 names alike but for case, 2 editors, 1 visitor, 4 requests, bulk requests of 2, failing statements and transactions | `MediaFits`, `MediaEditsFit`, `SteadyRowsAreFound`, `ReportsAreTrue` |
| | mask | 2 addresses, batches of 1 and 2, 2 requests at a time, lives of 2 and 3 ticks, 6 ticks, 1 refused command | `MasksLead` |
| | page | a page of vidoy with one file and one of instagram with two, 2 requests at a time, 3 ticks of an hour, a change of addresses, 1 refused command | `PageLinksLead` |
| `services` | limiter | 4 goroutines, 2 slots | `ImplementsSemaphore`, `LockFree` |
| | leakcheck | 1 row, 2 admin requests at a time, 3 in all, 1 search, 1 crash, failing statements | `RebuildsAreSafe`, `OldAnswersEnd` |
| | stats | channel of 1, batch of 2, 2 events, December to February, 2 starts | `EventsAreCounted`, `BacklogDrains` |
| | iptv | 2 channels, 1 request at a time, 1 change at the site | `ListsStayIndexed`, `EventuallyCurrent` |

Bounds.  Three requests on one URL give every role at once: one that created the
session, one that shares it and one that comes while it is being dropped (or
creates the next).  Two slots let a slot be shared out between them and refused
to the third.  Two readers are enough for one to take the token the other needs
and for one to leave as the other joins.  A buffer of two chunks and three
chunks per method reaches overflow, and the initial wait, with either method.
Four limiter goroutines on two slots let swaps collide while a slot is freed.
Three admin requests are a creation and two that overlap; quotas of one and
top-ups of one and two make the limit reachable.  Two ticks in a window let a
token be made in its middle.  A counter's life of two ticks lets requests fall
into its first and its last, and four ticks show a second counter under the same
key.  Two toggles and two fills overlap in every way.  Two tokens are a session
that works and one that is cleaned up.  Two updates in parallel leave every kind
of doubled list; four names in an order fill the second channel while its one
reader is gone.  Three applications of one slug use up the bare slug and the one
suffix, so that a third takes its slug from the clock; four requests are an
addition, a deletion, an addition that could re-use the id, and an edit or a
reader across them.  For the media, two names alike but for case separate what an
upsert finds from what UNIQUE compares.  Two addresses with one of them in
memory make the places in the batch and among the misses differ; three batches
renew, lose and make a key again.  Three hours outlive metadata and links.  Rows
of the leak table do not affect each other, so one is enough, and the three
admin requests are a rebuild, one that meets what the first left behind and an
addition.  December to February has a month of 31 days before another, and
before one of 28.  Symmetry is used only where no liveness is checked.  Deadlock
is not checked where requests are finite: when all of them have ended the system
rests.

Time.  Where lifetimes matter they are counted in ticks, and a tick comes only
when no request would have been under way for a whole tick already, because all
that a request waits for has a time-out far below the lives modelled.

Fairness.  Goroutines run (weak fairness of each one's steps); timers fire;
waits are bounded by the 60 s of `waitForChunk` and by the time-outs and bounded
retries of the downloads; a client either takes what it is sent or is
disconnected.  Nothing obliges anybody to send a request, to post a long video,
to shut the server down or to leave a session alone.  For a key, the only
fairness is that a handler runs to its end and that the 60 s of the copy pass.
The refresh of the provider orders runs on, and an update that has begun ends.
Providers of an extraction answer or time out; a conversion's ticker and its 60 s
pass, while nothing obliges a job to end.  Callers inside Acquire go on, one or
another; loads, rebuilds and searches that have begun go on and the five minutes
of an answer pass; the statistics worker runs and its ticker fires; both IPTV
tickers fire, and a fetch that is tried for ever succeeds some time (strong
fairness: the site is not down for good).

Five runs end with a counterexample, each to a statement the repository makes:

| Run | Statement | What happens |
|---|---|---|
| `hls_slot_leak` | a slot is released when the session has ended (handler.go:839) | a cancelled session is never marked done; its watcher polls for ever and the slot is gone |
| `hls_unadmitted` | only so many downloads run at a time (handler.go:830) | a request that saw a session takes no slot; when the session is unlisted before it creates its own, that one downloads without |
| `hls_two_methods` | the client needs one valid mp4 (handler.go:391) | a fallback after the reader has begun continues the response with the other method's file |
| `key_revived` | the key has been revoked (admin/handler.go:170) | a top-up that read the record before writes it back active |
| `leak_reload` | a reload rebuilds the data (store.go:383) | all inserts into the staging table are refused, and the empty table replaces the full one |

After `leak_reload` the index of the swapped-in table keeps the name
`idx_leakcheck_new_unique`, so a second rebuild cannot create its own and leaves
a table to which nothing can be added either; the next start creates
`idx_leakcheck_unique` on it.

Also seen while modelling, and left out of the runs because they are variations
of the above, single sequential steps, or matters of intent.

* Streams.  A video beyond the chunk limit is marked done and its slot is given
  back while its download goes on (146): `SlotHeldWhileDownloading` says that no
  other does.  Chunks are freed after the lock under which the last reader was
  found was released, so a new reader may lose them (869); last reader and timer
  delete the table's entry by URL, whatever session it holds by then, so one URL
  may be downloaded twice (124, 871, 886); one token of `notify` wakes one of
  several readers, and another may wait up to 60 s for a chunk that is there
  (91, 134).
* Keys.  Two overlapping top-ups lose one amount (admin/handler.go:377);
  `RevokeKey` with the plain key leaves the copy in memory for up to 60 s (166);
  `CreateKey` ignores an error of the index write, so a working key may be
  missing from the list (106).
* Gate.  A counter whose EXPIRE fails stays for good, and once it is at its limit
  its key or its administrator's address is refused for good (ratelimit.go:34,
  admin_rate_limit.go:32), which `LimitsHold` allows; the cleanup takes a session that works off the index when
  Redis fails to answer (session_handler.go).
* Provider orders.  `ResetProviderOrder` (admin/handler.go:1044) looks for
  `content:provider:tiktok` among defaults whose keys are of the form
  `content:tiktok` (938), so every reset is refused with 400, though TO-DO.md:37
  counts it as done, and `GetProviders` shows no default either.  An order of
  three names or more (two that are doubled) leaves goroutines of the extraction
  blocked for ever, all but the first provider sharing one channel with one
  place.
* Conversion.  The compatibility tables list targets that are never allowed
  (document to jpg); a job that finished without a file is answered as a
  success; a failed poll or upload leaves the job at its provider.
* Applications and media.  An edit writes all the columns it read before, so of
  two overlapping edits of one row the first is undone (appstore/db.go:697, and
  those of versions and media alike); `UpdateApp` on a slug that was deleted and
  given again overwrites the other application; `AdminRefreshTmdb` answers with success though the row
  is gone; a bulk request whose transaction fails names its first valid entry
  only, and with no valid entry that report is an index out of range (recovered
  by gin); genres and authors that a list shows may not be found (Go's
  lower-casing and SQLite's differ beyond ASCII, `_` and `%` are escaped for a
  LIKE without ESCAPE); a search whose links could not be masked is answered
  404.
* Links.  The index key of most pages is the page, so after fresh metadata the
  old key with the old address is renewed; an index entry that outlives its
  payload is renewed with it (EXPIRE of a missing key is no error), so that the
  dead key goes on being answered; a masked link answered from memory may be
  dead for up to 20 hours, and Development.md:591 speaks of five days where the
  code has 24 hours.
* Others.  Without its statistics database the server only warns (main.go:76), and
  at 02:00 `ensurePartitionExists(nil)` panics and takes the process down
  (tracker.go:80); a server first started after the 28th of a month may begin the next
  one without a partition, so that its requests are not counted until the month
  after (stats/db.go:97); an IPTV store whose first load fails is never loaded
  (iptvstore/store.go:144), though `router.go:65` speaks of a retry.

## 4. What is proved

TLAPS proves the following for any number of processes and any value of the
constants that satisfies the named assumption of the module.  Each is an
induction: the invariant is a conjunction of named parts, one lemma per action
(or group of actions) shows that every step keeps it, and temporal logic does
the rest.

* `HlsSessionsProofs`.  `TypeCorrect` with the bounds of the counters,
  `ListedExpire`, `SlotsImplementSemaphore`, `FfmpegPerHost`, `ReadersCorrect`,
  `SessionsAreTended`, `SlotHeld`.  The base invariant is that references name
  existing sessions and a session's creator is past creation (`Shape`); each
  counter is then shown to equal the cardinality of the set of its holders, with
  lemmas for the three effects a step can have on that set (keeps, adds one,
  removes one).  `SlotHeld` needs `DoneMeansEnded`: a session is done only when
  its download has ended or its video was too long.
* `HlsBufferProofs`.  `TypeCorrect` with the bound of the buffer;
  `LoneReaderIsWoken`, which is inductive as it stands; `NoOtherPanic`, by
  `InBounds` (a reader about to take a chunk has seen it) and `SwitchOnce` (the
  fallback happens once, so a buffer emptied in use stays recorded);
  `WholeVideoSeen`, by `Follows(m)`: the buffer is the output of one method, its
  length is the number of chunks made unless it overflowed, done means that the
  method will append nothing more, and each reader has written a prefix.
* `GateProofs`.  Of keys, `TypeCorrect`; `QuotaIsRespected` (the record, every
  copy of it and every admin's local copy is covered by what was granted);
  `RevocationsAreKept`, `TopUpsAreKept` and their conjunction
  `AdminWritesAreKept`, with any overlaps and failures: what a request has read
  is still in the record, or `overtaken` says what came between.  `TokensLive`:
  a window is the quotient of time by its length, so a token that matched in the
  current window or the one before is younger than two windows and one that
  matched in neither older than one; the invariant says what the first of the
  two tries has shown when the second begins.  `LimitsAreKept`: of a counter no
  more have passed than it counts, nor than the limit; a counter without a life
  belongs to a request about to give it one (`LivesComing`), or a command
  failed.  `TogglesAreFollowed`: a flag that a request is about to remember
  although it has changed did so within a tick (`OldReads`), and a stale flag in
  memory has been stale for no longer than the part of its life that is over
  (`StaleAges`).  `SessionsStayAgreed`: a session that works is listed unless
  its login or its end is under way or it was struck; the invariant adds that no
  two logins have one token and that cleanups only handle tokens that were
  answered.
* `ServicesProofs`.  Of the limiter, `TypeCorrect`, `SlotsCounted` and
  `Implements` (the loop implements the abstract semaphore): the invariant is
  types, counting and `SawRoom`, that a caller about to swap has seen a free
  slot, without which the swap could exceed the limit.  `IndexesStay` (IPTV):
  while no rebuild is under way each index equals its list, and a request that
  found an index keeps finding one (`StagesInv`, `ViewersInv`).
  `RebuildsStaySafe` (leak table; additions only until the next swap): at most
  one writer is between its first and last statement (`LockInv`), the open swap
  is what the committed tables become by one or two renames (`SwapInv`), and
  what a writer has passed is in the live table, failed or is left to do
  (`AddInv`). `EventsStayCounted` (statistics): accepted events are those
  waiting and those recorded unless one is excused, and the partition of next
  month is there from the 28th on for a server that was up (`AheadInv`), by
  lemmas on the lengths of the months and on `AddDate`.
* `FilterProofs`.  What a loop that filters returns, for slices of any length:
  the elements of the set and no others (`KeptElements`), each in its order
  (`KeptSelects`).  The prover has no induction over data, but these lemmas need
  only that a set of numbers has a least one (`LeastNumber`), from which
  `UpToInduction` follows.
* `RequestProofs`.  `OrdersStayUsable`: all that is stored, cached, loaded and
  sent is a sequence of known names (`OrderInv`), so what a category resolves to
  is what `KeptElements` leaves of it, or all of its providers.
  `AnswersAreFit`: `ExtractInv` relates where a request waits to its calls and
  both channels (who has sent, who failed, what is still to come), so that
  giving up means that all of at most two have failed; that what stands side by
  side is alike, and in threads nothing twice, is a lemma about each site's
  pairing.  `JobsKnown`: a job that anybody waits for, shows or asks about was
  made under the prefix of its provider (`ConvertInv`).
* `CatalogProofs`.  `AppsKeepFitting`: versions have their application, two
  names differ in more than case unless one was renamed, and an application
  without versions was stripped of them.  The invariant, to which the uniqueness
  of slugs and ids belongs, holds of the committed table and of the table inside
  an open transaction (`TableInv`, `TxInv`), and says of an edit under way that
  the row it will write fits (`RequestInv`).  `AppAnswersKeepFitting`: beside
  it, what a visitor has read names applications that were there, and ids only
  grow (`VisitInv`, `TxGrown`).  `MediaKeepFitting`, `MediaEditsKeepFitting` and
  `SteadyRowsStayFound` come from one invariant, `MediaInv`: the committed table
  and the one in a transaction fit and the second follows the first; what an
  edit has read is still the row of that id unless the row is gone or the edit
  known as stale; and each visit has, of the rows that stayed, those it has got
  to.  That a search finds what it should is a lemma for each way of searching
  of each kind (for a label that Go and SQLite lower-case alike and that holds
  no wild character).  `ReportsStayTrue`: places that were applied, that failed
  and that were invalid are apart and all of the request's (`Tallied`), by
  `KeptSelects` for the places of the valid ones; the place a refusal names is
  that of a valid one.
* `LinkProofs`.  `LinksKeepLeading`: a key that was made is in Redis or gone,
  and leads to its address or nowhere; who names it leads home (`EntriesInv`,
  `BatchHome`).  For the ends of lives the invariant bounds by how much an index
  entry or a copy in memory outlives its key, and, since an entry is written
  after its key, how old the keys are that requests under way hold
  (`BatchYoung`); that every address gets its key is `BatchCovered`.  The first
  bound tried, one tick, was not inductive, and TLC with three requests found
  why: `DeadMasksFade` therefore allows the life of a memory entry, where an
  earlier version of it allowed a tick less.  `PageLinksKeepLeading`: every key
  leads to the page of the index entry it stands under (`TablesInv`); a cached
  address is no older than what is gone of the entry's life and a tick, the
  request that stored it having taken one at most (`MetadataInv`), and one in a
  request no older than metadata may be and its own tick (`AgeOf`), in any
  number of generations.

Assumptions.  Each module's are the form of its constants, except that
`MaskedLinks` assumes that a masked key lives for more than two ticks: a request
and the one before it are over (seconds) long before a key expires (24 hours).

Model-checked only.  Everything under fairness (`LockFree`, `ChunksFreed`,
`SlotReturnsUnlessCancelled`, `StreamsReturn`, `RevocationTakesEffect`,
`ListsAreFollowed`, `EveryRequestEnds`, `OldAnswersEnd`, `BacklogDrains`,
`EventuallyCurrent`), which the prover cannot do: it knows neither fairness nor
ENABLED.  `OrdersAreServed`, in `EveryRequestEnds`, is about the constants of the
instance.

## 5. Not modelled

Bytes, file names, HTTP details and foreign services: a download is a sequence
of chunks that ends or fails, an extraction a provider that answers or not.
Time is the order of events, or ticks where lives are compared.  Memory
operations are sequentially consistent (Go's atomics are; the unlocked read of
`chunks` is modelled by the outcomes of reading the slice before or after a
locked write).  Pages and limits of listings are left out, and a list of genres
in one column is one genre.  The deletion of statistics after 90 days and their
reports have no module.  `pkg/cdnstore` has no caller.  The start of the server
is wiring, and its stop is `CancelAllSessions` (in `HlsSessions`) before the
drain that `http.Server` does.  Scrapers and foreign clients, the vault, health,
logging and validation keep no state.  `PROJECT.json` lists them all.

## 6. Plan

1. What liveness rests on, as safety: that nobody waits for nobody.  Of an
   extraction, a call that is not over can send or its request will still
   receive, and of a session, whoever waits is owed a signal, a chunk or a
   time-out.
2. `BacklogDrains` and `OldAnswersEnd` as bounds in ticks, which are invariants.
3. The instances of several components: each part of `GateSpec`,
   `RequestsSpec` and `ServicesSpec` is a behaviour of its component's
   specification, as `ReportsStayTrue` shows of `CatalogsSpec`.
