# Verification of the TripPlanner services

TLA+ models of the parts of this repository whose correctness depends on the order in which
concurrent requests, Lambda invocations and SQL statements happen, model-checked with TLC on small
instances and, for most of the safety properties, proved with TLAPS for every value of the constants.

## The system

The backend is a set of AWS Lambda functions over one PostgreSQL database (schema `tripplanner`, with
the catalog read through views), a Next.js frontend that talks to them through its own API routes, and
a daily scheduled Lambda that runs background jobs. Every Lambda container serves one request at a
time on one database connection; concurrency is between containers. All statements run at PostgreSQL's
READ COMMITTED isolation. `handler.serve` opens no transaction of its own, so a statement outside
`conn.transaction()` commits by itself.

| component | state it keeps | operations | what makes it correct |
|---|---|---|---|
| Trip event log, projection, send-to-advisor (`backend/assembly/{events,handler,handoff,notify}.py`) | `trip_events` (append-only), `trip_drafts` (projection), `outbox` | add, remove, reorder, apply_route, add_day, remove_day, send | the projection is the fold of the log; one inquiry per hand-off; a repeated send is not a second hand-off |
| Job table, runner, jobs Lambda (`backend/jobs/{queue,runner,handler}.py`) | `job`: status, attempt, run_after, locked_by, locked_until, cancel_requested | enqueue, reap, claim, complete, fail | one runner at a time, at most `max_attempts` starts, one outcome, nothing forgotten |
| Retention kinds (`backend/jobs/{outbox_redact,rate_counter_purge,redact}.py`) | rows redacted or deleted; the results of earlier jobs | dry run, live run in batches, held run | nothing is touched without an approved run; a scheduled run never touches more than its limit |
| Guest sessions, owner check, accounts (`guest_session.py`, `account.py`, `registration.py`) | `sessions`, `traveller_accounts`, `customers` | authorize, link, claim, my trips | a session is bound to one token, a trip to one session, a session to one account |
| LLM gateway, breaker, profiles (`shared/{llm_gateway,llm_breaker,app_profile}.py`) | caches and breaker states per container | complete, record success or failure | fails closed without a route, stays inside its deadline, stops calling a failing model and comes back |
| LLM budget and ledger (`aa_llm/*`) | daily spend rows | check, record | spend is recorded once per call, the budget is overrun by no more than the calls in flight |
| AI rate limiter (`shared/ratelimit.py`) | `ai_rate_counter` windows | check, count | no more than the limit in a window |
| Component ids, availability, sequencing, day texts (`component_ids.py`, `availability.py`, `sequencing.py`, `master_content.py`) | `component_id_map`, redirects, tombstones (read) | resolve, reasons, sequence, resolve days, legs | no stop of a saved trip is lost or doubled while the catalog changes under it, and the hand-off's legs are the trip's |
| Narration (`agent.py`, `grounding.py`, `narration_cache.py`) | an in-memory cache | narrate | a cached text is served only for the itinerary it was made for |
| Search and vectors (`browse/search.py`, `shared/{embedding_space,vector_topk,llm_gateway}.py`) | route, space and query caches, a throttle cooldown | search | a query is compared with vectors of its own space; the ranking is the exact one |
| Routes and suggestions (`browse/routes.py`, `assembly/suggestions.py`) | none | proposals, a tour's route, what to add next | the best walks are proposed; a suggestion goes on from where the trip ends |
| The rest of browse, coverage, activities (`browse/*`) | tile cache headers | reads | shapes SQL rows into JSON |
| Tenancy and identity (`tenant*.py`, `identity_*.py`, `auth.py`, `db.py`) | the connection's `app.tenant_id`, the edge key's cache, the key set | check, verify, bind, unbind | a pooled connection never keeps another request's tenant; rotated keys age out |
| Frontend (`frontend/lib`, `components`) | React state, cookies, local storage | load, edit, sign in | an answer to an older question never overwrites a newer one |

How they interact: the assembly Lambda writes the log, the projection and the outbox in one
transaction; AA-Booking (another system) reads the outbox by cursor and dedupes on `idempotency_key`;
the jobs Lambda redacts the outbox's payloads later. Components do not call each other: they share
tables, and a request meets another only through committed rows, row locks and advisory locks.

## What is hard, and which property looks at it

`PROJECT.json` lists the hazards with their lines. The main ones:

* **Folds race with commits.** `append_event` inserts, folds the log, then upserts the draft; the row
  lock is taken by the last statement, after the folds. Two edits can each fold without the other.
* **Ids are not commit order.** `ORDER BY id DESC LIMIT 1` is the event with the highest id, not the
  one committed last.
* **A send is several statements.** Insert, fold, upsert, re-read of the last event, outbox insert with
  ON CONFLICT DO NOTHING, notification, commit: other requests commit in between, and any may fail.
* **A killed Lambda says nothing.** Its job's row stays `running`; what it sent last may still arrive.
* **Checked before, spent after.** The day's cap is compared with a ledger that lacks what containers are
  spending; a lost row makes it undercount.
* **What a container remembers.** Circuits, the profile it read, the hold after a lost row: each container
  has its own, ages it by its own clock, and loses it when it is recycled.
* **Who was proved, and when.** The guard proves a session with one statement and acts with later ones; first
  requests race to bind a token, accounts to link, registrations to insert one contact.
* **Caches that age.** The edge key, the key set, the route, the embedding space and the query vectors each have a
  life of their own in each container, while what they copy rotates.
* **The catalog moves under a saved trip.** Ids are rebuilt, places merged or dropped, tours retired, paused and
  restored, and the redirects may be unreadable for one request and readable for the next.
* **Queries merged in Python.** Several ranked and cut result sets become one list; what one cuts the other may need.
* **Leases against deadlines.** There is no heartbeat; a job is safe because of arithmetic on times.

## Modules

| module | role |
|---|---|
| `TripLog` | one trip: the tables, concurrent requests, one action per statement |
| `HandOff` | the promise of send-to-advisor: a hand-off is one atomic step, after an edit, with one inquiry |
| `TripLogProofs` | theorems about `TripLog` |
| `MCTripLog` | constants for TLC: the liveness run, the violation |
| `TripAudit` | `TripLog` with what each request decided on and has committed since |
| `MCTripAudit` | constants for TLC: three requests with sends, two with routes |
| `JobQueue` | the job table and the invocations that serve it, one action per statement |
| `JobPromise` | the promise to a kind: one runner, at most `MaxAttempts` starts, one outcome |
| `JobQueueProofs` | theorems about `JobQueue` |
| `MCJobQueue` | constants for TLC |
| `Retention` | the jobs of the outbox-redaction kind, the rows they redact and the results they leave |
| `RetentionProofs` | theorems about `Retention` |
| `MCRetention` | constants for TLC: the payloads of a tick and of operators |
| `LlmBreaker` | operators on the circuits a container keeps |
| `Narrate` | containers that answer narrations: budget, AI switch, chain of models, ledger |
| `NarrateProofs` | theorems about `Narrate` |
| `MCNarrate` | constants for TLC: the deployments, and the scenarios of what goes wrong |
| `Sessions` | guest sessions, accounts, customers and the owner of a trip, one action per statement |
| `SessionsProofs` | theorems about `Sessions` |
| `MCSessions` | constants for TLC: the calls of two devices, two accounts and guests |
| `EdgeKey`, `TenantAssertion`, `KeySet` | operators: the edge key and its cache, the signed tenant, the key set and what it makes of a token |
| `Container` | composes the three with the pooled connection: the requests of one container while keys rotate |
| `ContainerProofs` | theorems about `Container` |
| `MCContainer` | constants for TLC: keys, documents, and requests with a good or a broken part |
| `RateLimit`, `QueryCache` | operators: the fixed window of a traveller, the query embeddings a container keeps |
| `Search` | composes the two with the route, the space and the column: the searches of one container |
| `SearchProofs` | theorems about `Search` |
| `MCSearch` | constants for TLC: two models, one of them on two accounts |
| `RateCounter` | the rows of one key by themselves: late counts, failing ones, lost requests, the purge |
| `MCRateCounter` | symmetric requests for TLC |
| `ComponentIds`, `Sequencing`, `DayTexts` | pure functions: current ids, visiting order, texts of days and legs |
| `Lists` | operators: a filtered list, a sorted set, one record over another |
| `Stops` | composes the three: a saved trip while the catalog under it changes |
| `StopsProofs` | theorems about `Stops`, and about its folds |
| `MCStops` | constants for TLC: a catalog of two tours, and three books of texts |
| `TourRoutes`, `Nearest` | pure functions: walks through real tours, rankings by taste and distance |
| `Planning` | composes the two: what a traveller is told while a trip takes shape |
| `MCPlanning` | constants for TLC: five catalogs |

### TripLog

`events`, `draft`, `outbox` are the committed rows of one trip; `nextId` is the sequence behind
`trip_events.id`, drawn at insert and not given back. `own` and `inquiry` are a request's uncommitted
rows, visible to itself only (`Visible`). `advisory` is the send's `pg_advisory_xact_lock`, `rowLock`
the lock a send keeps on the draft between its upsert and its commit (an edit takes and releases it in
its last step, so `CommitEdit` only waits for it). A request is `Arrive`, a guard, perhaps a read that
decides what to append (`PrepareRoute`, `PrepareNight`, `PrepareRemoveDay`), then for each event
`Insert`, `FoldComponents`, `FoldOrder`, and `CommitEdit`; a send is `SendBegin` (or `SendAgain`,
`SendUnregistered`), the same three, `SendUpsert`, `WriteInquiry`, `CommitSend`. `Fail` may happen at
any of them: the transaction rolls back, its locks go, the drawn id is lost, the answer is an error.

Data kept: stops as values, the itinerary as the set of stops, whether an explicit order holds, and
which stop comes before which because of it. Geographic sequencing is a function of the set of stops
(`sequencing.py` sorts with total keys), so without an explicit order the set says all. The catalog stands still here:
stops it no longer serves and their carried snapshot are in `Stops`, the rows the guard and the registration write in
`Sessions`. Left out: day notes and names. `WriteInquiry` is one step for the reads after the upsert (`_last_event`, the days,
the unavailable stops; `handler.py:265-272`) and the insert into the outbox: a commit between two of them would give an
inquiry whose key and days are of different moments.

`send` answers 410 while `config.ADVISOR_HANDOFF_DEMO` is on, which is its default at this commit; the
model is of the code behind that flag, the one that runs when it is off.

`TripAudit` adds two histories to this, for the requests whose answer is about more than their last transaction: `base`, the log
as they read it when they decided, and `mine`, what they have committed since. A route is applied as a transaction for each missing
stop and one for the order; a night is added, and a day removed, in a later transaction than the one it was checked in. What these
requests leave is compared with what the others committed in between: `RouteIsTaken` says which part of a route may be left by one that
fails, and what an answered one has done for the trip.

### JobQueue

One record per row is spread over the functions `status`, `attempt`, `wait` (time until `run_after`),
`owner` (`locked_by`), `lease` (time until `locked_until`) and `cancel`. An invocation queues its batch
(`Enqueue`, one statement per row), reaps (`Reap`: both statements, one transaction), then loops:
`Check` reads the time left, `Claim` reads it again for the lease, `Handled` is the kind's handler with
any outcome, `Finish` is `complete` or `fail`, both guarded by `status = 'running' AND locked_by = worker`.
`Die` ends an invocation at any point; a finishing statement it had sent may be on its way (`late`) and
`Arrive` applies it at any later time. `Tick` lets a unit of time pass for all clocks at once: database
and Lambda clocks run at the same rate; nothing else is assumed about when statements happen.

`claim` orders by `run_after, created_at`; the model leaves the choice open, so what is shown holds for
any order. `RequestCancel` is external: no code sets `cancel_requested`, an operator does (the tests set it with SQL).
`locked_by` is the function name and the request id: an id is not reused while a row or an undelivered
statement carries it. `jobs/handler.py:15` says the scheduler target has no retry; an AWS retry would
reuse the id. With no Lambda context (a local run) `_time_left` is a constant 600 s and there is no deadline, so
`LiveRunnerOwnsItsJob` is about Lambda invocations only.

### Retention

The rows of `tripplanner.outbox` are numbered by `created_at`, and a cutoff is the number of rows before it:
`expired` for the deployed window, any number for an override's age or for a run that began before the last
deployment. `redacted` is `redacted_at IS NOT NULL`. A run (`pc`, `run`) is `Start`, `TryLock`, `Count` (with the override's gate, whose
settings are free), `Decide`, `Batch` until the limit or until no row is left, `Remaining`, `Unlock`, `Record`. `lock` is
the session-level advisory lock of the kind. `last` is what `LAST_LIVE_SQL` returns. The next run's limit
comes from it, so it is read at `Decide` and written at `Record`, after the lock is gone.

`Disconnect` and `Kill` may happen wherever a run has a statement under way: the database still holds the
session and its lock, a batch's commit may be on its way (`flying`, applied by `Land`), and
`EndSession` is the server noticing. `BatchFails` is the failure on a live connection: the batch is rolled back, or its `COMMIT` took longer
than the pool's `command_timeout` and the run does not know that it has committed. `Reap` is the job table failing a dead run; a job has one attempt.

Left out: `FOR UPDATE SKIP LOCKED` and the keyset cursor pass no row, because nothing else locks or deletes outbox rows;
the batch size is free; queued jobs start in any order; leases and cancellation are `JobQueue`'s. The rate-counter purge
(`rate_counter_purge.py`) takes the same steps without overrides and is not modelled separately. What a redacted payload
looks like (`redact.py`) is not modelled.

### Narrate

Shared by all containers: `ledger`, what the spend view sums to, and `ai`, the profile's switch. `memory` is what a
container keeps between requests: its circuits (`table`, operators in `LlmBreaker`), `hold` (time until
`_spend_unreadable_until`), `profile` (what `app_profile.current` cached, with its age, or the time until it
reads again). `at` is the request it serves: where it is, the model and the deployments still to try, the time left of the
deadline (negative when passed), and the ledger rows to write. `billed`, `lost`, `offFor` and `sinceLoss` are history and
guard nothing but a bound.

A request is `Ask`, `Budget`, `Resolve`, `Limit`, then `NextModel` and `Attempt` for each model and deployment
(`Assumed` between the two calls of a satellite), ended by `Text`, `Truncated` or `Fails`; then `Write` or `Lose` for
each row, and `Respond`. `Recycle` ends a container anywhere: unwritten rows are lost, a call under way may
still be billed. `Switch` and `NewDay` are the CIS admin and the view's day.

Points in time are kept as distances, so `Tick` is the only clock. `NextModel` and `Attempt` work in memory and take no time; a
client takes at most its timeout, which for a satellite is twice the time left: once for STS, once for
the model. `Settings` are the scenarios of a behaviour (which containers serve, which chain, what may go
wrong), so that one run covers several without their product.

Left out: the narration cache and the master text, answered before `Budget`; the 60 s route cache (a route reads or does not);
the limiter's count (429 or pass); stage caps and the profile's budget (the same comparison over other sets of
rows); connect timeouts; what the provider bills for a call that timed out or answered nothing, which the ledger
counts as 0 USD; CIS's own circuits, of which `shut` is any subset at each model; alerts and log lines.

### Sessions

`sessions`, `owner` (the draft's session), `customers`, `events` and `inquiries` are committed rows; `locks` is what a
send's transaction holds across statements: its trip's advisory lock, the draft's row, the session's row. `pending`
is the customer it has inserted, `handed` the contact of its inquiry. `grace` is whether the legacy window is open.

A mutation is `Arrive`, `Authorize` (the first read), `Insert` or `Bind`, `Reread`, or `Vouch` for what the token did
not prove, then `Owner`, `LinkSession` and `Edit`. A send goes on with `SendLock`, `CheckRegistered`, `FindExisting`,
`Register`, `Attach`, `AppendSent`, `Commit`. `Show`, `MyTrips`, `MeRefused` and `Claim` are the other routes, and
`CloseGrace` is the clock passing `GUEST_LEGACY_GRACE_UNTIL`. `Fail` may end a request at any statement; its transaction
rolls back. `Register` waits for a transaction that has inserted the same phone or email, and fails when it committed.

Left out: names and consent, expiry dates, the shape of the trip list. Hashes are named by their token, accounts by
their (iss, sub). A contact is a [phone, email] record, so that two contacts may share one of the two.

### Container

One assembly container, which serves a request at a time: `Arrive`, `CheckKey` (`check_event`), `CheckAssertion` or
`BarePath`, `Identify` (the access token), `Acquire`, `Bind`, `Route`, `Unbind`, `Release` (the pool's `RESET ALL`). Kept
between requests: `edge` (`auth._cache`), `keyset` (the verifier's `JwksCache`), `conn`. Around it `Tick`, `RotateSecret`,
`Publish`, `Break` (the connection drops anywhere) and `Recycle`. The edge key's cache is read twice in a request that
brings an assertion, and either read may fetch or fail. `held`, `since`, `until` and `found` are history.

The token's `iat` and `nbf` are not in `ClaimsHold`, and a failed fetch takes no time in `Refresh` (the code reads the clock before and after).
A signature is named by its key and assumed to verify or not; one issuer is accepted, as `identity_config` configures.
The key set's lock is never contended, because a container serves one request at a time. The DSN is left out.

### Search

One browse container: `Arrive`, `NoWord` or `Hit` (the limit), `Load` (route and space) or `Unreadable`, `Lookup` (query
cache and cooldown), `Budget`, then `Answered`, `Throttled` or `Failed`, and `Rank`. Around it `Tick`, `Migrate` (the registry
view is created), `Swap` (a re-embed ends), `SetRoute`, `Elsewhere` (another container counts the same traveller) and
`Recycle`. A vector is the space it was made in and its text. `changed` and `passed` are history.

Left out: the column-set fallback, request bodies, the circuits (a model that is not called is `Failed`), the result's
shape. A traveller is one key, whether the code hashes an account or normalises an address.

### RateCounter

A row of `ai_rate_counter` per window of one key, `Counted` by a statement that belongs to the window it began in, however long it
waits (`Life` is the Lambda's timeout). `Fail` is a statement that fails, written or not, after which the request goes on uncounted or
unheard, or the container's end. `Purge` deletes old windows. `Search` has the same counter where it stands before a search;
there each count is heard and none is late.

### Stops

The trip is its log, as in `TripLog`, but folded with the ids, redirects and tours of the moment: `catalog`, `redirect`,
`status` and `next` are AA-CIS's, `events` and `draft` the trip's. `AddComponent`, `RemoveComponent`, `Reorder`, `ApplyRoute`,
`AddDay` and `RemoveDay` are the edits; each reads the redirects on all its hops or on none. `Rebuild`, `Merge`, `Drop` and
`SetStatus` are the catalog's. Requests come one at a time: `TripLog` has their interleavings. `now`, `kept`,
`joined` and `steady` are history.

Places lie on a line: `sequencing.py` asks of coordinates only distances and which of two places lies further west, and
no property is about which stop is nearest. `apply_route` orders the stops it did not
propose by iterating a Python set, so any order of them is a step.

### Planning

`AskRoutes`, `AskTour`, `Search` and `AskNext` are stateless reads of the catalog and the pinned components; `Rebuild`, `Pin`
and `Unpin` change those between them. The answers are compared with reference definitions written from the other end:
all walks through the catalog, all components by distance, all next stops of tours. Where the code's order leaves ties open
(an index scan, `ORDER BY` without a total key) the model has every answer the ties allow.

A tour's route comes from its graph or from the places its page names, and each counts days its own way: the graph to the
last of the tour's days and its stops, the places to the tour's length, or as many as are named when that is missing. Only components with an
embedding are read by either (`Embedded`). `TourRouteIsTheTour` defines again, from stops, components and places, what each source could
pin, and says which of the two a tour gets and what it must then contain.

An embedding is a number and a taste the sum of some with their count. The index scan is exact; its recall is pgvector's.

## Runs

| run | instance | shows |
|---|---|---|
| `trip_safety` (`MCTripAudit`) | 3 requests of 2 sessions, 2 components: sends among edits; or 2 requests of any operation, routes of 2 stops and orders among them | the invariants, the action property and the refinement of `HandOff`; what a route and a later transaction leave |
| `trip_live` | 2 requests of 2 sessions, operations of every kind of locking, under `FairSpec` | every request that passed the guard is answered |
| `trip_late_edit` | 2 requests | a violation, see Findings |
| `jobs` | 1 job with 2 attempts, 2 invocations, time limit 2, lease up to 2, under `FairSpec` | ownership, the refinement of `JobPromise`, and that a queued job ends |
| `retention_safety` | 3 jobs (manual, scheduled, override, refused payloads), 2 rows, 2 windows, batches up to 2 | approval, limits, exact results, one run at a time |
| `narrate_safety` | 5 scenarios: all is well, account-wide failures and throttling, refusals, two containers spending with losses, the AI switch; 3 deployments of 2 models on 2 connections, a cap of 2 units, times up to 2 | the books, the cap, the deadline, the hold, the switch, the circuits |
| `sessions` | 3 requests, 2 session ids of which one is legacy, 2 tokens and a malformed one, 2 accounts, 2 trips, 3 contacts of which two share a phone | who may change and read, what is linked, whose contact is handed off |
| `container` | `MaxTime` 4, the edge key kept for 2 and the key set for 3, 3 documents, 16 requests | rotated keys age out, no tenant outlives its request |
| `search` | `MaxTime` 4, 2 requests, 2 changes around the container, 4 routes, a guest's limit of 1 and twice that signed in, windows of 2 | vectors match the column, the allowance holds, no call for a vector the container has |
| `rate_counter` | 5 requests, a guest's limit of 1 and twice that signed in, windows of 2, `MaxTime` 4, 1 failure | the limit across windows, and who is refused |
| `stops` | 2 tours, 3 components and 1 id from before the flip, 3 books, 3 hops, at most 4 events and changes together, at most 2 changes | no stop is lost, doubled or unexplained; legs, days and texts are the trip's |
| `planning` | 5 catalogs of up to 6 tours, trips of up to 2 stops | proposals, a tour's route, search and suggestions against reference definitions |

Bounds: three requests are two that race and one that comes after, or a send between two edits, and every
violation found needs at most three. Two invocations are one that dies and one that reaps; with a retry
that is enough for a late statement of the first to meet the second's run of the same job. The times are
the smallest with a claim late in the invocation, a lease capped by its maximum and a backoff. One job is enough
for what ends it; that jobs do not disturb each other's leases and outcomes is proved, for any set of them. Three
retention jobs are an approval, a scheduled run, and one that interferes; two rows are enough for a batch between two others and for a
limit (`Floor` is 1) that leaves a row. In `trip_safety` the constraint `TwoOrThree` keeps routes
of two stops and explicit orders to behaviours of two requests: a send or an edit meets a route's transactions one by one. Two containers are two that pass one check of the cap; a chain of two models,
the first with a satellite and an own connection, has a next deployment, a next model, and two models on one connection.
Periods of one and two ticks tell an open period, its doubling and its cap apart; `MaxFailures`, `MaxStreak` and `MaxAge`
stop counters where more changes no decision, `MaxLost` bounds what is lost in a day, and `NewDay` starts it again. `ledger` and
`billed` need no bound: the cap and the length of the chain are theirs. `trip_safety` stops when every request is done, which is a stutter (`AllDone`).

Three session requests are two that race to be first and one that depends on who won; two contacts that share a phone
let one registration meet the other's row under another email. In `container` an edge key can be
rotated and its cache run out twice, and a key set be rotated, its refetch be due and its life end;
the constraint `OneRotates` keeps both kinds of rotation out of one behaviour, since no step reads both caches. In `search` the two changes
are a swap with the migration before it, or a swap and a route edit, within and past the lives of the caches. In `stops` three hops
resolve the pre-flip id through two rebuilds (`HopsSuffice`); four events and changes are a stop added, moved, shown by another
edit and removed. In `planning` `ChainRowsMax` 2, `MaxProposals` 5 and `Passes` <<2, 4>> stand for 40, 5 and 200, 1000: each limit is
met with more rows than it lets through; the fifth catalog
has tours without a length, and with stops or places past it. One answer at a time is enough, because a read changes nothing.
In `rate_counter` five requests are more than twice a signed-in traveller's limit, on
three windows of which the first may be purged.
Deadlock is not checked in `search`, `rate_counter` and `stops`, whose clock, requests and log end at their bounds.

Fairness: a container that is not killed goes on (`WF` on a request's steps), and PostgreSQL grants a lock
to a waiter. For the jobs the scheduler goes on invoking and time passes; a statement takes milliseconds
of an invocation's minutes, so one that is tried in time again and again gets through
(`SF` on the statements of an invocation with at least `MIN_TIME_LEFT_S` left). Nothing is assumed of handlers or
of `finish`: a runner may die in every attempt, and the job still ends.

## Findings

**An edit a send does not see** (`trip_late_edit`, `LatestHandOffIsCurrent`). An edit with an id below the `sent` event's that
commits after the send's fold is neither in the inquiry nor "an edit since": the next send answers `already_sent`.

The following statements of docs, comments and tests are refuted by the models too. Each is a definition of its module without a
run; naming it under `INVARIANTS` or `PROPERTIES` of the module's cfg shows the behaviour.

* **Lost projection update** (`TripLog.ProjectionIsFold`). Two edits insert, both fold, both upsert: the draft
  lacks the stop of the one that committed first, with no transaction open, until the next edit. My Trips reads the
  draft, `GET /trip` folds the log; they disagree. `001_tripplanner_schema.sql:110` calls the draft a projection updated with each
  event. `UnovertakenWriteIsExact` is what does hold.
* **A route that pins less than half of its days** (`Planning.RouteKeepsTheShare`). `routes.py:341` says both sources of a
  tour's route pin at least half of its days. The places are measured against the tour's own length, or the number of days they name
  when it has none (`routes.py:328-329`), and shown from the first of them to the last (`routes.py:254-257`): a tour without a length, with
  places on days 1 and 10, is shown as ten days with two pins, and one with places past its length likewise. `TourRouteIsTheTour` is
  what does hold. It takes a catalog with such a tour (`MCPlanning.Odd`); nothing in the code rules one out.
* **Suggestions that go on from another stop** (`Stops.NextIsFromTheEnd`). `suggestions.py:174-175` says the last stop is found
  as the itinerary is built; it is found by `sequence` alone, so an order of the traveller's, or an applied route's, is ignored.
  `SuggestionsGoOn` is what does hold: the suggestion goes on from the geographic end.
* **The hand-off id is not always the `sent` event's** (`TripLog.HandOffIdIsSentEvent`). An edit that commits between the insert
  and `_last_event` gives the inquiry its id. Keys stay unique (proved), so nothing is dropped by ON CONFLICT.
* **A failed live run without a result** (`Retention.ResultSaysHowMany`). `docs/jobs-runbook.md:102` says the result tells how many
  rows a failed live run committed. It does when the batch itself fails; when its `COMMIT` times out the batch is not counted; when the connection breaks, `UNLOCK_SQL` in
  the `finally` raises and replaces `JobFailed`, and a killed Lambda is reaped without a result. `ResultIsExact` is what does hold.
* **An attempt longer than the deadline left** (`Narrate.WithinTheDeadline`). `_runtime` gives the STS client and the model
  client of a satellite the same timeout, the time left before either: together they may take twice that. The gateway
  looks at the clock again only before the next attempt. `OverrunIsOneAttempt` is what does hold.
* **A half-open circuit that is never probed** (`Narrate.HalfOpenIsProbed`, under `FairSpec` with `Settings <- MCDenied`). Two
  models of a connection were denied once, so the connection counts as refused while either circuit is open. The first is
  denied again at every probe; its circuit opens again, and the second's old denial still makes two. The second model
  is never called, whatever it would answer, until a call on the connection succeeds or the container is recycled.
* **A submitted contact that is not handed off** (`Sessions.SubmittedIsHandedOff`). `handler.py:256`: a guest whose contact matched a
  customer "hands off exactly what this request submitted instead". `handoff.py:328` asks for the session's customer first, and a
  concurrent send of the session's other trip may have registered one meanwhile: the inquiry goes out under that one.
  `ContactsStay` is what does hold: it is a contact of this session.
* **A placeholder that lets requests through** (`Container.PlaceholderIsRefused`). `auth.py:20-21` says an empty or REPLACE_ME
  key answers 503 and never allows. The request that reads the placeholder is refused; until the next read is due the
  others are compared with the key cached before (`auth.py:84`). `KeyIsCurrent` is what does hold.
* **A projection that names a stop nobody finds** (`Stops.NamedWhenGone`). `events.py:227-228` keeps a snapshot of each stop
  for when the catalog stops serving it; it is looked up by the current id (`events.py:233-242`), so a stop whose id moves
  and which is then dropped, with no edit in between, is listed without its name. `GoneIsExplained` is what does hold.

Smaller things met while modelling, each part of a definition as the code has it:

* a suggestion is called "close to your last stop" (`suggestions.py:361`) at any distance;
* the rows of `CHAIN_SQL` are cut before they are merged, so that one pair of tours may crowd out others;
* a route built from a tour's places may pin one experience on several days, and counts each;
* after a merge of two stops, removing one takes the other along; a tour that was restored is called paused while `v_tour`
  cannot be read; `guarded_days` may move two stops to one day;
* `identity_config.py:14` says the handler prefetches the key set; `prefetch` is never called.

## Proofs

All proofs are checked by tlapm without omitted steps, for any sets of requests, components, sessions, jobs, containers
and invocations, and any times that satisfy the modules' named assumptions, which TLC evaluates in every run. Each module
proves an invariant inductive (`IndInv` in most), one lemma per action or group of actions, and takes its properties from it.

`TripLogProofs`: `Spec => []IndInv`. `OneInquiryPerHandOff` is not inductive alone: that a sender's key is new
depends on where every other request is. `IndInv` adds: what is asked of a request matches where it is
(`AskedOK`); a request has an uncommitted event exactly while its transaction is open (`OwnOK`); ids are
drawn once (`IdsOK`); a send past its check holds the advisory lock (`LockOK`); while it does, the log holds
an edit after the last hand-off, below its own id, and every inquiry's key is smaller (`SenderOK`); an inquiry
under way names its own event and a key at least as high (`InquiryOK`); committed inquiries name
committed events (`OutboxOK`). From it follow the invariants (`TypeOK` and `StatusFollowsLog`, that a trip is
`sent` exactly when its log has a hand-off, are proved without a run) and, step by step, the refinement
`Spec => ImplementsHandOff`.

The same module has the action property `UnovertakenWriteIsExact`, from `FreshOK`: a request whose fold no
commit overtook has folded exactly the log it will commit onto.

`JobQueueProofs`: `ClockOK` (time read before the claim is at least the time left at
the claim, and at most the limit), `RunnerOK`, `LateOK` (a statement is on its way only for a dead
invocation), `TableOK` (owner exactly while running, attempts within bounds). The lease argument is one lemma,
`LeaseCovers`, from `TimeLimit <= LeaseMax`. `Spec => KeepsPromise` maps claim to Start, finish and death to
Stop, reap and late statements to Settle.

`SessionsProofs`: what let a request through is read before the statements it is for, and is still true of them
(`GuardOK`, with `Cleared`), because a session's token and account and a trip's owner are settled once (`Settled`, proved of every
step first). `SenderOK`, `HandedOK` and `ContactOK` follow a contact from the call to the inquiry; `LinkOK`, `EventOK` and
`ShownOK` are the properties, of requests that are done.

`ContainerProofs`: a cache is right by when it was filled. `HistoryOK` says what the histories mean; `EdgeOK` that a
cached key was the secret when it was read, and a read is put off only after one that found none; `KeysOK` the same of the
key set and its kids. What is served is then as old as a cache's life at most, whatever rotated since. `ConnOK` says that
only a route's own request has a context on the connection.

`RetentionProofs`: whoever redacts holds the lock (`LockOK`): a run between its count and its end, or the session of a lost one,
whose rows in flight were counted against its limit before they were sent. So a job's tally is its own (`TallyOK`), what it
counted is still what there is (`CountOK`), and the limit stands whatever commits late (`ApprovalOK`). `LastOK` ties the last live run to
an operator's before it. `OldestAreFew`, that a batch takes no more than it asks for, is a pigeonhole argument.

`NarrateProofs`: three invariants, each taken on top of the one before. `IndInv`: `HoldOK` (a hold and the time since the loss
add up), `ProfileOK` (a profile that says AI is on is at least as old as the switch) and `TimingOK` (what is left of the
deadline is on the client's timer, but for the time the role's client took) give `HeldAfterLoss`, `SwitchReaches` and
`OverrunIsOneAttempt`. `BooksInv` counts a unit where it is: every way out of an attempt moves it from one of the
summands of `BooksBalance` to another (`BookStep`). `WithinTheCap` is then a counting argument. A request that passed the
check holds a claim on the cap for each unit it has billed and each deployment it has yet to try, at most one for each of
`Chances`; while nothing new passes the check, what is spent past it was claimed, and whoever passes it sees a ledger below
the cap (`ServingBound`, `ClaimsCount`). That takes the cardinality of a union of tagged sets (`FiberReplaced`,
`FibersBound`), which the library does not have. `CircuitInv` follows the circuits: what a health record says of its last
error (`HealthOK`: its open period, doubled with the streak, is never below `OpenFor`), and that no deployment that waits to be
tried is behind an open circuit, its own or its account's (`Ready`, `Free`): a model has one deployment per connection
(`SettingsAssumption`; the breaker's key is the pair), so the failure of one closes off none of the others. `LeftAlone` is a step
that begins a call. `TypeOK` comes out of all three.

`SearchProofs`: what was let through in a window was counted in its row first (`CountedOK`), so the row is never behind
the limit; `WindowIs` says where windows start and end, for any window. `SpaceInv` is the argument about vectors: a cached space
is the registry's or was read before the column last changed (`CachesOK`); so a request that came `ConfigTTL` after that
change (not `Late`) plans for models of the column's space only (`RequestOK`), and an entry of the query cache was made by the one
model its key names, unless it was stored within `ConfigTTL + RequestLife` of a change (`EntryOK`). From it follow `SameSpace` and
`SparesTheQuota`. The last clause of `SparesTheQuota` came out of the proof: without it the property is false once a
traveller asks four times. A vector may be stored under two models while the container takes the space for unknown; when it
knows the space, the same text has a key of one model, and the model is called again. The run's two requests do not get there.

`StopsProofs`: the four properties of `Stops`. `NothingVanishes` is the one that everything meets in: two tables of ids, the fold
of the log, the traveller's order, the geographic one, the days, and what is listed apart. The other three are about what is
told of these stops: the reasons, the texts and the legs. First the folds, then the invariants, then what is told.

The folds. Each list the code builds (`Only`, `Distinct`, `Walk`, `Present`, `Sequence`) is a recursive function here. That it exists
and what it says of every log is induction over data: `LeastInNat` gets it from the well-foundedness of finite sets,
`Induction` states it of a set, and `Iterates` gives a function that is made step by step, so that each fold is proved once to obey its
recursion (`OnlyIs`, `DistinctIs`, `WalkIs`, `PresentIs`, `SequenceIs`) and then by induction to keep what it should
(`OnlyKeeps`, `DistinctKeeps`, `CurrentIsNow`, `PresentHas`, `SequenceHas`). `Ranked` says that in a finite set with a total
order every place is taken, by one; that is why sorting a tour's stops (`TourListIs`) and laying its blocks end to end
(`BlocksArePartition`, `FollowUpIs`) gives each stop once. `ShownIs` puts them together: itinerary and list apart have
each present stop once, whatever the order of the traveller's.

The invariant (`Inv`). `IdsOK` says where ids go: a hop keeps what an id is called now, an id that is current goes nowhere, and
there is a rank that falls with every hop and never exceeds the number of changes plus one, so that `Hops` hops reach the end
(`CurrentIsNow`) and a call that reads fewer stops within what the id is called (`CurrentStays`). `TablesOK` keeps current ids out of both tables.
`Agreed` is `NothingVanishes` said of the log: after its events something called `c` was added and not removed since (`Lives`) only if
the traveller wants `c`, and if they do unless ids met there. A change of the catalog is then a renaming (`Rerouted`, `LivesMoved`): what an id
goes to takes over what the log says of it, where it is new; where it was there already the two are one, and a remove of either removes
both, which is the exception for merged places that the property makes. Edits need no more than what their last event adds or
removes (`EventKeeps`), and a route its pins at once (`LivesAdded`). The theorem holds for any catalog, any number of events and changes up to
`Hops - 1`, which is `HopsSuffice`; with more rebuilds of one stop than `REDIRECT_HOPS` the code stops short of its current id by
design (`component_ids.py:88`).

The reasons. `GoneIsExplained` needs a second invariant, on top of `Inv`: `TaleOK` says that the stored projection is well formed and
names each stop that was shown and has not moved since (`steady`). An append keeps this because the projection takes a row for a served stop
(`ProjectionIs`) and the former row for another, and one that follows in the same request does not hide what the first showed
(`WriteTells`). That last condition came out of the proof: `steady` used to ask only for the last append of a request, and the property
was false. Add a stop, merge it into another that is then dropped, and apply a route while the redirects cannot be read: an early append of the route
stores the trip without the merged stop, and its name is gone when the last one shows it again. TLC confirms it with seven
events; the run's bounds stop at four.

The texts. `ResolvedIs` follows the two passes of `resolve_days` day by day: each day is told nothing, a text of its own, or a
free one that no day before was told and no day after can take (`Fair`, `Told`). `RedirectIs` says that a free text names a stop of the day and is
no stop's own; `GuardedIs` that the hand-off moves a stop only to such a text.

The legs. `ChainWalks`: the legs of a list, walked day by day, are its tour days. It is an induction over the entries, in which a leg that
goes on is one day longer (`SpanLonger`) and one that does not is appended (`JoinedIs`); `WalkConcats` puts the legs of the stops listed apart
behind those of the trip. `PlacedIs` says that placing these on days only permutes them, so the inquiry's days have
every stop once (`InquiryHas`). `SequenceGroups` shows that the greedy choice of blocks keeps a tour together: blocks are tours
(`BlocksAreTours`), and a list of them grows by one that shares no tour with it (`TogetherGrows`).

Only model-checked: the liveness properties (TLAPS has no ENABLED), the violations, `TripAudit`, `RateCounter`, and `Planning`, whose
reference definitions enumerate walks and cut lists of rows by rank. `TypeOK` is proved for `TripLog`, `JobQueue`, `Sessions`,
`Retention` and `Narrate`; for `Container` and `Search` it is defined, and is checked by adding it to the cfg's `INVARIANTS`.

The SMT encoding of tlapm 1.4.5 states two facts about `Len` for every value where they hold for sequences (that a domain
`1..n` and a length `n` go together, and that a length is not negative). Proofs that speak of lengths were tried again with these facts
restricted to sequences; they keep obligations about lengths apart from those about functions on `0..n`, where the
unrestricted facts would prove too much.

## Plan

Done and proved: `TripLog` with `HandOff`, `JobQueue` with `JobPromise`, `Retention`, `Sessions`, `Container` with `EdgeKey`,
`TenantAssertion` and `KeySet`, `Narrate` with `LlmBreaker`, `Search` with `RateLimit` and `QueryCache`, `Stops` with
`ComponentIds`, `Sequencing` and `DayTexts`. Done, model-checked: `Planning` with `TourRoutes` and `Nearest`, `TripAudit`, `RateCounter`.

Left, in this order:

1. What `Narrate` leaves out: the route cache, the profile's own budget, the narration cache against the itinerary it was made for,
   the credential cache of a satellite.
2. `redact.py` as an operator against the allowlist, and the rate-counter purge as an instance of `Retention`.
3. The frontend: answers that arrive out of order (`tileLoader.ts`), one refresh for many callers (`authSession.ts`).
4. Proofs: that a route of a tour is the tour (`TourRouteIsTheTour`), with the folds of `StopsProofs`.

## Not modelled, and why

The catalog's lists, pages, tiles and places, coverage, and the activities of a stop are single reads that shape rows into JSON.
Observability and scrubbing keep no state the service acts on. Cryptographic verification is assumed to tell good from bad; the
recall of the vector index is pgvector's; token counts and prices are an attempt's unit. Pages, map and design kit render, and
the rest of the frontend is browser state the services do not trust. CI scripts and documentation tools are not part
of the program. AA-Booking, Bedrock, Secrets Manager and the token issuer are modelled by the answers the code
handles.
