# RentSafe backend: models, checks and proofs

TLA+ models of the RentSafe API: what its handlers and batch scripts do to
PostgreSQL, Redis, the media store and the file system when they interleave, die
half-way and come back, with TLC runs on small instances and TLAPS proofs for
every instance. The code is the reference; every definition that stands for code
is listed in `PROJECT.json` (`map`) with the lines it translates.

1. The system · 2. Modules · 3. Runs · 4. Proofs · 5. Where code and text part ·
6. Not modelled

## 1. The system

A FastAPI application, several processes of it, over one PostgreSQL database,
one Redis and an object store. A handler is an `async` function with its own
`AsyncSession` (`app/db/session.py`): at every `await`, and in every other
process at any time, other handlers run. There is no explicit lock, no
`SELECT ... FOR UPDATE` and no isolation level above READ COMMITTED anywhere in
the code. Beside it, an operator runs an importer of public data, a nightly
backup and, on a bad day, a restore.

| Component | State | Operations that change it | Correct when | Modules |
|---|---|---|---|---|
| Reviews and score cache (`services/reviews.py`, `api/v1/reviews.py`, `core/moderation.py`) | `reviews`, `users.review_count`, aggregates on `properties` | submit, edit, delete, recompute | aggregates and counts agree with the rows; only moderated reviews count; risky text is flagged | `Reviews`, `Publication` |
| Moderation (`api/v1/admin.py`) | `moderation_status`, `moderation_actions` | approve, reject, request edits | nothing is public without a recorded decision; decisions outlive deletions | `Reviews`, `Publication`, `Alerts` |
| Right of reply (`api/v1/responses.py`) | `owner_response` | reply | the words answered do not change; only a granted claimant replies | `Reviews`, `Claims` |
| Account closure (`api/v1/users.py`) | `users`, reviews, photos, watches, bookmarks | anonymise, withdraw | what is withdrawn leaves nothing; the number is released | `Reviews`, `Claims`, `Photos`, `Alerts` |
| One-time codes (`services/otp_store.py`, `services/auth.py`, `api/v1/auth.py`) | Redis: code, attempts, cooldown, quotas | ask, present | guesses and messages bounded; no lock-out for ever | `OtpStore` |
| Accounts and claims (`api/v1/agents.py`, `admin.py`, `users.py`) | `users.phone_hash`, `agent_claims`, `agents` | login, change of number, closure, claim, decide | one grant per profile, bound to a proved number, refusals final | `Claims`, `Profiles` |
| Photos and media store (`api/v1/photos.py`, `services/media.py`) | `property_photos`, bytes in the store | upload, delete, moderate | what is withdrawn leaves no bytes; a decision keeps its photo | `Photos`, `Gallery` |
| Push and alerts (`services/push.py`, `api/v1/pushapi.py`, `alerts.py`) | `push_subscriptions`, `area_watches`, `alerts_read_at` | subscribe, unsubscribe, watch, notify | only dead subscriptions go, and they do; the unread counts agree | `Alerts`, `Rules` |
| Property identity (`services/identity.py`, `core/property_id.py`, `address.py`, `phash.py`) | `properties` | identify or create | one building, one record; PropertyIDs unique and dense | `Identity` |
| Open data and rate limiter (`services/opendata.py`, `api/v1/places.py`) | slots in Redis, files in a cache directory | claim a slot, fetch, read and write the cache | the published pace is kept; a lookup ends; a pin is no narrower than its label | `Upstream`, `Rules`, `Listings` |
| Routing cache and commute page (`services/routing.py`, `api/v1/commute.py`) | drive times in Redis, `commute_reports` | estimate, cache | an outage is not remembered as an answer; a time is labelled by what measured it | `Upstream`, `Rules` |
| Reference data import (`scripts/import_reference_data.py`) | `properties`, `data_sources`, `neighbourhoods`, `agents`, `elevation_m`, transit lists | import, again and again | running it again adds nothing; a measurement is the property's own | `Identity`, `Upstream`, `Listings` |
| Backup, restore, alerting (`scripts/`, `services/alerting.py`) | files, the database, two channels | dump, verify, prune, ping, restore | a heartbeat means a backup; retention and restore destroy nothing unreplaced | `Backups` |
| Scoring (`core/scoring.py`) | none | pure | a fair aggregate of what it is given | `Rules` |
| Fees, bookmarks, neighbourhood pages; observability, SMS; wiring, schemas, migrations, seed | single rows, counters, declarations | - | - | section 6 |

### How the parts interact

* `submit_review`, `update_review`, `delete_review` and `moderate_review` all
  end in `recompute_property_scores` inside their own transaction: flush (the
  row locks are taken), a select over the property's approved reviews, commit.
* A moderator's decision, an author's edit, a reply and a closure write the same
  review row from separate sessions; they meet only in row locks and in what
  each session happened to have loaded.
* A login or a change of number accepts a code (Redis) and then writes
  `users.phone_hash` (PostgreSQL). A claim binds the claimant's number to an
  agent profile, and a reply is authorised by comparing numbers.
* An approval commits and then pushes to the area's watchers with the same
  session.
* A tenant's pin and an imported building become the same kind of row by the same
  `create_property`; the elevation import measures whatever rows there are.
* Every process looks addresses up through one cache directory and one courtesy
  limit, and drive times through one shared cache.
* A restore replaces the database under a backup job; retention removes archives
  a restore may have chosen.

### What is hard

* **Interleaving at READ COMMITTED.** A guard is evaluated on one select, the
  write happens several awaits later.
* **Two rules of the SQLAlchemy session.** An UPDATE names only the columns
  whose value differs from the one *this session* loaded: assigning "pending" to
  a row loaded as "pending" writes nothing. And a row already in the session is
  not refreshed by a later select.
* **Row locks across awaits**, from the flush to the commit: two requests can
  wait for each other.
* **Commands without a transaction.** A Redis command is atomic, a handler
  issues up to nine; a file written in place is torn until it is complete.
* **Foreign keys without ON DELETE**, which the SQLite test database does not
  enforce.
* **Crashes** between any two of these, and **time**: codes, counters, slots and
  the 48 hours of an edit window expire in between.
* **Caches that outlive the question**: keys cut short, answers kept for ever.

`PROJECT.json` lists the hazards one by one, with the line where each bites and
the property that covers it, or why none does.

## 2. Modules

Every state machine has the same plan: constants with a named assumption,
`Init`, one action per operation or step between two awaits, `Receive` (clients),
`Proceed` (a request goes on), `Next`, `Spec`, properties. `MC...` modules
hold the values of a small instance, `...Proofs` modules the theorems.

### Reviews

State: `review`, `user`, `prop` (the committed rows, with the columns used
here), `audit` (the decisions recorded per review) and `tx`, the transaction of
each worker.

| pc | after | action that gets there |
|---|---|---|
| `authed` | `get_current_user` | `StartSubmit`, `StartOnOwnReview`, `StartClosure` |
| `loaded` | the selects and the assignments to the session's objects | `LoadSubmit`, `LoadEdit`, `LoadDelete`, `LoadClosure`, `LoadDecision`, `LoadReply` |
| `flushed` | the UPDATE, INSERT or DELETE: locks held | `Flush` (or `FlushError`: `StaleDataError`, foreign key) |
| `scored` | the select of `recompute_property_scores` | `Score` |
| `idle` | the commit | `CommitScored`, `CommitReply`, `CommitClosure` |

`Refuse` is the 404 or 409 of `_own_editable_review`; `Crash` is a dropped
connection, a killed worker or PostgreSQL's choice of a deadlock victim;
`GrowOlder` moves `created_at` past 24 and 48 hours. `Seen` is what a select of
one transaction returns, `Conflict` is PostgreSQL's table of row locks: FOR
UPDATE for a write, FOR KEY SHARE on the review an audit row refers to. `Col` and
`MergeRow` are the session's net-change rule.

What is coarser than the code: the load of the user row and the guards of a
handler are one step; a flush is atomic (a deadlock inside one is `Crash`);
`counted` stands for `avg_rating` and `rating_breakdown`, both functions of
which reviews, with which ratings, went into the last recompute; only reviews
shown with a name are submitted; the responder of `LoadReply` is authorised
(`Claims` says who is); a score is not recomputed as reviews age, as in the
code. Left out: `_resolve_agent`, and, in a closure, bookmarks (photos are in
`Photos`, watches in `Alerts`).

### Publication

The abstract specification of the pipeline: reviews are `shown`, `approved` on
record, `counted` in scores, or being decided; a review appears only by the
approval of a moderator who is deciding it, approvals stay on record, and scores
are recounted over approved reviews only. `Reviews` implements it under the
mapping `PublicView` (`Shown`, `OnRecord`, `Counted`, `BeingApproved`, the last
being the approvals in flight); `ImplementsPublication` is that claim, checked
and proved. It is where the races end: whatever two sessions do to each other's
columns, the public sees steps of twenty lines of TLA+.

### OtpStore

State: the Redis keys of a number (`code`, `attempts`, `cooldown`, `quota`; a
counter is its value and what is left of its expiry), `req`, the command each
request is at, and two history variables, `guesses` and `sent`, which no action
reads. One action per Redis command:

* `Ask`, then `IncrQuota` (and `ExpireQuota` when INCR returned 1) for the hour,
  the day and the network, then the three commands of `save_otp` (`SetCode`,
  `ResetAttempts`, `StartCooldown`), then `Send`;
* `PresentRight`, then the two commands of `clear_otp` (`ClearCode`,
  `ClearAttempts`);
* `PresentWrong`, then `IncrAttempts` (and `ExpireAttempts`), and `clear_otp`
  when the count says so.

Expiry is an action per key. The window of a quota is a number of ticks, set by
its EXPIRE and run down by `QuotaAges` on a clock of the key's own until
`QuotaExpires`, so that a window re-armed on every INCR would show; a code, its
attempts and a cooldown may end at any moment. `Crash` ends a request before any
command in `DiesAt`. All numbers are on one network. One may ask any number of
times: past its limit a quota stops counting at `Slack` more (`CountOn`), since
only its comparison with the limit matters there. `confirm_phone_change` and `start_phone_change` use the
same commands. Left out: the in-process development store, and tokens, which are
stateless.

### Claims

State: `account`, `number` (`users`), `claim` (`agent_claims`), `claimed` and
`bound` (`agents`), the history variables `grants` (claimants an admin
approved) and `held` (numbers an account proved), and `req`, the request of each
worker: its selects, then one commit. Operations: first login, change of number,
closure, claim and resubmission, approve, reject; `MayReply` is the check of
`add_owner_response`. The two lookups of `confirm_phone_change` and the unique
constraints on numbers and on claims are in (`NumberFree`, `ConfirmError`,
`LoginError`, `ClaimError`). Coarser than the code: flush and commit are one
step; that the code was right is `OtpStore`'s part; the evidence columns of a
claim and the admin's own right of reply are left out.

### Profiles

The abstract specification of claims: accounts have `proved` numbers, claims wait
in a `queue`, are `declined` or make their account one of a profile's `speakers`,
and a profile has a `voice`, the number replies are sent from. Whoever asked may
be approved, and the voice becomes a number that account has proved (none if the
account has left; it stays if the session saw no change); a declined claim does
not come back to the queue, though an admin who overrules another may still
approve it. `Claims` implements it under `ProfilesView` (`held`, the pending
and the declined claims, `grants`, `bound`): `ImplementsProfiles`, checked and
proved. The commit of a login or a change of number is a `Prove`; selects, errors, crashes
and closures are stutters.

### Photos

State: `photo` (the status column, or no row), `objects` (what the media store
has under the photo's key), `audit` (the decisions that refer to it),
`active`, `identity` (`properties.photo_hash`) and `req`. A call to the store is
an action of its own and takes effect at once; the database changes with the
commit:

| operation | steps |
|---|---|
| upload | `Upload`, `PutFull`, `PutThumb`, `CommitUpload` |
| delete | `Delete`, `DeleteObjects`, `CommitDelete` |
| reject, approve | `Moderate`, (`DeleteObjects`,) `CommitDecision` |
| closure | `Close`, `LoadPhotos`, `DeleteObjects` per photo, `CommitClose` |

`CommitError` is the foreign key of `moderation_actions.photo_id`; `Crash` ends a
request anywhere, and the store keeps what was done to it. A photo id stands
for a row and its random storage key, used once. Coarser than the code: the
load of a handler's rows is one step with its authentication (but not for a
closure, which loads later); `LocalMediaStore` deletes two files where S3 takes
one call; flush and commit are one step. Assumed: a store that answers a
deletion has done it (`S3MediaStore.delete` does not read the keys an answer
may list as failed). Left out: the duplicate scan, which only words an answer,
image processing, and serving.

### Gallery

The abstract specification of photos, over a database and a store that share no
transaction: a `row` per photo, its `files`, and the photos `decided` on. A row
appears when all files are there; an erased file does not come back; a photo is
rejected or withdrawn only once its files are gone, and one with a decision on
record is never withdrawn. `Photos` implements it under `GalleryView` (`photo`,
`objects`, the photos with a decision in `audit`): `ImplementsGallery`, checked and proved, with
every crash between the two stores among the steps.

### Alerts

State: `active`, `watch` (`area_watches`: the kinds asked for, per user and
area), `sub` (`push_subscriptions` by id), `req`, and the history variable
`evidence`, what the push services have said of each row. `WatchArea` and
`CommitWatch` (or `WatchError`, `uq_watch_user_area`), `Unwatch`, `CloseAccount`;
`Subscribe` and `InsertSub` or `UpdateSub` (or `SubscribeError`), `Unsubscribe`
and `CommitUnsubscribe`. A notification is the tail of `moderate_review`, after
its commit: `Approve`, `SelectAudience` (one select), `SendAnswered` per
subscription ("ok", "gone" for 404 and 410, "error"), `CommitNotify`; or
`SendRaises` (any exception but `WebPushException`), or `CommitNotifyError` (a
counted row has gone: `StaleDataError`). Between two sends every other request
runs. Coarser than the code: sends of one notification come in any order; the
load of a request is one step with its authentication. Of `notify_area` only the
kind the code sends, "review", is modelled.

### Identity

State: `prop`, `sourced` (imported rows whose provenance is committed), `req`,
`imp` (the import), `lost` (history). `identify_or_create` is `Identify` (the
dedup circle), `QueryWider` (with a photo, the wider circle of buildings that
look the same), and, when nothing is near, `create_property`: `SelectSeq`,
`CommitCreate` or `CreateError` (the unique PropertyID). `import_properties` is
`StartImport`, `SkipBuilding` or `NumberBuilding`, `InsertBuilding`,
`FinishImport`, and `ImportDies` anywhere; `create_property` commits the building
and, with it, the provenance of the one *before*. Positions are points of a line,
`CellSize` of them to a geohash cell; likeness of photos and normalisation of
addresses are parameters: no theorem assumes anything of them.

### Upstream

Three subsystems that share no state, so that a behaviour has one of them
(`serves`), and the processes they run in. `phase`, `used`, `rest`, `queue` are
the limiter (shared slot and per-process interval), `file` the cache directory,
`route` the shared drive times, `town`, `height`, `heights`, `imp` the elevation
import, `age` and `died` history.

* Lookup: `Ask`, `PassLocal` (the process's own interval, behind a lock),
  `ClaimSlot`, `RetrySlot` or `GiveUpOnSlot` (INCR of the slot's counter, five
  seconds of patience), `StoreDown`, `FetchFails`, `BeginSave`, `EndSave` (the
  file is truncated, then filled).
* Drive: `AskDrive`, `DriveAnswered`, `DriveFails`, `RouteExpires`.
* Heights: `Register` (a row appears), `SelectProperties`, `FetchHeights`,
  `CommitHeights`, `HeightsLost`.
* `Restart` loses a process's memory and may change its provider; `Tick` is time.

A value of `route` stands for the kind of provider that measured it, a height
for the point it was measured at, which is all the properties tell apart. The
counter of a slot is capped at 3: only "the first" matters.

### Backups

State: the database (`live`: its version and how much of it there is), `appUp`,
`newest`, the directory `files` (oldest first, with what killed jobs left in it),
`safety`, `replaced` (history), `job`, `restore`. The job is `Start`, `Vacuum`,
`Compress`, `UnlinkRaw` (SQLite) or `PgDumpContents`, `PgDump`, then
`VerifyPasses` or `VerifyFails`, `PruneOne` until `Pruned`, `Heartbeat`; `Crash`
is an exception that alerts, `PgDumpFails` the one that does not, `KillJob` the
power cord, and `CannotStart` a job that ends before its first file (no database,
no `pg_dump`, no directory). A file is begun, has its table of contents, or is
closed. `verify` reads a gzip to its end but of a dump only the contents, so a
dump cut after them passes it (`Verifies`); the properties speak of files that
also lack nothing (`Complete`), and a restore from a cut one gives back a part.
The restore is `StartRestore`, `CopySafety` (SQLite), `Overwrite` or `ArchiveGone`,
`WritePart`, `WriteAll`, and `KillRestore`. `StopOrStartApp` is the runbook's
part: the code does not enforce that the app is down, the model's operator stops
it before a restore and may start it in the middle of none.

### Rules and Listings

Pure computations. A state of `Rules` is one question, and in a search its
answer; an instance enumerates the questions. `Rules`: the aggregation of
reviews (fractions instead of rounding), the alerts feed and its unread counts,
the address variants and the widening search with its anchor, the commute page.
`Listings`: the stops near a property (`ByDistance`, `SameStop`, `Deduped`; an
unnamed stop bears the name of its kind, `Unnamed`), area
codes and the import of areas, agent slugs and the import of agents. Names and
addresses are sequences of words or letters that differ where the code tells
them apart; sorting, medians, folds are written out.

## 3. Runs

| Run | Instance | Shows |
|---|---|---|
| `reviews_serial` | 1 worker, 2 reviews, 2 contents (one risky), replies of words and of blanks, velocity limit 1; no rejection, no closure | aggregates, count, flags, reply lock and pre-checks are exact when requests do not overlap |
| `reviews_races` | 2 workers, 1 review, all operations | what survives interleaving, that every request ends, and that what the public sees is `Publication` |
| `reviews_edit_race` | 2 workers; submit, edit, approve | **violated** `EditReturnsToModeration` (section 5) |
| `otp` | 2 requests, 1 number; limits 1 per hour, 1 per day, network factor 1, 2 attempts; windows of 1 tick for an hour, 2 for a day; requests may die between two quotas and half-way through `clear_otp` | guesses and messages bounded, every counter will expire, every quota comes back to one who never stops asking |
| `claims` | 2 workers (1 may decide), 2 accounts, 2 numbers, 1 agent, all operations | one grant, bound to a proved number; whatever is in flight, profiles change as `Profiles` says |
| `photos` | 2 workers, 2 photos of one tenant, an admin, all operations, a crash anywhere | nothing rejected or withdrawn keeps bytes; whatever breaks off, photos change as `Gallery` says |
| `alerts` | 2 workers, 2 endpoints, 2 row ids, an author and a watcher, `MAX_FAILURES` 2 | dead subscriptions go, and only for cause |
| `identity` | 2 registrations beside an import that may start twice and die; a street of four points, three to a cell, five kinds of submission, two mapped buildings, two numbers to a bucket | dense numbers, duplicates only by overlap, names once, provenance accounted for |
| `upstream` | 2 processes, 3 callers, one term, an interval of 2 ticks, patience of 3; a town of up to 4 with 2 points in a key | pace, progress, whole files, honest labels, own heights |
| `upstream_heights` | the same | **violated** `NewBuildingsBanded` (section 5) |
| `backups` | both engines, 3 jobs, retention 2, 2 versions | honest heartbeat, retention and restore that lose nothing they should keep |
| `rules` | every pair of reviews over six dates around the bands, every page of four posts, six addresses with every answer of a geocoder, up to four commute reports, three mapped elements, three rows of an import | the answers say what the data says |

The properties, by what would break them:

* `PublicationAudited`, `AuditedRowsSurvive`, `ScoreCountsOnlyModerated`: a
  publication, a deletion or a recompute on a row another request has changed
  meanwhile. They hold although the aggregates themselves may go stale, and
  although an edit can slip under an approval: what protects them are the row
  locks and the net-change rule, and `RequestsConsistent` says how.
  `ImplementsPublication` says the same of whole steps.
* `RequestsEnd`: no set of requests waits for itself for ever.
* `ScoresExact`, `CountExact`, `RiskyIsFlagged`, `ReplyKeepsItsWords`,
  `UnflaggedIsUnsuspicious`: exactness between requests. `ScoresExact` and
  `CountExact` are false with two workers (a recompute or a count from a stale
  session); the code accepts that. The run checks one request at a time; the
  theorems of section 4 say how far apart several must be.
* `GuessesBounded`: `otp_max_attempts` per code for one process, that many per
  request in flight otherwise; the bound is reached.
* `SmsWithinQuota`: the limit, plus the requests in flight when the previous key
  expired; the bound is reached.
* `CountersWillExpire`: INCR and EXPIRE are two commands and others delete and
  recreate the key in between, still somebody is always about to set the expiry.
* `ThrottleLifts`: a used-up quota comes back although one may ask, be refused
  and be counted again for ever: no later INCR re-arms the window. The mutant sets
  the expiry on every INCR, and the quota of a day never comes back; two ticks are
  what it takes to tell the two apart, a window of one tick ends in any case.
  `WindowsNeverSlide` (section 4) says it of every step and every quota.
* `GrantedOnce`, `BindingWasProved`, `ImplementsProfiles`: claims, closures,
  changes of number and one decision in flight together. The refinement has what
  a "no" means: a resubmission that passed its check before the decision must not
  put a declined claim back into the queue.
* `WithdrawnLeavesNothing`: an upload, a rejection, a deletion and a closure in
  flight together, each dying between the two stores. It rests on the order of
  the code: bytes before the row when they come, bytes before the row when they
  go, and a key that is never used again. `ImplementsGallery`: the same of
  every step, and of a deletion and a decision that pass each other between
  select and commit (a decision must not lose its photo).
* `NoDeadRowStays`, `DroppedForCause`: two notifications and a re-subscription
  that count one row's failures from stale copies, and act on them at the end.
* `BucketsDense`: registrations and the import that compute one number, commits
  that are refused, runs that die. `DuplicatesOnlyByRace`: two records for one
  spot are possible, but never by someone who could have seen the first.
  `ImportedOnce`, `UnsourcedBounded`: crashes between `create_property`'s commit
  and the next; the provenance lost is one row per crash, and no later run goes
  back for it.
* `WithinPolicy`: slots are aligned to the clock and shared, the last call of one
  and the first of the next may be neighbours, three in a row may not; calls that
  gave up waiting, or found the store down, are outside it, as in the code.
  `LookupsEnd`: nobody waits for a slot for ever, however many compete.
* `TornByCrashOnly`, `LabelsHonest`, `MeasuredIsOwn`: writes in place, a provider
  changed under a shared cache, an answer cached under a shortened key.
* `HonestHeartbeat`, `PrunedForNewer`, `ReplacedIsKept`: jobs killed at any step,
  their leftovers counted by retention, a restore under a running dump, a second
  restore over a half-done one.
* `ScoreFair`, `FeedHonest`, `LookupHonest`, `CommuteHonest`, `StopsHonest`,
  `ImportsRepeatable`: reference statements about what a figure, a badge, a pin, a
  typical time, a list of stops and a second import mean, against the code's
  sorts, shares, fallbacks and merges. `StopsHonest` speaks of names, kinds and
  places, not of the code's merge: a named stop gives way only to its own name or
  to a named stop on top of it. It claims nothing of a named stop on top of an
  unnamed one that is no farther; the comment does, and that is `UnnamedGiveWay` (section 5).

### Bounds

The races above are between two requests (a guard and a commit); a second review
matters only to the aggregates, the velocity count and the duplicate scan, and
`reviews_serial` has it. A second number changes only which keys a request
touches. Two attempts and limits of one put every counter below, at and past its
limit, and with `Slack` = 1 a quota counts to one past its limit and stays there.
Two accounts and two numbers give a number a second holder. Two subscriptions
and `MAX_FAILURES` 2 give a row a first and a last failure, beside one that
succeeds. In `identity` three rows and two numbers fill a bucket, and a second
import run meets what the first left. In `upstream` an interval of two ticks has
a first and a last moment, three callers are a winner, a waiter and one in the
other process, and a town of four with keys of two points has towns with the same
key and different lengths. In `backups` the third job is the first to find a full
directory, and one write after the first version tells an archive from what it no
longer holds; retention may be met by broken files, raw copies and good ones in
any order. `rules` has dates on both sides of every boundary, pages below, at and
above every share, and names that collide in what is cut off.

`MaxSeq`, `MaxRuns` (`Identity`), `Slack` (`OtpStore`), `MaxTown` (`Upstream`),
`MaxJobs`, `MaxVersion` (`Backups`) are bounds of the instance; only `MaxSeq`
(9999) is also one of the code. TLC explores every instance to the end; the
largest, `backups`, has some six hundred thousand distinct states.
Workers and row ids are interchangeable in `alerts` and `identity`, which check
safety only, and are declared symmetric there. `CHECK_DEADLOCK FALSE` appears
where ids of the instance are used up or nobody may ask for anything any more;
`RequestsEnd`, `ThrottleLifts` and `LookupsEnd` are what says that requests do
not get stuck.

### Fairness

* `Reviews`: strong fairness of `Proceed(w)` per worker. A request whose locks
  are free again and again must get them once, since PostgreSQL queues waiters
  in order. No fairness on `Receive`, `Crash` or `GrowOlder`.
* `OtpStore`: weak fairness of `Proceed(w)` per request, since a command never
  waits, and of `QuotaAges(k) \/ QuotaExpires(k)` per key, since for Redis time
  passes. That a key whose window is put off again and again expires is not
  assumed. None on asking, presenting, crashing.
* `Upstream`: weak fairness of `Tick` and of `Step(c)` per caller: the event loop
  runs what is ready, timers fire. The lock of the limiter is first come, first
  served, which is in the model (`queue`), not in the fairness. None on asking,
  restarting, the store's absence or a cache entry's expiry.
* The other modules state safety only.

## 4. Proofs

Eight modules, checked by TLAPS from the named assumptions on constants only, for
any number of workers, users, reviews, numbers, agents, photos, subscriptions,
buildings, processes and jobs. In each, an inductive invariant is shown to hold
initially and to be kept by every action; the theorems follow.

* **Reviews.** `TypeCorrect`; `ModerationPrecedesPublication`,
  `DecisionsKeepTheirReview`, `ScoreIsModerated`, `RequestsStayConsistent`. The
  three safety invariants are not inductive: an approval is recorded only when
  it commits, a deletion checks the audit trail when it flushes, a score is
  written after it is computed. The inductive invariant `Inv` adds
  `RequestsConsistent`: a request between load and commit writes a status its
  operation may write, and "approved" only if it is the approval or the row was
  approved when loaded; from flush to commit its locks keep its row from being
  deleted (a decision) or decided on (a deletion); the aggregates it computed
  count moderated reviews, plus the one it approves; two requests that hold
  locks never conflict. One lemma per group of actions (`InvReceive`,
  `InvLoads`, `InvFlush`, `InvScore`, `InvCommits`, `InvGrowOlder`).
  `PublicationImplemented` then proves the refinement: `ViewInit`, `ViewUnseen`
  (every step but a commit leaves the page alone) and `ViewCommits` (a commit is
  an `Approve`, when it is an approval in flight, or a `Hide`; `Inv` supplies
  that what it shows was shown or is being approved).
  The exactness properties, which interleavings break, are theorems about any
  number of requests in flight that stay out of each other's way, all operations,
  errors and crashes included. Three hypotheses say what they must not share: the
  review (`RowsApart`; a closure holds all its author's), the property of the
  reviews they hold (`HomesApart`), the tenant who sends them (`CallersApart`).

  | theorem | properties | apart in |
  |---|---|---|
  | `RiskWaitsFlagged`, `RepliesKeepWords`, `EditsReturnToModeration` | `RiskyIsFlagged`, `ReplyKeepsItsWords`, `EditReturnsToModeration` | rows |
  | `FlushesSucceed` | `OnlyDeletionsFail` | rows |
  | `CountMatchesReviews` | `CountExact` | rows and callers |
  | `ScoresMatchReviews` (no "withdraw" in `Ops`, which recomputes nothing) | `ScoresExact` | homes, hence rows |
  | `UnflaggedIsVetted` | `UnflaggedIsUnsuspicious` | homes and callers |

  One request at a time satisfies all three (`AloneIsApart`); that is the instance
  `reviews_serial` checks. Without them TLC finds each of the seven false with two
  workers: `EditReturnsToModeration` is the very property `reviews_edit_race`
  refutes when two requests hold one review, and `OnlyDeletionsFail` (what a
  request holds is still there when it writes) fails when one of them deletes it.
  `RowInv` is the base: a request that has its rows to itself finds them as it
  loaded them but for their age (`Synced`), intends what fits its operation
  (`IntentsOK`, `SubmitsFresh`), and rows that are not there carry nothing
  (`NoGhosts`). `CountInv`, `ScoreInv` and `VetInv` rest on it and not on one
  another: a count is the number of rows and what a request holds of it is what is
  stored (`CountAsStored`); an aggregate is that of the approved reviews
  (`ScoresOK`), and what a request computed between flush and commit is what will
  be true after the commit (`ScoresAhead`); a submission in flight still passes its
  pre-checks (`Vetted`). The steps between commits move one request and leave the
  rows (`MoveKeeps` and the `Move...` lemmas); for a commit there is one lemma for
  what it establishes (`RowCommit`, `CountCommit`, `ScoreCommit`, `VetCommit`) and
  one for what it spares in every request apart from it (`CommitSpares...`).
* **OtpStore.** `TypeCorrect`; `CountersExpire`: when no request dies between an
  INCR and its EXPIRE (`DiesAt` names the commands before which one may), a
  counter without an expiry has a request about to set it. The proof follows one
  key: INCR from zero makes its own request the one, INCR from more finds the
  expiry set or another request about to (`QuotaAfterIncr`), EXPIRE sets it
  (`QuotaAfterExpire`), and every other step keeps the witness or deletes the
  key (`QuotaKept`). The hypothesis is needed (section 5). `WindowsNeverSlide`:
  the request about to set an expiry is the only one for its key, and the key has
  none (`PendingExpiry`), so that no EXPIRE meets a window that is running.
  `SmsBounded`: a request is *charged* from the INCR of the metered key to its
  message; messages sent plus requests charged never exceed what the key has
  admitted plus the number of requests that can be in flight (`SentOrCharged`),
  since a key that expires can forgive only those. `GuessesWithinAttempts`: a
  code's guesses are accounted for by the attempts counted, the requests that are
  about to clear it, and one full round for each request that may still reset the
  count (`Allowed`); it assumes that no request dies between comparing a code and
  having counted or cleared it, nor between a new code and its reset
  (`DiesAt \cap Uncounted = {}`), without which a guess is not counted by anyone.
* **Claims.** `TypeCorrect`; `BindingsAreProved`, `DeclinedAreFinal`. `Inv` adds
  that an account's number is one it proved, that a claim reads "approved" only if
  it was granted, and the same of what each request has loaded; a resubmission
  past its select never holds a declined claim, and a decision's claim is still
  there. `ProfilesImplemented` is the refinement, for any number of deciders: only
  the commits of logins, confirmations, claims and decisions are seen (`ViewProve`,
  `ViewSubmit`, `ViewDecide`; `ViewWrite` is one write to a claim as the abstract
  specification sees it, `ViewUnseen` every other step).
  Three theorems about how far decisions in flight must be apart: `OneGrant`, when
  approvals in flight are for different profiles (`ApprovalsApart`; `GrantInv`
  adds that an approval in flight finds its agent free), `DecisionsStand`
  (`DecisionIsFinal`), when no two requests in flight are about one claim
  (`ClaimsApart`; `FinalInv` adds that what a request works on is still open),
  and `RepliesFollowNumbers` (`RepliesAreGranted`), as long as no number is
  proved by a second account (`NumbersNotReused`). Each names the one way the
  property fails; section 5 has the failures.
* **Photos.** `TypeCorrect`; `WithdrawnIsGone`, `DecisionsKeepPhotos`. `Inv` adds
  `RequestOK` for every request: an upload works on a key without a row and has
  put what it says it has (`Stored`), every other request on photos that have or
  had one, and what it has deleted from the store stays deleted; and
  `UploadsApart`, no two uploads share a key. With it a put disturbs nobody
  (`InvPut`), and a commit that withdraws or rejects finds the bytes already gone
  (`InvCommitWithdrawal`, `InvCommitDecision`). `GalleryImplemented` is the
  refinement: a put is a `Store`, a deletion from the store an `Erase`, each commit
  a `Post`, `Withdraw` or `Decide` (`ViewStore` to `ViewDecide`), and `Inv`
  supplies what these ask for.
* **Alerts.** `TypeCorrect`; `DeadRowsGo`, `DropsHaveCause`. A stored count is
  below the limit because every writer puts a row that reached it among its dead
  in the same step; and a failure counted by anyone, from however stale a copy,
  was an answer of the push service, so no count exceeds the evidence, in the
  table or in any request. `DecisionsAreAnswered` (`DecisionAnswered`): a
  notification's commit goes through as long as no other request in flight is
  about to remove a row it counts or has yet to send to (`RemovalsApart`); rows
  leave by such removals only (`RemovedByOne`), so those it awaits are there
  (`Answerable`).
* **Identity.** `NumbersAreDense` (`SeqInv`: a bucket's numbers are an initial
  segment, and the number a request holds is at most as many as the bucket has:
  it is the next one or taken, and taken is refused); `OnlyRacesDuplicate`
  (`LookedInv`: rows never move or go, so what a request saw stays, and stays
  apart from where it registers); `NoNameTwice` (`ImpInv`: a running import knows
  every imported row, as only it makes them); `SourcesAreOwed` (`OwedInv`:
  an equation between unsourced rows, crashes and the one row in hand).
* **Upstream.** `PaceIsKept` (`PaceInv`: while a slot has no winner, the last one
  came before it and the one before that more than an interval ago; once it has
  one, the winner before that came before the slot); `OnlyCrashesTear`
  (`FilesInv`: who saves, saves an answer, so a file is torn only between a
  caller's two steps); `LabelsAreHonest`, inductive as it stands, since a
  caller carries the kind it asked with into the key; `HeightsAreMeasured`
  (`HeightsInv`: a request, and so every cached answer, is for the first so many
  ids in order, so an answer of the right length is for the right points);
  `SmallTownsAreBanded` (`NewBuildingsBanded`, which `upstream_heights` refutes): as
  long as the whole town fits in a key (`TownFitsKey`), a key is the points it is
  for, and every answer in the cache is for its key (`BandInv`).
* **Backups.** `VictimsAreKept`: while a restore runs the app is stopped, so a
  whole database it is about to overwrite is still the one it copied aside
  (`RestoreKeeps`). `HeartbeatsAreHonest` and `PruningLeavesNewer` share
  `JobInv`: at each stage the newest file of the directory is the job's own and
  is what the stage says of it (`DumpingOK`, `CompressingOK`, `ArchivedOK`,
  `VerifiedOK`: from an open copy of the database the job set out with to a closed
  archive that verifies), and the directory is in the order of its jobs, the
  uncompressed copy before its archive (`Ordered`), whatever was killed. Lemmas
  say what removing, writing and appending a file do to a directory
  (`RemoveOne`, `WriteLast`, `NewestSurplus`, `RemoveOrder`, `AppendOrder`).

The hypotheses of the theorems are those named above: `RowsApart`, `HomesApart`,
`CallersApart`, `ApprovalsApart`, `ClaimsApart`, `RemovalsApart`, `NumbersNotReused`,
`TownFitsKey`, what `DiesAt` excludes, "withdraw" outside `Ops`. The first six hold
when requests come one at a time, whatever they are; numbers are not reused while
nobody takes over another's; an instance whose `MaxTown` is at most `KeyPoints` is
a town that fits. The assumptions on constants
(`ConstantsOK`, `BackupsAssumption`, ...) give limits and tables their type, keep
"none" values apart from values, and make finite what is counted.

`DeclinedStaysDeclined` and `DecidedPhotosStay` are proved directly and follow from
the refinements `claims` and `photos` check; `RequestsConsistent`, and under the
hypotheses above `OnlyDeletionsFail`, `DecisionIsFinal`, `RepliesAreGranted` and
`DecisionAnswered`, are proved and in no run.

Only model-checked: liveness (`RequestsEnd`, `ThrottleLifts`, `LookupsEnd`: TLAPS
does not do fairness), and the properties of `Rules` and `Listings`, whose sorts,
selections and folds are recursion over data, of which the provers know nothing.

## 5. Where code and text part

Two disagreements have a run that shows them.

* **An edit under an approval** (`reviews_edit_race`). "An edit returns the review
  to moderation" (`api/v1/reviews.py:235`). An edit that loaded a pending review
  assigns "pending" to it, which is no net change; when an approval commits
  before the edit does, the new text is public and nobody has read it.
* **A second elevation import** (`upstream_heights`). "Newly imported buildings get
  their flood band in the same run" (`import_reference_data.py:538`). The answer
  for all properties is cached under its first 80 characters, about five points
  in id order; over a grown town the import reads the old answer, finds that
  the lengths differ, and updates nothing. `MeasuredIsOwn` says what the length
  check does save.

The following were met while modelling. Those with a property can be
reproduced by checking it on the instance named; it is false there. No run is
kept for them.

| What happens | Lines | Property and instance |
|---|---|---|
| Deleting a decided review breaks the foreign key of its decision, though the review is offered for withdrawal | `services/reviews.py:277`, `api/v1/reviews.py:258` | `Reviews!DeletionNeverErrors`; 1 worker; submit, delete, approve |
| A closure leaves its withdrawn reviews in the aggregates | `api/v1/users.py:178`, `services/reviews.py:163` | `Reviews!ScoresExact`; 1 worker with "withdraw" (`ScoresMatchReviews`: never without it, when requests are on different properties) |
| A request that dies between INCR and EXPIRE leaves a number refused for ever | `services/otp_store.py:75`, `:142` | `OtpStore!ThrottleLifts`; 1 request, "expire" in `DiesAt` |
| Two decisions on one claim both find it pending; the later commit overrules ("claim already decided", `tests/test_api_agent_claim.py:185`) | `api/v1/admin.py:385` | `Claims!DecisionIsFinal`; two deciders (`DecisionsStand`: only with two requests on one claim) |
| The right of reply follows a number: its next holder may reply for the agent | `api/v1/responses.py:85` | `Claims!RepliesAreGranted`; 1 worker (`RepliesFollowNumbers`: only with a number handed on) |
| A closure deletes the bytes of a decided photo, then breaks the foreign key of its decision: the account stays open, the photo is public without bytes | `api/v1/users.py:188`, `:195` | `Photos!ClosuresCommit`; 1 worker, 1 photo; upload, approve, close |
| An unsubscription during the sends makes a notification's commit fail, and with it the moderator's request ("a push that fails must never fail the request", `services/push.py:17`) | `services/push.py:144` | `Alerts!DecisionAnswered`; 2 workers (`DecisionsAreAnswered`: only with a removal in flight) |
| A named stop on top of a nearer unnamed one of its kind is dropped: stops are merged in order of distance, named or not, and the nearer is kept ("drop unnamed stops that sit on top of a named one", `services/opendata.py:303`) | `services/opendata.py:313` | `Rules!UnnamedGiveWay`; the instance of `rules` |

Others are visible in the models as actions, or were left out of a property's
statement for what they are:

* *Push.* An exception other than `WebPushException` ends a notification for
  everybody after it and stores no counts (`SendRaises`). An unsubscription
  selects the caller's row and deletes it by id, also when it has moved to
  another user meanwhile. A row declared dead is deleted although the browser
  has subscribed again since. A watch, or a review, in flight while its
  account closes is committed to the closed account. A change of number after a
  closure is not refused (`users.py:322`).
* *Feed.* A review written before the tenant last looked and approved after is
  never unread (`alerts.py:254`). With reviews and floods filling their shares,
  agent flags do not fit; a page of less than six holds reviews only.
* *Replies and rents.* A reply called "flagged" is published at once
  (`responses.py:103`); of two replies in flight the second overwrites the first;
  `latest_rent_kobo` is never cleared (`services/reviews.py:205`).
* *Identity.* The refusal of an ambiguous pin says one may add a new building;
  the API offers no way to insist. An exact pin may be attached to a record whose
  own position is the centre of an area. A cell is six characters of geohash,
  about 1.2 km, where `property_id.py` speaks of eight.
* *Import.* Provenance lost to a crash is never recovered (`UnsourcedBounded`).
  Two suburbs of one name in one answer become two areas.
* *Lookups.* "A given query is only ever run once" (`opendata.py:188`) is not so
  for two at once; an empty answer is cached for ever; a torn file makes every
  later lookup of its term fail (`TornByCrashOnly` says whence it can come). A
  query that names only an area is labelled "exact".
* *Stops.* Unnamed stops of a kind share a name, so only the nearest is kept; a
  station that shares its name with a nearer bus stop is dropped.
* *Routing.* `"none" is cached too, so a provider outage...` (`routing.py:197`): a
  provider that answers with no route is cached, one that fails is not. The
  docstring's `(None, None)` is `(None, kind)`.
* *Backups.* A `pg_dump` that fails alerts nobody, the missing heartbeat tells.
  Broken and partial files count among the newest kept. "A partial pg_dump loses
  its marker" (`backup.py:125`): it does not, the marker is written first, and a
  dump cut after its table of contents passes `verify`. No job reports such a file
  as good (`Complete` in `HonestHeartbeat`), but an operator can restore it. On Postgres `--force`
  takes no safety copy, though `restore.py`'s docstring promises one; no row
  check decides its success, although a comment (`restore.py:71`) says so; and a
  database half restored dumps and verifies (`HonestHeartbeat` excepts it).

## 6. Not modelled

* **Fees, bookmarks, neighbourhood pages, and the agents and property pages**:
  reads, or one insert or delete of a row only its owner touches. (Two saves of
  one bookmark in flight meet its unique constraint, and one ends in an error.)
* **Observability and SMS**: counters of one process and calls to a gateway; no
  part depends on them. What matters of SMS, how many are sent, is in `OtpStore`.
* **Wiring, schemas, migrations, seed**: declarations and data. The unique and
  foreign keys of the migrations are guards of the models (`CommitError`,
  `CreateError`, `SubscribeError`, ...); the mapped lines of `db/models.py` give
  the columns.
* **Documents of others**: parsing of Overpass, Nominatim, NBS and Overture
  answers, OSRM and Google protocols, image decoding and hashing, geohash
  arithmetic. They are parameters (`SamePhoto`, `Normalise`, `CellSize`) or sets
  of answers.
* **Flood bands, the rent index and LGA centroids**: each overwrites rows by key
  from a table of constants; there is no second actor and no order to get wrong.
* **Tokens**: signed and stateless; **the in-process development store** of codes.
* **`_resolve_agent` and the anonymous flag** of a submission: a select and an
  insert that no other handler waits for, and a column only the page reads.
* **`add_commute_report` and `mark_read`**: an insert of an independent row, an
  assignment to the caller's own.
* **Restore drills (`--into`) and `--verify-only`** write nothing another part
  reads. A restore with the app running, which the runbook forbids and the script
  does not prevent, is outside `Backups`.

Open ends for whoever continues: isolation levels above READ COMMITTED, under which
`reviews_edit_race` and the stale aggregates should disappear.
