# Verification of lbs_server

TLA+ models of the location server, TLC runs on small instances of them, and
theorems about them checked by TLAPS.  Paths are relative to the repository.

## 1. Inventory

The server answers `/locate` (where is a device that sees these cells, wifi
nodes and addresses?) and `/update` (a device reports what it sees and where it
is), and has an admin panel.  Three PostgreSQL databases stand behind it:
LocateDB (what is known, with sessions, settings and API keys), UpdateDB (what
was reported) and ExternalDB (a read-only dump of cells).

| component | state | operations | hard part |
|---|---|---|---|
| refresh pipeline: `service/refresh.go`, `repository/postgres/update.go`, `locate.go` | UpdateDB and LocateDB tables; offset and page of each running `Refresh` | `InsertCell/Wifi/IP`, `Fetch*ForRefresh`, `Upsert*`, `Refresh`, `StartAutoRefresh` | OFFSET paging over growing tables, refreshes that overlap, errors half-way |
| API keys: `service/apikey.go`, `middleware/auth.go` | `api_keys` table, 30 s read-through cache under a mutex | `Validate`, `Generate`, `Revoke` | table access outside the mutex, stale and negative entries, restarts |
| rate limiter: `ratelimit/ratelimit.go`, `middleware/ratelimit.go`, `body.go` | map of last requests, ticker | `Allow`, `cleanup`, `Stop` | entries forgotten by age, settings that change under a request |
| locate requests: `service/locate.go`, `handler/locate.go`, `session.go`, `async.go` | none of its own; sessions and points in LocateDB, background inserts in a WaitGroup | `FindLocation`, `InsertCell` in the background | a chain of queries over a database that changes, best-effort writes, shutdown |
| server lifecycle: `cmd/server/main.go` | signal context, `http.Server`, WaitGroup | start, `Shutdown`, `Wait`, `Stop` | the order of the shutdown, its timeout |
| settings: `service/admin.go`, `repository/postgres/settings.go` | settings in memory and in the one row of `server_settings` | `GetSettings`, `UpdateSettings`, `NewAdminService` | memory and row written one after the other, restarts between the two |
| admin sessions: `service/admin.go`, `middleware/admin_auth.go` | map from tokens to expiry times | `Login`, `ValidateSession`, `Logout`, cleanup | entries that outlive their session, a cleanup with an old clock |
| ingest: `service/update.go` | none; rows of UpdateDB, session point | `Validate`, `Process` | no transaction, the first failure ends the request |
| session administration: `service/session_admin.go` | sessions and points | list, `UpdatePoint`, `RefreshFromSession` | points read once and written one by one, conversion of identifiers |
| geometry, configuration, pools | none | pure or once at start | — |

How they interact: requests to `/locate` and `/update` pass `ParseBodyUUID`,
then `RateLimit`, then `RequireAPIKey`, then their handler
(`api/server.go:39-54`); the middlewares read the settings anew for each
request.  Handlers run concurrently, one goroutine each, and share the key cache
(mutex), the limiter's map (mutex), the settings (RWMutex) and the databases
(nothing but the unique indexes).  `Refresh` is called by the auto-refresh
goroutine, by `POST /refresh` and by the admin page.  `/locate` feeds UpdateDB
with the cells it finds in ExternalDB, and a later refresh brings them to
LocateDB.

What makes each correct:

* pipeline — a successful `Refresh` has attempted every row it started with and
  leaves no key older than it was, overlapping refreshes put right what they
  confuse; nothing but committed reports is shown; nothing but new commits keeps
  a `Refresh` going, and LocateDB catches up;
* API keys — a revoked key is accepted for a bounded time only, an active one is
  never refused, and a revocation is final;
* limiter — sweeping the map changes no answer, and the map stays small;
* locate — the order cell, wifi, ip holds whatever changes meanwhile; a metro
  cell settles the search; an answer is recorded; every request ends;
* lifecycle — what was found is stored when the process ends regularly;
* auto-refresh — a new period takes over, refreshes come in no burst, and a
  period that ends the process ends it once;
* settings — a restart keeps what was in force; admin sessions — every answer is
  that of a map without stale entries;
* ingest and session administration — an accepted report is stored, and a
  correction shows where it was written.

`PROJECT.json` lists the hazards line by line, with the properties that look for
each; those without a property carry a note and feed the plan below.

## 2. Modules

| module | what it is |
|---|---|
| `SnapshotCopy` | abstract: copying committed rows, with success only when the snapshot was attempted |
| `RefreshPipeline` | UpdateDB, LocateDB and any number of `Refresh` calls; implements `SnapshotCopy` |
| `KeyAuthority` | abstract: what may be answered about a key, without cache or clock |
| `APIKeyCache` | `APIKeyService`, its table, requests, administrators, time, restarts; implements `KeyAuthority` |
| `MinimumPeriod` | abstract: a limiter that remembers every caller for ever |
| `RateLimiter` | middleware, `Allow`, settings, ticker and sweeper; implements `MinimumPeriod` |
| `LocateRequests` | `/locate` from arrival to answer, background saves, shutdown |
| `AdminSettings` | the settings in memory and in their row, concurrent updates, restarts |
| `AutoRefresh` | extends `AdminSettings` with the goroutine of `StartAutoRefresh`, its two tickers, the death and the restart of the process |
| `SessionAuthority` | abstract: how long a token is good |
| `AdminSessions` | logins, questions, logouts and the cleanup; implements `SessionAuthority` |
| `SessionRefresh` | `/update` query by query, the points of `/locate`, corrections and `RefreshFromSession`, beside the copy of UpdateDB |
| `MC*` | instances for TLC |
| `*Proofs` | theorems and proofs about the module they extend |

Operators that a comment calls a *mutation variant* stand next to the operator
they would replace.  No specification uses them; putting one in shows that the
properties are sensitive to that fault.

### RefreshPipeline

A row is its SERIAL id.  `keyOf`, `pending` and `visible` are an UpdateDB table:
`BeginInsert` takes an id, `CommitInsert` makes the row visible — possibly after
a larger id — and `AbortInsert` wastes the id.  `cells` has a unique index, wifi
and ip have none (`migrations/updatedb/000001`), hence `Insertable`.
`locate[t][k]` is the id of the report whose coordinates LocateDB shows for `k`.
A `Refresh` is `StartRefresh`, then `FetchPage` or `FetchFails`, one
`UpsertRow`/`UpsertFails` per row, `NextPage`, `NextTable` and `Finish`: the three
loops of `refresh.go` are one loop here with the table as parameter, because they
differ in nothing else.  `ProcessDies` ends every running refresh where it is:
main does not wait for the auto-refresh goroutine.  A statement that is under way
at that moment lands before the death or not at all; one that PostgreSQL finishes
after it lands before the next process, which systemd starts five seconds
later, begins a refresh, so this is the same.  `atStart`, `tried`, `missed`, `alone` and
`floor` are history; `floor` holds the rows that were there when the first of the
refreshes that run now began, less those that a failure excuses.

### APIKeyCache

`getWithCache` is split where it leaves the mutex: `Hit` or `Miss`, `Fetch` or
`FetchFails`, `Store`.  `Revoke` is `RevokeInvalidate` and then
`RevokeDeactivate` or `RevokeFails`.  Instead of absolute times an entry keeps
the ticks it has left; `Tick` takes one off every entry, so runs are of unbounded
length.  `Restart` loses the cache and every request.  `quiet[k]` counts the
ticks since `k` is revoked and no request holds a copy from before.

### RateLimiter

`Arrive` is the middleware up to the reading of the period; `AllowFree`, `Refuse`
and `Admit` are `Allow`, atomic under its mutex; `ChangeSettings` may fall
between.  `Tick` is the clock and the `time.Ticker` with its one-place channel;
`BeginSweep` computes the cutoff and `Sweep` gets the mutex, any time later.
Time stops at `MaxTime`.  `Settings` are the periods an
administrator may choose between, in milliseconds.  `Duration` is
`time.Duration(minPeriodMs) * time.Millisecond`, which wraps around: a huge period
may become negative and let everybody pass, a very negative one positive.
`Kept` are the periods that fit `time.Duration` and are at most `EntryTTL`;
`MinimumPeriod` answers requests with other periods as it likes, so that the
refinement says what such requests may not do: change the answers of the others.
An identifier is the endpoint prefix, the kind and the
party; who the caller *ought* to be (`CallerOf`) is taken from the comment on
`RateLimit` and used only by the history variable and the properties.

### LocateRequests

`pc[p]` is the query request `p` makes next; `at[p]` its place in the list.
LocateDB is the set of items it has, growing by `Learn`; a location is the item
it was found for.  `FindExternal` starts the background save that `SaveCell`
ends.  `phase` is main: up, draining (in `Shutdown`), waiting (in `wg.Wait`),
stopped, or killed by the five-second timeout.  Queries fail at any time.
`Batches` are the combinations of requests that may arrive.

### AdminSettings and AutoRefresh

`Assign` is what `UpdateSettings` does under the mutex, `SaveLands` and
`SaveFails` are the statement after it.  A save that a dead process left behind
may still land while the next one runs.  `LoadSettings` is `NewAdminService`,
which takes the defaults when the row cannot be read.

A value is the refresh period in milliseconds; `Duration` multiplies it and
wraps around as the int64 of `time.Duration` does.  `loop` is the place of the
goroutine: before its first `checkPeriod`, in the `select`, inside `Refresh`,
gone.  `CheckPeriod` keeps, drops or replaces the ticker, or `TickerPanics`.
`Clock` runs the two countdowns; a tick is dropped when the one-place channel is
full.  `Die` is main returning, or the process being killed, at any point.
`older` and `newer`, the ages of the last two refreshes under the present
ticker, are history, counted up to `MaxAge`.

### AdminSessions

An expiry time is kept as the time left, below 0 once it has passed; how long ago
is counted up to `Interval`, where `SessionsTidy` can tell.  `ReadClock` and
`Sweep` are the two halves of a pass of `cleanupSessions`, which calls
`time.Now()` before it takes the mutex.  A token is never drawn twice.

### SessionRefresh

`step[c]` is the query a client's request makes next.  An item has the key
`LookupKey` in UpdateDB and in the lookups and the key `SessionKey` in a session
refresh: the identifier cut to an INT and the technology in lower case.
`points` are in the order of their timestamps, which is the order of the inserts
because `SavePoint` stores `NOW()` (`session.go:40`).  `Begin` reads them once;
`NextPoint`, `Skip`, `Upsert` and `UpsertFails` go through them.  `Copy` stands
for every step of RefreshPipeline: any row of UpdateDB may be written at any
time.  `disturbed` is history: the keys for which a running refresh no longer
decides, because a point with them changed, somebody else wrote them or an
upsert failed.

## 3. Runs

Every run ends within three minutes on two cores.  Each property of a passing
run is violated when one definition is replaced by a mutation variant.

| run | instance | checks |
|---|---|---|
| `RefreshOverlap` | two refreshers, a cell and a wifi, two rows per table, pages of 1, one fault | `TypeOK`, `Coverage`, `OverlapSettles`, `FreshWhenAlone`, `FirstCellWins`, `CopiesSnapshot`, `OnlyCommitsAddWork`, `QuietRefreshMirrors` |
| `RefreshCatchesUp` | auto-refresh with fairness, two wifi nodes, an address that is always refused, one fault | `FaultFreeMirrored`, `MirrorCatchesUp` |
| `KeyAnswers` | two requests, an administrator, a bogus key, fairness | `TypeOK`, `BoundedStaleness`, `NoLockOut`, `AnswersAsAuthority`, `RevocationFinal`, `FadedForGood` |
| `Limiter` | two requests, two endpoints, a key and an address, settings that change between limits, none and a period that overflows | `TypeOK`, `MapTidy`, `ForgettingUnobservable`, `PeriodUpToTTL` |
| `Locate` | two pairs of requests, four items, fairness, shutdown | `TypeOK`, `SourceOrder`, `MetroStaysPut`, `AnswerRecorded`, `StopLosesNothing`, `RequestsEnd`, `QueriesRunOut` |
| `AutoRefresh` | two administrators, periods off, 1, 2 and one that overflows, deaths and restarts, fairness | `TypeOK`, `NeverLate`, `NewPeriodTakesOver`, `PeriodsKept`, `PanicNotRepeated`, `RestartKeepsSettings` |
| `AdminSessions` | three logins, a lifetime of 3, a cleanup every 2, restarts, fairness | `TypeOK`, `SessionsTidy`, `AnswersAsPromised`, `ExpiredGoes` |
| `SessionRefresh` | two clients, five kinds of request, an administrator, two sessions, one fault | `TypeOK`, `AcceptedIsStored`, `CorrectionShows` |

Four runs show where the code does not do what it or its documentation says:

* `KeyAfterRevoke` — after `Revoke` has returned, a Validate that had read the
  row before puts it back in the cache and the key is served for up to 30 s.
* `RefreshLongAddress` — an IPv6 address longer than 17 characters never reaches
  LocateDB, and `Refresh` reports success.
* `SettingsRace` — two updates of the settings assign in one order and save in
  the other; without any failure the row is not what is in force, and the next
  process loads it.
* `CellCorrection` — a session refresh writes corrected cells under the
  technologies `lte`, `gsm` and `wcdma`, which no lookup asks for.

Two more remarks, without a run.  With no data at all `/locate` answers 200 with
an empty body (`NotFound` in `LocateRequests`), where `README.md:20` announces
an error.  A period above `entryTTL` (5 minutes), which the settings form accepts, is
not enforced once the sweep has dropped the entry, although the page calls it the
minimal period between requests (`dashboard.html:25`).  `ForgettingUnobservable`
therefore speaks of periods up to `entryTTL`; what holds for a longer one is
`PeriodUpToTTL`.  A period that overflows `time.Duration` is compared as what it
wraps around to, and neither property says anything of a request that carries one.

Older rows may be put over newer ones by refreshes that overlap, for wifi nodes and
addresses, since each upserts pages it read at some earlier time.
`OverlapSettles` states what makes this harmless: whichever refresh brought the older
row back has the newer one still ahead, if it was there when the first of them
began.  It speaks of the moment when the last of them has ended; a key whose upsert
failed, and a group in which a page failed or the process died, is left to the
next refresh (`QuietRefreshMirrors`).

### Liveness and its safety half

Five liveness properties are checked under fairness.  Beside each stands a safety
property that holds without any fairness and carries what the program itself
contributes; what is left to fairness is that time passes and the steps that
are enabled are taken.

| liveness | its safety half |
|---|---|
| `MirrorCatchesUp` | `QuietRefreshMirrors`: a `Refresh` beside which nothing is committed, refreshes or fails, but for the addresses LocateDB can never hold, ends with the newest report of every key, whatever LocateDB held before |
| `RevocationFinal` | `FadedForGood`: once a revocation is `TTL` old, no copy that could be served is left and none can come back |
| `RequestsEnd` | `QueriesRunOut`: every query of a request leaves it with fewer to make |
| `NewPeriodTakesOver` | `NeverLate`: the ticker is the one of the adopted period, and a refresh is due a period after the last at most |
| `ExpiredGoes` | `SessionsTidy`: when the cleanup is not behind, no entry expired longer ago than an interval |

That a `Refresh` ends is no property here.  Its loops end at a short page, and while
reports fill page after page they need not (`refresh.go:104-118`); in the model the
reports stop at `MaxRows`, so that such a property would hold for the bound alone.
`OnlyCommitsAddWork` says what the code does ensure: the rows and pages ahead of a
`Refresh` grow by commits of others only, and every step of it uses one up.

### Bounds

* *Pipeline*: `MaxRows` ids per table commit in any order.  With `PageSize` 1 every
  row is a full page, so the offset moves, the last page is empty, and a commit
  below the offset shifts what follows; a page of several rows differs
  only in what the theorems treat, which hold for every page size.  One fault is
  a failed query or a death of the process, anywhere.  Two refreshers: one page
  read early and upserted late is what it takes to bring an older row back; the
  theorems hold for any number.  Since commits stop at `MaxRows`, `MirrorCatchesUp`
  speaks of tables whose growth pauses for as long as a refresh takes.
* *API keys*: the race needs one request between the steps of one revocation and
  a second to use what it left; `TTL` of 2 separates "just stored" from "about
  to expire".  Time is not bounded.
* *Limiter*: `MaxTime` lets the ticker fire several times, a sweep run late and an
  entry pass `EntryTTL`, which is 2; periods are 0, 2, 4 and 9, of which 4 is longer
  and 9 wraps around to -7 (`Half` is 8).  sessionUUIDs as callers are covered by
  the proofs only.
* *Locate*: one pair is a request with an unknown cell, a metro cell that
  ExternalDB holds too and a wifi, beside one with a cell without radio type and
  a sessionUUID Postgres refuses; the other is two requests of one session,
  which race to create it.
* *Auto-refresh*: `Poll` is longer than both periods, so several ticks fall
  between two looks at the settings; `Half` makes the largest period overflow to
  a negative duration.  Time is not bounded, ages are counted up to `MaxAge`,
  the longest duration.
* *Sessions*: three tokens let one expire while another is good and a third is
  logged in under a cleanup with an old clock.  `Interval` of 2 tells an entry that
  is one tick late from one that a cleanup has missed.
* *Session refresh*: an INT holds -2 to 1 and the cell 5 becomes the cell 1 when
  cut; two requests in all, so that a point can be added under a running
  refresh, one item shared by two points of a session, and a blank BSSID.

Runs have `CHECK_DEADLOCK FALSE` where the system may stop: the clock of the
limiter and the tables of the pipeline are bounded, and the server shuts down.

### Fairness

* `RefreshPipeline.FairSpec`: a running `Refresh` waits for nothing but database
  calls, and each returns a result or an error.  `AutoSpec` adds that refreshes
  keep being started, which `AutoRefresh!NewPeriodTakesOver` shows for a positive
  period.  Inserts are not fair: clients need not come.
* `APIKeyCache.FairSpec`: time passes, and a request that was begun is served
  (the mutex is never held across a call).  Administrators are not fair.
* `LocateRequests.FairSpec`: handlers and background goroutines run on, and
  main leaves `Shutdown` and `Wait` when it can.  Arrivals, refreshes and the
  signal are not fair.
* `AutoRefresh.FairSpec`: time passes and a `Refresh` returns.  The latter is an
  assumption about the load: the growth of the tables lets a page come short.
  A `select` chooses at random among the channels that are ready, so one that is
  ready again and again is served: strong fairness of `OnPoll` and `OnTick`,
  each of which the other can disable.  Nothing makes main live on:
  `NewPeriodTakesOver` assumes that the process stays up from some point.
* `AdminSessions.FairSpec`: time passes, the cleanup takes its ticks and gets the
  mutex.

## 4. Proofs

| theorem | statement |
|---|---|
| `RefreshPipelineProofs!TypeCorrect`, `RefreshCovers`, `PipelineImplementsCopy`, `CellsNeverMove`, `NothingLeftOut`, `RefreshRunsOut` | `TypeOK`, `Coverage`, `CopiesSnapshot`, `FirstCellWins`, `FaultFreeMirrored`, `OnlyCommitsAddWork` |
| `FreshnessProofs!OverlapsSettle`, `AloneLeavesFresh`, `QuietRefreshLeavesMirror` | `OverlapSettles`, `FreshWhenAlone`, `QuietRefreshMirrors` |
| `APIKeyCacheProofs!CacheTypeCorrect`, `StalenessBounded`, `NobodyLockedOut`, `CacheImplementsAuthority`, `FadedStaysFaded` | `TypeOK`, `BoundedStaleness`, `NoLockOut`, `AnswersAsAuthority`, `FadedForGood` |
| `RateLimiterProofs!LimiterTypeCorrect`, `MapStaysTidy`, `SweepingIsUnobservable`, `LimitHoldsForTTL` | `TypeOK`, `MapTidy`, `ForgettingUnobservable`, `PeriodUpToTTL` |
| `LocateRequestsProofs!LocateTypeCorrect`, `SourcesInOrder`, `MetroCellsStay`, `AnswersRecorded`, `NothingLost`, `QueriesAreBounded` | `TypeOK`, `SourceOrder`, `MetroStaysPut`, `AnswerRecorded`, `StopLosesNothing`, `QueriesRunOut` |
| `AutoRefreshProofs!TypeCorrect`, `NoBurst`, `RefreshesInTime`, `NoCrashLoop`, `SettingsSurvive` | `TypeOK`, `PeriodsKept`, `NeverLate`, `PanicNotRepeated`, `RestartKeepsSettings` |
| `AdminSessionsProofs!TypeCorrect`, `CleanupKeepsUp`, `ImplementsAuthority` | `TypeOK`, `SessionsTidy`, `AnswersAsPromised` |
| `SessionRefreshProofs!TypeCorrect`, `AcceptedStored`, `CorrectionsShow` | `TypeOK`, `AcceptedIsStored`, `CorrectionShows` |

They hold for every value of the constants that satisfies the `ASSUME` of the
module.  Of the assumptions, `RangeAssumption`
says that the configured period fits the INTEGER column and that no period that
fits overflows `time.Duration`; `LimiterAssumption`, that `time.Duration` holds
`EntryTTL`; `RequestAssumption` lists what `Validate` lets
through; the others give the constants their types.

*Pipeline.*  `Coverage` is not inductive.  The strengthening says, for the table
a refresh is in, that every snapshot row whose rank in `visible` is below
`offset` plus what the page has given so far has been tried, and that the rows
still in the page are the ones the next ranks had when it was fetched.  A late
commit below the offset moves rows to higher ranks only, so rows already counted
are still counted and a row not yet seen cannot slip below the offset: this is
where paging by OFFSET would lose rows if any row were ever deleted.
`LastPageCovers` is the step in which a short page makes the whole table tried.
The refinement maps a running refresh to its untried snapshot rows.
`CellsNeverMove` rests on the uniqueness of cell keys among committed and pending
rows, `NothingLeftOut` on what a row that was tried has left in LocateDB, which
never loses a key.

`OnlyCommitsAddWork` is a ranking argument: the work ahead of a `Refresh` is
counted from the rows that are visible, the offset and the place in the page,
and each action of it is shown to lower the count.  The step to watch is
`NextPage`, where a full page has to move the offset.

*Freshness.*  A page may replay an older row of a key after a newer one, because
late commits shift rows past the offset, and a refresh may upsert a page it read
before another put newer rows over it.  `FreshInv` says why neither lasts.  Take
the refreshes that overlap as one group: `floor` is what was there when the first of
them began, so every one of them began with it (`FloorHeld`).  For each of its rows
`Settling` says that the row or a newer one of its key shows, or that some refresh of
the group has the row still before it: in a later table, on its page or on a later
one (`Coming`).  An upsert of an older row is harmless because whoever makes it has
the newer one coming, on the same page behind it or on a later page
(`PagesOrdered`).  When the last refresh ends nothing is coming any more
(`OverlapsSettle`).  A refresh that runs alone is a group of one, whose floor is
what it began with but for the keys it failed to upsert (`AloneInv`).

`QuietRefreshMirrors` needs one fact more: LocateDB shows committed rows of the
right key only (`Genuine`), so nothing in it can be newer than the newest report.
With every start row settled and no upsert failed, what an earlier fault, overlap
or death left behind is overwritten.

*API keys.*  The invariant says that a copy of a row, in the cache or in a
request's hands, has the scope of the row in the table, that a row that exists
is never remembered as absent, and that a cached active copy of a key revoked
for `quiet` ticks has at most `TTL - quiet` ticks left.  At `quiet = TTL` that is
none (`NothingLeft`), and `quiet` is never wound back (`QuietLasts`), because a key
that is dead is not issued again and no copy of its active row is about.

*Limiter.*  The invariant says that an entry equals `granted` or is gone because
`granted` lies more than `EntryTTL` back, that the identifier the code forms
determines the caller (`IdentifierIsCaller`), and how far the sweeper lags.  It
says nothing of periods, so no theorem needs an assumption about them: where the
entry is gone, its caller passed longer than `EntryTTL` ago.  `DurationFits` is the
one fact about the conversion: it is the identity on the periods that fit, and of
the others `LimitHoldsForTTL` and `SweepingIsUnobservable` claim nothing.

*Locate requests.*  What a request answers depends on what it saw, query by
query, in databases that grow in between.  The invariant (`RequestInv`) keeps
what it has learnt: a place behind it held nothing known at arrival, the cell
it settled on comes early enough and, while a wifi may still confirm it, was no
known metro cell; a request without a failed query has its session.  `Owing`
says that a cell found in ExternalDB is stored, dropped or in the hands of a
goroutine of the group whose request keeps its cell; `Shut`, that nothing is
under way behind `Shutdown` and no goroutine behind `Wait`.  `RequestStep`
reduces a step to the request that takes it, `AnswersPreserves` and
`GoesOnPreserves` to what the search does next.  `QueriesRunOut` counts the places
left in the lists still to be searched (`StepsLeft`).

*Auto-refresh.*  `AgesInv` ties the ages of the last two refreshes to the
countdown: since the ticker was last due, `every - tickIn` has passed, so a
tick in the channel means that the refresh before the last is a full period old.
`ServeInv` is the bound from above: while no tick waits, the age of the last
refresh and the time until the next tick make at most a period.
`UntouchedFits` says that what a process only loaded fits the column, and
`SavedInv` that without a race or a loss every save under way, and with none the
row, is what is in force.

*Admin sessions.*  `LateExpired`: what a cleanup with an old clock is about to
delete is expired or gone, since time only passes and no token is drawn twice.
`SinceTick`: an entry that is not marked expired since the ticker last sent.  It is
re-established by `ReadClock`, not by `Sweep`: what expires between the two is the
next pass's, and its age is within the time since that tick.

*Session refresh.*  `ClientInv`: the items before the one `/update` inserts next
are stored, and rows of UpdateDB never go.  `SnapInv`:
what a refresh has read differs from the points only where keys were disturbed;
`WrittenInv`: an undisturbed row is at the last of the points dealt with.

What stays with TLC are the liveness properties, `MirrorCatchesUp`, `RevocationFinal`, `RequestsEnd`, `NewPeriodTakesOver` and
`ExpiredGoes`: they need fairness and `ENABLED`, which the provers do not handle.  Their safety halves (section 3)
are proved.
Every safety property that a run checks and finds to hold is also proved.

## 5. Not modelled

* Coordinates, accuracy and distance (`geo/`): floating-point trigonometry.
  Nearness is a constant relation of `LocateRequests`.
* Configuration and connection pools: read and opened once, at the start.
* `ListenAndServe` failing, and the routing table.
* The wording of answers, logs and pages; listing sessions, points and keys,
  which only reads.
* The lookup of WCDMA cells by psc and cid, where several rows may match: one
  technology stands for three.
* That a question about an admin session is asked once per request, and what the
  key page says when `Deactivate` failed: the code promises nothing about them.
* `handler/apikey.go`, which no route reaches; the demo client, scripts and
  deployment, but for `Restart=always` of the unit file.

## 6. Plan

Done: the pipeline with the death of its process, auto-refresh with the
settings, the key cache, the limiter, locate requests, admin sessions, ingest
and session refresh, each with the proofs of its safety properties.

Left, by worth:

1. `Gateway`: body, limiter, authorisation and handler composed, with settings
   that change between the reads of one request.  Each part is modelled with the
   freedom the others leave it, so only what a request sees across them is
   missing;
2. the three technologies with their different keys, when `FindWCDMA` is given
   a defined answer.
