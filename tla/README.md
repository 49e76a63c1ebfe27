# FlipScout in TLA+

A TLA+ model of FlipScout Des Moines, model-checked with TLC and proved in part
with TLAPS. FlipScout searches eBay for things to resell, prices the drive and
the repair into each find, and prints a ranked report every morning. Paths below
are relative to the repository root, with `src/` in front in `PROJECT.json`.

An operator named `...Mutant` is a deliberately wrong version of the operator
after it. No specification uses it: put in the place of the right one, it makes
the property it is meant for fail, which shows that the property can fail.

## The system

| component | code | state | operations |
|---|---|---|---|
| eBay client | `app/services/ebay_client.py` | cached token with its deadline, a lock around replacing it | `search`, `get_access_token`, one retry after a 401, every error path |
| daily scan | `app/services/scanner.py`, `cmd_scan` in `app/cli.py` | a `ScanResult` under construction, a copy of the rejected ids | query loop, look up / record / consider each listing, sort, report, exit status |
| seen items, verdicts | `app/storage.py` | SQLite tables `seen_items`, `verdicts` | `has_seen`, `record_seen`, `set_verdict`, `rejected_ids`; each write commits by itself |
| normalization | `app/services/normalization.py` | none (a list under construction) | a page of JSON rows becomes listings |
| locating and scoring | `locate`, `classify_pickup`, `score_candidate` in `scanner.py`; `profitability.py` | none | where a listing is, how it would be collected, what it earns |
| storage-unit auctions | `app/services/storage_auctions.py` | none | price a unit at a bid, find the walk-away bid |
| HTTP API | `app/main.py` | one shared `EbayClient`, a pool of threads | search, health, offline endpoints, exceptions to status codes |
| watchlist | `app/services/watchlist.py` | none | the searches, and the routes, bases, helpers and areas a scan goes by |
| geometry | `app/services/geo.py` | none | distances to routes, bases, helpers and areas |
| outcome ledger | `outcomes` in `app/storage.py`, `cmd_log`, `cmd_stats` | SQLite table `outcomes` | log a buy, close it with a sale, calibrate |
| configuration | `app/config.py` | frozen settings | credentials and the request timeout |

Requests of the HTTP API run on a pool of threads and share one `EbayClient`;
the scan has a client of its own and uses it from one thread. A scan derives its
queries from the watchlist (one circle around each stop of a local search's
routes), calls `search` once for each, hands the answer to
`normalize_ebay_search_response`, and takes each listing through `has_seen`,
`record_seen`, `locate`, `classify_pickup` and `score_candidate`. The database
is shared by the scans and by whoever sets verdicts; in the repository only the
tests call `set_verdict`, so the model lets its caller act at any time. The
ledger shares the database file with the scan but no table.

What is hard here:

* threads interleave between the two reads of the cached token, and between a
  401 and the handshake that follows it;
* eBay's answers are lost or late, tokens end while requests are in flight;
* a scan may be killed, or end in an exception, at any point, while each of its
  statements on the database is already committed;
* verdicts change during a scan, and one listing comes back in several queries;
* the first requests of the API race to build the shared client, and searches that
  wait for eBay hold threads that the health check needs;
* a sale is committed before its calibration is computed, and may be corrected,
  by another terminal, or with an amount that is no number;
* numbers are rounded at each step, and JSON numbers may be anything.

`PROJECT.json` lists these hazards line by line, with the properties that watch
them, and those that nothing watches yet.

## Modules

**`EbayClient`**: one `EbayClient` and a set `Calls` of executions of `search`.
`pc[c]` is where a call is: before the first read of the cache (`check`), at the
lock (`wait`), in the token request (`mint`, and `granted` when eBay has granted
a token whose answer is on its way), in the search request (`get`). Taking a free
lock and the second read are one step, since no other thread can act on the
lock's holder in between; the first read takes no lock and is a step of its own.
Tokens are numbered by their grant. `issued` is what eBay knows, `token` what the
client believes. `rejected[c]` is the token a call was refused; a call that has
one is in the retry, which skips the cache (`force_refresh`). The exception
subclasses of `EbayError` are one. `GrantRaises` and `GetRaises` are the ends no
`except` of the client foresees (`"UnexpectedError"`): `float()` of an `expires_in` that
is an integer beyond the floats (`ebay_client.py:243-246`), a body nested too deep for
`json`, a token no header can hold. Time is the monotonic clock: program steps
take none, a request at most `MaxLatency`. httpx's timeout is per phase
(connect, write, read), so that a request lasts at most `request_timeout_seconds`
is an assumption of the model, and `Tick` holds the clock for an overdue request.

**`SearchService`**: what `EbayClient.search` promises its callers with tokens,
locks and clocks left out: a call is idle, running, or what it returned or raised;
without credentials it can only raise `MissingConfigurationError`; an exception that is
none of the client's takes a token eBay has granted; and n calls
obtain at most 2n tokens, one each and one more after a 401. `EbayClient` is
checked to implement it (`pc` and `outcome` become `call`, the length of `issued`
is `grants`).

**`SearchTimes`**: `EbayClient` with a record of how long each search has been under
way (`waited`), which no step depends on. The run `client` checks the client with it.

**`ApiServer`**: requests for `/api/ebay/search` and `/health` on a pool of
`Threads`, composed with `SearchService`, whose calls are the search requests.
FastAPI runs a sync dependency on one thread and the endpoint on another, in
between the request holds none; `stage[r]` follows it. `lru_cache` calls
`_shared_ebay_client` without a lock and keeps the first result, while each
caller returns its own: `client` is what it holds, `uses[r]` what a search was
given (a client is named after the search that built it). Two clients keep
`SearchService`'s promise together, since it counts tokens by call. `settings` is
the environment: credentials, and numbers and addresses that can be read, cannot
be parsed (`MissingConfigurationError`) or are refused by `Settings` (no handler).
What FastAPI, anyio and `lru_cache` do is taken from how they are documented and
marked external.

**`Ledger`**: the `outcomes` table, with `log buy`, `log sell` and `stats` typed in
several terminals. `Sell` commits the sale, `ReportSale` computes the calibration
over what is in the table by then, `Interrupt` is a kill in between. Amounts are
what `Decimal()` accepts, `NaN` and `Infinity` included; a comparison with NaN and
`Infinity / Infinity` raise. A quotient is rounded half even to the coefficient of the
`decimal` context, in whatever last place makes it fit; one that fits in none overflows,
outside the `try` (`storage.py:290`). How many digits a coefficient has and how far its
last place reaches are constants. `claimed[t]` remembers how many sales the last report
in a terminal counted. Purchase prices, titles, dates and notes enter no
computation and are left out; an unknown id and an amount `Decimal()` refuses
change nothing. `SortedAt` takes the upper of two middle ratios, as the code does.

**`Scan`**: runs of the scan command, one action per statement that touches the
database. `Plan` is the sequence of queries, each with the search it belongs to;
an `offer` stands for the tier and the score a listing would get, left
nondeterministic, since price and search may differ between two sightings.
`LookUp` is `has_seen`, `Record` is `record_seen`, which commits. After it a listing
known before is passed over (`LeaveOut`) or, with `--include-seen` or if it is new,
counted, priced and perhaps made a candidate (`Consider`): a kill may fall between the
commit and the count. A page is a set of ids in
any order. Rows with no id or a rejected one are dropped in `QueryOk`, as the
code passes over them without a trace. `Abort` may end an active run anywhere: a
kill, `MissingConfigurationError`, a locked database, an exception
from a row or from a price the profit model refuses. `result` keeps the counters except
`items_seen`, which nothing reads but the report's heading.

**`DailyDigest`**: what the report promises its reader with the scanner left out
(no listing twice unless the scan of the day was told to show listings again, none
rejected before the scan, at most `Top`). `Scan` is
shown to implement it: `considered` is `seen`, `shown` the union of the reports,
`again` whether the active run has `--include-seen`, `excluded` the rejections the active run goes by.

**`Normalization`**: `normalize_ebay_search_response` row by row over JSON
values described by how Python holds them and what they denote. `AppendRow`,
`SkipRow` and `EscapeRow` are the three ends of a row: normalized, caught by the
`except`, not caught by it (`OverflowError`, and `RecursionError` of `sanitize_raw`).
A listing's `raw` is the row as it came, without the redaction of credentials: it keeps
a NaN the other fields drop.

**`Rounding`**, **`Deal`**: the arithmetic of `score_candidate` and
`estimate_profit` in integers with the code's two roundings (half up for money in
`profitability.py`, half even for a plain `quantize`), and the decisions of
`locate` and `classify_pickup` over a `place`: what `geo.py` computes for a point
and the routes of a search (`PlaceAt`). `Refused` is when `ProfitAssumptions` raises its
`ValidationError`, for an amount of more than four decimals (`models.py:133-160`); one of
more than sixteen digits is refused alike and left out. `base_miles` is rounded half even to tenths as a decimal;
Python rounds the binary float, which differs on exact ties only.

**`Geo`**: the distances of `geo.py` in the plane: a point is what `_project`
makes of a latitude and a longitude, in hundredths of a mile. Great-circle
distances are those of the plane here; over a watchlist's spans they differ by
less than a mile (the accuracy note of `geo.py`), which no property resolves.
Distances are rounded down: the root is the whole one, and a leg's length is
rounded up where something is divided by it, so that a detour is never overstated.

**`Watchlist`**: the routes and searches `load_watchlist` accepts, and the queries
`scan` derives from them: enabled searches in order, the anchors of a local one,
the radius from its least tolerant route, the fallback without anchors, and what
`build_search_params` refuses. eBay is taken to measure a circle from the stop
whose postal code was asked about. `MCScan` takes its `Plan` from here.

**`Appraisal`** composes all of these as `scan` does: eBay answers one query of the
watchlist with a page, of what lies in the circle if it is a local one; the page
is normalized, then its listings are located by the routes of the query's search
and scored, in order, until the page is done or an amount is refused, which ends the
scan (`EndScan`).

**`StorageUnit`**: `evaluate_storage_unit` with its roundings, asked about one
unit at one bid after another.

`MC*` modules hold the constants of the runs, `*Proofs` modules the theorems.

## Runs

| run | question | instance | result |
|---|---|---|---|
| `client` | do cache, lock and retry stay consistent, is the service promise kept, does every search end, and how soon? | 2 calls, fairness, unit 30 s: leeway 60 s, timeout 30 s, lifetimes 30 s and 120 s | holds |
| `client_slow` | does the leeway cover every permitted timeout? | 2 calls, unit 60 s: leeway 60 s, timeout 180 s | violated |
| `client_herd` | do concurrent calls share a handshake? | 3 calls | violated |
| `scan` | is anything reported twice, lost from the counts, or shown although rejected, and is the reader's promise kept? | 2 runs, each with or without `--include-seen`, 2 listings, 2 searches with 3 queries, 2 offers | holds |
| `scan_shown` | has what a later run leaves out been shown? | 2 default runs, 2 listings, 1 search with 2 queries | violated |
| `scan_exit` | is a scan that failed altogether reported as such? | 3 queries | violated |
| `appraisal` | do good rows survive, do appraisals add up, are detours to the path, are local finds on the way? | 44 priced rows in pairs at each of 7 places, 15 odd rows in triples, 6 searches over 4 routes, 3 helpers of two names | holds |
| `appraisal_bad_row` | does one bad row cost only itself? | as above | violated |
| `storage_unit` | does the walk-away bid hold to the cent? | 864 units, 27 bids | holds |
| `ledger` | is anything logged lost, do numbers always have a report, and can what keeps reports from returning be corrected? | 2 terminals, 3 buys, 4 predictions, 4 prices, decimals of one digit | holds |
| `ledger_median` | is the advice that of the median? | 1 terminal, 2 buys, decimals of two digits | violated |
| `api` | is one client shared, does the status blame the right party, can some request always go on, is every one answered? | 3 searches, 1 health check, 2 threads, fairness | holds |

The violations are documented statements the code does not keep; `findings` in
`PROJECT.json` quotes each:

* `client_slow`: a request may outlive its token, because the leeway is fixed at
  60 s while the timeout is configurable up to 300 s.
* `client_herd`: after a 401 each call that carried the refused token performs a
  handshake of its own.
* `scan_shown`: a listing is recorded as seen before it is priced, cut or printed, so
  that a later run leaves out one that no report has shown.
* `scan_exit`: `searches_run` counts failed searches too, so the exit status is 0
  even when every query failed.
* `appraisal_bad_row`: `OverflowError` and `RecursionError` escape the `except` around
  a row.
* `ledger_median`: of an even number of ratios the upper middle one is taken for the
  median, so that 0.5 and 1.2 make the estimator conservative, where 0.85 is documented
  to mean optimistic.

### Bounds

`client`: with two calls each can be refused, time out or lose its answer while the
other is at any point of its own handshake; every property of this run but
`EverySearchEnds` is also a theorem for any finite number of calls, and
`client_herd` runs three. Lifetimes lie below and above the leeway, and the clock
runs long enough for a token to be cached, to become stale and to end at eBay
(`MaxTime` is passed only while requests are pending). The bound of six request
timeouts is reached, by a search that the other one passes twice at the lock.
Symmetry of the calls is used in runs without liveness. `scan`: the plan with an
anchor pair and a second search is the shortest in which a listing comes up again in
its own search and in another; two runs give every order of sighting, crash and
verdict between a run and its successor. Listings and runs are symmetric. Ids
occurring twice on one page and negative `--top` are left out. `appraisal`: pairs
are needed to compare two sightings, triples to put a bad row before, between and
after good ones; the places cover each pickup tier, no coordinates at all, and a
place between two routes the nearer of which tolerates less; the searches a
nationwide one, one that is switched off, local ones along two routes and along one,
one without anchors and one whose circles eBay is never asked about. The points of a
route the distances are checked against are the stops and sixteenths of the legs;
how far such a point may be from the nearest one between them (`Gap`) follows from
the length of the leg. Prices and shipping have at most two decimals, but for one of
each with more than four; amounts of three or four decimals are not modelled.
`storage_unit`: bids go cent by cent where rounding weighs most. `ledger`: with
three buys a sale that is counted, one that keeps every report from returning and
one that is being corrected can be in the table together; among the prices is one
whose quotient has no place in decimals of one digit, as 1E+999999 / 0.1 has none in
those of the code, and two are no numbers. `ledger_median`: decimals of two digits,
in which 0.5 and 1.2 are exact. `api`: one search builds the client that is cached,
one loses the race, one finds it; two threads are fewer than the requests.

### Fairness

`EbayClient` assumes of a call that its thread runs when it can, that a thread
waiting at the lock eventually gets it, that time passes, and that an overdue
request raises. With finitely many calls a thread can lose the lock to others
only finitely often, so weak fairness suffices. That eBay answers is not assumed.
`Scan` assumes none: a run is a finite loop, each query of which ends
(`EverySearchEnds`), and nothing else in it blocks. `ApiServer`
assumes that some thread that can go on does, that a free thread is given to one of
those that wait, and that of the searches under way one ends; that a particular
request is served first is not assumed, and since the requests are finitely many it
is not needed.

## Proofs

Each theorem holds for all values of the constants that satisfy the module's
assumptions, which TLC also evaluates on the runs.

`EbayClientProofs`, for any number of concurrent calls:

* `TypeCorrect`, from `TypeInv`: `TypeOK` together with `KnownTokens`, that every
  token number in use was granted, without which `issued[k]` has no type;
* `LockCorrect`: inductive with the type invariant;
* `RetryCorrect` and `CacheMonotone`, from `Generations`: a granted token on its
  way is the newest, hence newer than the cached one and than the refused one.
  `RetryUsesNewerToken` is not inductive, since it says nothing of `granted`, and
  that no other grant can intervene needs `LockHeldForHandshake`;
* `UsableKept`, from `StaleDuringHandshake`: while a call that was refused nothing holds
  the lock, the cached token is past its deadline. That held when the call read the
  cache inside the lock, and nobody else can replace the token, nor does time make it
  valid again, until the answer arrives several steps later;
* `InFlightCorrect`, if `2 * MaxLatency <= Leeway`, from `Timing`: deadlines of
  requests lie ahead, and the cached deadline exceeds the true end less the leeway
  by at most the time of one handshake. The condition is that of the code's
  defaults (20 s, 60 s) and fails for timeouts above 30 s, as `client_slow` shows
  for one of 180 s.

`ScanProofs`, for any runs, listings, plan and offers:

* `TypeCorrect`; `RecordedCorrect` (inductive with it);
* `RejectedCorrect`, from `Filtered`: page, current listing, candidates and report
  of a run avoid its copy of the rejected ids, and an idle run has none of them;
* `NoRepeat`, if runs do not overlap (`~Overlap`), from `Alone`: one run is active
  at a time and the answer of `has_seen` is still true when `record_seen` commits, and
  `Unfound`: what is then considered as new is nobody's candidate and in no report.
  With overlapping runs it is false.
* `NewCountsCorrect`, under the same condition, from `NewInv`: the counts are the
  cardinality of a set of pairs (`NewlyCounted`), one pair per listing, so that no sum
  has to be taken. A run may have recorded a new listing and not yet counted it, and if
  it is cut short there never will: the listings recorded and not counted are no more
  than the runs that may owe a count (`MayOweACount`), a second set.
* `CountCorrect`, from `CountInv`: an active run before its `q`th query has counted
  `q - 1` answers and errors, and every search of those queries but one that goes on
  with the `q`th. That the queries of a search follow one another (`PlanAssumption`,
  the order in which the scanner nests its loops) makes "this query begins a new
  search" a question of the query before (`RanGrows`).
* `ExitCorrect`, from the same `CountInv`: when the last query has been asked and an
  error has been counted, the search it belongs to has been counted too, so
  `searches_run` is not 0 and the test of `cli.py:298` fails. The finding `scan_exit`
  is no corner case: no scan that prints its report exits otherwise than with 0.

Of these only `NoRepeat` and `NewCountsCorrect` need runs that do not overlap.

`DigestProofs`: `DigestImplemented`, `Scan` implements `DailyDigest` if runs do not
overlap (`~Overlap`), the one condition of the promise. The invariant is that of
`ScanProofs` with `Numbered` (no two candidates of a run were found at the same
position, so at most `Top` of them have fewer than `Top` before them: `ReportFits`,
by an injection into `0..Top-1`) and `Apart` (what an active default run has found
is in no report yet). One case per action: `Record` is `Consider`, `Finish` is
`Publish`, `Abort` is `GiveUp`, the rest stutters.

`ServiceProofs`: `ServiceImplemented`, `EbayClient` implements `SearchService` for any
finite set of calls. Beside the type invariant it needs `Cleared` (nothing is granted
or in flight without credentials) and `Budget`: the tokens granted, the calls that may
still obtain one (`Open`) and those that may obtain a second after it (`Fresh`)
together are at most twice the calls begun. A grant takes its call out of one of the
two sets, a 401 leaves it in `Open` only.

`TimesCorrect`, in the same module: every search ends within `2n + 2` request timeouts
of its start, if `n` searches share the client, whatever eBay answers or fails to.
This is the safety side of `EverySearchEnds`, with a number to it, and it is proved
without any fairness of the lock: a waiting search may be passed over again and again,
but only as often as the others have token requests left. The invariant (`InTime`) is
that for each search the time it has been under way, what its own GETs may still take
(`OwnLeft`) and what all token requests to come may take one after the other
(`LockWork`) add up to no more than the bound. A token request in flight ends by its
deadline (`Timely`); one that leaves moves a timeout from those to come to the one
that runs (`RequestSpends`); a 401 leaves its call one, never two; and when time
passes, each search that is under way waits for the holder of the lock, holds it, or
has a GET in flight, so one of the two sums has shrunk by as much (`TimeIsSpent`).

`ApiServerProofs`, for any requests and threads: `TypeCorrect`; `OneClientCorrect`;
`BlameCorrect`, from `BlameInv`, which says what each stage of a request already
knows of its input and the settings (`Progress`, `Known`), what the state of its call
tells (`CallTells`) and what each status does (`StatusTells`); `HealthCorrect`;
`NobodyStuckCorrect`, the safety side of `EveryRequestAnswered`: a request that holds a
thread can go on without another one, and when none holds one, one is free.

`LedgerProofs`, for any terminals, amounts and number of rows: `TypeCorrect`;
`NothingLost`;
`NumbersReportCorrect` and `CorrectionCorrect`, which follow from the type invariant by
what `CalibrationReport` does with a table none of whose quotients raises
(`ReportUnlessRaises`): a price that is `Proper` never overflows, since no prediction
that is counted is smaller than the unit of the ledger (`ProperSale`, from
`LargerDivisorFits`); `CountedSalesCorrect`, from `ClaimsHold`: no step
takes a row out of the counted ones, and correcting slips takes none out either.

`AppraisalProofs`, for pages of any rows and length, and any watchlist:

* `NumbersCorrect`, since each coercion yields a usable number or none;
* `GoodRowsCorrect`, whose invariant is that some increasing map takes the good rows
  passed so far to their listings. It is extended when a row is appended and kept when
  one is skipped, because none of the conversions of a good row raises
  (`WellFormedConverts`);
* `ShippingCorrect`, from `FromRows`: every listing is made from a row that raised
  nothing;
* `CheaperCorrect`, `CandidatesCorrect`, `DetourCorrect`, `ReachCorrect` and
  `LocalFindsCorrect`, from
  `ScoredInv`: an appraisal is that of its listing and nothing else, and the query is
  one the watchlist asks (`Asked`, `QueriesAreAsked`). What a listing is worth then is
  a matter of arithmetic:
  * geometry: the root in steps of 1024, 32 and 1 is the exact one (`RootIsExact`);
    behind its end a leg is nearest at that end (`EndIsNearest`) and beside it the
    perpendicular is shortest (`Lagrange`, `AcrossIsWithin`), so no point of a leg is
    nearer than `PointToSegment` says (`SegmentIsShortest`). The other way round, the
    foot of the perpendicular lies on the leg, a sixteenth of the leg lies within half a
    sixteenth of it (`SixteenthIsNear`), and by the triangle inequality (`Triangle`)
    that point is no farther than what `PointToSegment` says and the gap
    (`SegmentIsReached`, `RouteIsReached`): the line through a leg is never measured
    beyond its ends;
  * rounding: `HalfUp` falls as the divisor grows and `HalfEven` grows with the
    dividend (`UpAntitone`, `EvenMonotone`), which carries the order of two prices
    through multiple, profit and score (`CheaperScoresMore`); each rounded amount is
    the whole part of the exact one or the next (`EvenIsNextToWhole`), and a fee
    moves by at most a cent when the resale does. Added up that gives the bound of
    five cents, and a tenth of a mile's fuel both ways for a quick pickup
    (`ResaleIsNear`, `FeeIsNear`, `RepairIsNear`, `DriveIsNear`);
  * circles: the radius is at most what any route of the search tolerates
    (`RadiusIsTolerated`), the stop asked about is one of those routes'
    (`AnchorsAreStops`), and the nearest route is no farther than that stop.

`CandidatesCorrect` is about listings of known shipping cost. `scan` looks a helper up
by name (`scanner.py:374-380`), and of two helpers of one name, which `load_watchlist`
accepts, charges the favor of the first; the property allows that of either
(`IsCharged`, `SomeFavorIsCharged`).

`StorageUnitProofs`, for every unit the validator accepts: `HigherBidCorrect`, from
the monotonicity of `HalfUp` (`Rounding`) through premium, tax and total;
`WalkAwayCorrect` and `WarningCorrect`, from the bound of half a cent on each rounding
(`HalfUpError`): premium, tax and the walk-away bid itself together move the net
result by at most five cents (`WalkAwayNet`), which is what the tests allow.

Model-checked only: liveness (`EverySearchEnds`, `EveryRequestAnswered`), which is
out of the provers' reach; their safety side is proved (`TimesCorrect`,
`NobodyStuckCorrect`). Every invariant and every action property of a run that
passes is a theorem. That eBay keeps to the circle it is asked about (`InCircle`) is
an assumption on which `LocalFindsCorrect` rests.

## Not modelled

The trigonometry of `geo.py` (floating point; `Geo` takes projected points), with
`nearest_waypoint`, which only names a stop in a report, and `total_route_miles` and
`filter_on_route`, which no other code calls; the watchlist's YAML and most bounds
of its fields; pickup windows; `build_search_params` beyond the circle and "refuses or
does not"; `app/models.py`, which declares fields for pydantic to check; the offline
endpoints, which keep no state; the redaction of `raw`, texts, logging and layout, the
response envelope, `EbayClient.close`, `filter_unseen` and `times_seen`, and the
commands `check` and `log list`, which only read and print.

A listing of unknown shipping cost is priced as one that ships free
(`scanner.py:265`), and one without coordinates as one on the doorstep. `Deal` has both
as the code does. The first sits badly with `models.py:38-39` ("as 'the marketplace did
not tell us', not as zero") and with `normalization.py:210-213`, which calls the
difference "exactly the kind of thing that silently destroys a margin estimate";
`CandidatesMakeMoney` is therefore stated of known shipping costs only, and says nothing
of the others.

## Plan

Order of work; all but the last are done.

1. `EbayClient`: cache, lock, retry, with proofs.
2. `Scan` over the database, and `DailyDigest`, with proofs.
3. `Normalization`, `Rounding`, `Deal`, `Appraisal`.
4. `StorageUnit`, with its first theorem.
5. Findings: the documented statements the code does not keep.
6. `SearchService`, implemented by `EbayClient`, and `ApiServer` over it.
7. `Ledger`: buys, sales, corrections and calibration.
8. `Geo` and `Watchlist`, from which places and queries derive.
9. Proofs for any instance: `Scan` implements `DailyDigest`, `EbayClient` implements
   `SearchService`, and the safety properties of `ApiServer`, `Ledger`,
   `Normalization` and `StorageUnit`.
10. Money, detours and circles for any watchlist and economics; the counts of a scan
    and the reports of the ledger for any number of rows.
11. How long a search takes, that the pool of threads never stops, and that detours
    reach the path on legs of any length.
12. Left: `ApiServer` over `EbayClient` in one module, where the pool of threads and the
    lock meet. It needs one instance of `EbayClient` per client, which the cold start
    may make several of; until then the two meet in `SearchService`.
