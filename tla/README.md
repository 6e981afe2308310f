# Undercut, specified

TLA+ models of the deal finder in this repository, the TLC runs that check them
and the theorems TLAPS proves about them. Paths are relative to the root of the
repository.

## What the system does

Undercut polls eBay with saved searches, keeps every listing it has seen, and
spends a small budget of calls on asking what became of the listings that
searches no longer return. A listing that is gone twice in a row is recorded as
`likely_sold` and becomes a comp: its price is evidence of what such a thing
sells for. Deals are active listings priced well below their comps. A false sale
is therefore permanent bad data, and every call spent comes out of one daily
allowance of 5000.

### Components, their state and how they meet

| Component | State it keeps | Operations | Talks to |
|---|---|---|---|
| Disappearance check (`connectors/disappearance_check.py`) | none of its own; rows in memory during a pass | retire, resolve budget, load candidates, ask, judge, commit | eBay client, `listing` table |
| Ingestion (`connectors/ingest_ebay.py`) | counters of the run | one search: call, load the page, refresh or insert, commit; a run over all enabled searches | eBay client, `listing`, `saved_search`, `priceobservation` |
| Saved search routes (`api/routes/saved_searches.py`) | none | POST, PATCH, DELETE, each with checks before the write | `saved_search` |
| eBay client, backoff (`connectors/ebay.py`, `systems/ratelimit.py`) | OAuth token and its expiry | search, get_item, get_rate_limit, retries | eBay |
| Sale scoring (`connectors/sale_confidence.py`) | none | find_relist, score_sale | `listing`, called by the check |
| Scheduler, queues, workers (`systems/scheduler.py`, `queue.py`, `rqworker.py`) | last_run per task, error count; RQ queues and the heartbeat in Redis | poll, enqueue unless queued, run one job at a time | Redis, all jobs |
| Embedding (`ml/embed_listings.py`, `ml/embeddings.py`) | none | read ids and photos, embed, write with retries | `listing`, ML queue |
| Captures (`connectors/capture.py`, `api/routes/capture.py`) | none | upsert a captured page, enqueue embedding, match | `listing`, ML queue |
| Matching and valuation (`ml/match.py`, `ml/similar.py`, `ml/valuation.py`) | none | nearest neighbours, comps, weighted median, deal score | `listing` |
| Deal scan and alerts (`systems/deal_scan.py`) | cached deals, scan time and alerted ids in Redis | scan, cache, post to Discord | valuation, Redis |
| Watchlist (`api/routes/watchlist.py`) | `watchlistitem` | add once, note, delete | `listing` |
| Preflight (`systems/preflight.py`) | none | refuse to run against a newer schema | every job |
| Extraction (`ml/extract.py`, `ml/extract_listings.py`) | none | attributes from titles, categories and aspects; the same for the whole corpus again | ingestion, check, captures of new listings |
| API key, listing routes, extension, frontend, migrations | none of interest here | | |

There is one scheduler, one worker on the main queue and one on the ML queue;
the main worker runs ingestion, checks and deal scans one after the other, so
these never overlap *as deployed*. The README asks for "exactly one of each"
because they do overlap when an ingest is started by hand (`python -m
connectors.ingest_ebay`) or an old worker is left running. API requests run in a
thread pool beside everything else.

### What makes each component correct, and what makes it hard

* **Listing rows.** A sale needs two consecutive misses; a sale is final; a
  sighting cancels a strike; retirement hides only what is long unseen. Hard,
  because both jobs are long read-modify-write transactions around network
  calls: they can be cut short by quota, rolled back by one bad item, die half
  way, or decide on copies that are stale by the time they commit.
* **The check budget.** Every listing out of search coverage must come round.
  Hard, because second strikes jump the queue, quota cuts the batch anywhere,
  listings leave and return, and one exception undoes a whole pass.
* **Saved searches.** What is enabled must fit the daily allowance. Hard,
  because routes check and write in separate statements, and a run keeps using
  the list it loaded while the routes change it.
* **Runs.** One failing search must not take the others with it, and a fault
  common to all must still be heard.
* **Queues.** No job piles up and none is starved, through Redis outages,
  restarts and lost enqueues.
* **Embedding.** A vector belongs to the photo the row has now, and every row is
  embedded at last, though captures replace photos at any time.
* **Extraction.** One listing is one working product or it is no comp. Hard,
  because a dozen rules read the same few words, each with a guard against the
  others' false alarms, and sellers write a kit and a list of variants alike.
* **The row as others write it.** A classification belongs to the title beside
  it, and what was learned once is not blanked. Hard, because five writers
  refresh different columns from different sources, some of them from copies.
* **Scoring and valuation.** Doubtful sales never become comps, and the scan
  finds every deal it could. Boundary arithmetic, a weighted median, and relists
  looked up in a session that does not see the pass it serves.
* **The allowance.** A pass leaves ingestion its reserve. Hard, because a call
  may be attempted five times, with a token that was taken before the first.
* **Alerts.** A deal is announced once, and the feed knows its age. Hard,
  because message, marks and keys are written one after the other and Redis may
  forget any of them.

`PROJECT.json` lists each hazard with the line where it bites and the properties
that cover it.

## Modules

| Module | What it is |
|---|---|
| `ListingContract` | Abstract: the phases of one listing and the moves between them |
| `ListingLifecycle` | Detailed: rows, the check and the searches as transactions with stale copies |
| `StrikeHistory` | `ListingLifecycle` with history variables for "consecutive" and "lost news" |
| `OverlapHistory` | `ListingLifecycle` with history variables for copies that are out of date |
| `ListingLifecycleProofs` | Theorems about `ListingLifecycle`, `StrikeHistory` and `OverlapHistory` |
| `CheckRotation` | Whose turn it is in the check, with time abstracted to an order, for liveness |
| `CheckRotationProofs` | Theorems about `CheckRotation` |
| `SavedSearches` | Routes against the table of saved searches, and the ingest run |
| `MCSavedSearches` | Symmetry for TLC |
| `SavedSearchesProofs` | Theorems about `SavedSearches` |
| `JobQueue` | The scheduler's loop, the enqueue helpers, the two queues and their workers |
| `JobQueueProofs` | Theorems about `JobQueue` |
| `EmbedQueue` | Composes `JobQueue` with the captures that ask for embedding and the job that does it |
| `MCEmbedQueue` | Task tables and symmetry for TLC |
| `EmbedQueueProofs` | Theorems about `EmbedQueue`, the first that it implements `JobQueue` |
| `Columns` | NULL, and the first of several values that is not |
| `Extraction` | From the phrases in a title to the extracted columns, as operators |
| `SaleScoring` | The two confidences of a sale and the search for a relist, as operators |
| `Valuation` | Comps, the estimate, deals and matches, as operators on the table |
| `Evidence` | A small state machine that reads titles, and one that sells listings, over those operators |
| `MCEvidence` | Titles and listings for TLC |
| `EvidenceProofs` | Theorems about `Evidence` and the operators below it |
| `ListingRow` | One listing's columns and price history under every writer |
| `Watchlist` | Composes `ListingRow` with the watchlist routes |
| `MCSessions` | For TLC: one listing under sessions side by side, its columns in one half and its status and clocks in the other |
| `WatchlistProofs` | Theorems about `Watchlist` and `ListingRow` |
| `CallBudget` | Calls, attempts, tokens and the allowance of the jobs that call eBay |
| `DealAlerts` | The deal scan's keys and message, and a reader of the feed |
| `MainWorker` | Composes `CallBudget` and `DealAlerts`: one worker, one job at a time |
| `MainWorkerProofs` | Theorems about `MainWorker` |

### ListingLifecycle

`rows` is the listing table of the one polled source, cut down to status, the
three clocks and `missing_since` (NULL is `Never`, before every time, which is
what NULLS FIRST and `IS NULL` make of it). `market` is what is true on eBay.
`jobs[s]` is what process `s` is doing: its stage in the code, the time it took
as `now`, and the rows it loaded.

* A pass of the check is `StartCheck` (select what to retire), `RetireStale`
  (commit it, a transaction of its own), `LoadCandidates` (quota, order, limit),
  one `ItemAnswered` per call, and `CommitCheck`, which applies `Judge` to every
  row it asked about. `QuotaRunsOut` ends the loop and keeps the answers;
  `ItemFails` is any other exception and rolls the pass back.
* A search is `StartSearch` (the call; the hits are any live listings),
  `LoadPage` (one query) and `CommitSearch`. `FailSearch` is the exception that
  `ingest_all` swallows, a violated unique key among them.
* `Merge` is SQLAlchemy's unit of work: a commit writes the columns whose value
  differs from the one loaded. The rest of the row keeps what the database
  holds, which is why overlapping jobs mix columns rather than rows.
* `Crash` loses an open transaction. `AnswersFor` lets a live listing read as
  ended when blips are on: `listing_has_ended` names temporary OUT_OF_STOCK.

`OverlapHistory` adds two history variables for processes that overlap: `behind`
has what other jobs committed since a job read its copies, and `raced` the
listings whose row was written from such a copy, until a search that is up to
date writes it again.

Left out here: prices, observations, the extracted attributes and enrichment,
which `ListingRow` has, and the score of a sale, which `SaleScoring` has. None
of them feeds back into status or clocks. READ COMMITTED is modelled as one
snapshot per query and a commit that is atomic; row locks are not, since a job
writes its rows only in its commit's flush. (A search's flush of an insert
happens before its commit; nothing else sees it until then.)

### CheckRotation

The same order and the same passes, without clocks: `rank` is the dense rank of
`last_checked_at`, so the state space is finite and liveness can be checked
without a bound on time. Searches are reduced to what they do to the rotation
(`Leave`), and a listing drops out of coverage by `Lapse`. The order's last key,
`last_seen_at`, is a free choice among equals. `overtaken` is a history
variable.

### SavedSearches

Each request of the API is a thread that reads in one step and writes in another
(`Post` or `PatchEnable`, `Count`, `Insert` or `Enable`). The budget is
`estimate_daily_calls` with its rounding. The ingest run lists what is enabled
when it starts and then calls each search, whatever the routes do meanwhile.
`wasted` is a history variable. `last_run_at` and `last_result_total` are
abstracted away: an UPDATE of these two columns cannot touch the switch. The
seed migration is not modelled; the table starts empty.

### JobQueue

`at` is the scheduler's place in its task table, `elapsed` the age of each
`last_run` in polls (it stops counting where `due` stops caring), `queue` and
`running` what waits and what runs on each RQ queue. An enqueue helper is two
steps, because it is two round trips to Redis: `Count` looks for a waiting job,
`Push` adds one, and anything may happen in between. `Raises` is either Redis
being down or a push whose reply is lost after it took effect: to the caller the
two are one exception. The scheduler then leaves `last_run` alone and goes on to
its next task.

`queue` and `redis` are RQ and Redis as this code uses them: one worker takes
the jobs of a queue in order; a job that raises, that times out or whose worker
dies is not run again (nothing here asks RQ for retries); after an outage Redis
has its data or nothing. `last_run` lives in the process, so a scheduler that
restarts finds every task due. What a job does is left to the modules that
extend this one; `Start` and `Finish` bracket it.

Left out: the heartbeat and `consecutive_errors`. They decide nothing in the
loop. Polls stand for 30 seconds each; a poll that takes longer, so that `due`
comes true earlier, is a longer poll here.

### EmbedQueue

`table` holds what is told apart about a row: its photo, whether `embedded_at`
is set, and its vector. A photo stands for a whole list of images with its own
first one, and its vector is the photo itself, so "the vector of this row's
photo" is an equality. Capture requests run in API threads:

* `LoadCapture` reads the row. `InsertCapture` or `UpdateCapture` commits:
  `Merged` again is SQLAlchemy writing the columns that differ from those it
  loaded, so `embedded_at = None` on a row that was pending when loaded is not
  written at all. `RefuseCapture` is the unique key.
* `RefreshCapture` reads the row back, and what it finds decides whether a job
  is asked for. `Ask` is `enqueue_embed_pending` with its `except`.
* A job is `StartJob`, then `ReadChunk` (ids in order, photos read, session
  closed) and `WriteChunk` (stamp every row, a vector where there was one) until
  nothing is pending or the limit is used up, and `FinishJob`. A write that is
  undone by a deadlock and tried again is a later `WriteChunk`, since the rows
  are fetched anew; after four attempts the job dies, which is `KillJob`.
* `IngestAdds` is an ingest, by job or by hand, committing one new listing. It
  is the other producer of pending rows and never touches the photo of a row it
  knows.

Only one worker listens to the ML queue, as deployed. The table may start as any
table at rest. `raced` is a history variable: the captured listings on which an
update met a row other than the one it loaded, or a job under way.

### Extraction

A title is what the regular expressions find in it: `t.says` is the set of
phrases that match, one phrase per expression (`Phrases`), and the other fields
are what is read out, such as counts, capacities, kits and product names. A
category is the set of classes its name falls into. Everything `extract_variant`
then does with these findings is here: which rule goes first, which guard
silences which rule, what a category overrides. Which strings an expression
matches is not, nor are the signals, which explain a decision to the reader and
decide nothing.

### SaleScoring and Valuation

Operators on rows. A confidence is an integer over `One` = 40000, the smallest
scale that makes every product of the multipliers exact, so that 0.75 * 0.4 is
the gate of 0.3 and no rounding hides it. In Python the product lies just above
it, and passes as well. `Relists` is `find_relist`'s query, which asks both that
the other listing is not sold and that it appeared within the grace window; its
docstring says "or".

`FindSimilar` is `find_similar_to_vector`: the `k` nearest of the rows that pass
the filters, where the ids stand for the order of the distances. That the
nearest are taken before the sold ones are kept is the code's, and kept.
`WeightedMedian`, `Confidence`, `IsDeal` and `DealCandidates` follow
`ml/valuation.py`, `MatchedFrom` the three ways of `ml/match.py`. `FindDeals` is
every deal among the candidates: that `find_deals` can stop the scan after
`scan_limit` of them and returns the `limit` best is left out, so what is said
about it is said of the narrowing alone.

### Evidence

Gives the operators states to be checked in. A behaviour either reads one item,
or begins with an empty table to which listings are added and of which every
pass may confirm any set as sold. `ConfirmSales` scores all of the set against
the table as it was before the pass: `find_relist` opens a session of its own
and does not see what the pass has not committed. `twinned` is a history
variable.

### ListingRow

`table` holds the row of one listing: title, aspects, category (`filing`, which
stands for category and condition), what was extracted, price, shipping, the
strike and whether it is sold. `obs` is its price history. The extracted columns
are represented by the triple they were extracted from, so "this classification
is that of this title" is an equality.

Each writer is a session that reads the row (`StartSearch`, `StartCheck`,
`StartCapture`, `StartExtraction`, with what it was shown) and commits later
(`CommitSearch` and so on, or `Abort`); `Merge` writes the columns that differ
from its copy. Up to two are open at a time, of any kind: an ingest by hand
beside the worker, captures in threads of the API, a re-extraction of the
corpus. A listing is eBay's or a captured one; searches and checks concern the
first, captures the second. `lag` is a history variable that says whether the
last writer of the extracted columns could have known better.

### Watchlist

Extends `ListingRow` with the watchlist item of the listing. A request is a
thread that reads (`ReadForAdd`, `ReadForChange`) and then writes (`Add`,
`Annotate`, `Remove`); `Add` needs the unique constraint to hold (`TakesOne`)
and fails otherwise. A note is not part of an item, since nothing reads it.

### CallBudget

`remaining` is eBay's meter. A job is a pass of the check, which learns the
quota first (`LearnQuota`, or `QuotaUnknowable`, where `get_rate_limit` raises
instead of answering None), or an ingest run. A call takes its token
(`StartCall`), then makes up to five attempts: `Answered`, `Fails` (retried with
the delays of the backoff; eBay may have counted the attempt), `Refused` (error
2001), `Lapsed` (a 401 for a token that expired) and `Rejected` (any other
error). `again` counts what was metered at attempts after the first. Time exists
as the seconds the call's token has left. A failed attempt takes any time of
`Durations`: httpx's timeout of 30 seconds is per phase and per read, so it
bounds neither an attempt as a whole nor what a slow 5xx takes.

Other spenders of the same allowance, such as an ingest by hand during a pass,
are left out. They would take from the reserve what they like; the reserve is
there for them.

### DealAlerts

One action per command to Redis: the deals are set, then the time, then the ids
in the alerted set are looked up, the message is posted, and each fresh deal is
marked. A deal is a number, its rank in the order in which `find_deals` returns
them. The ranks are the same in every scan, a simplification: the code computes
each score anew, so who stands behind whom may differ from scan to scan, and
"better" below is to be read as of one scan. A message names the first of the
fresh deals: at most `MaxAlerts`, fewer when its text is cut to 1900 characters.
`ReplyIsLost` is a message that
arrived though httpx reports an error. Both keys have a time to live of their
own; `RedisForgets` takes everything. The reader is `GET /deals`, which reads
the time first. `told` and `faults` are history variables.

### MainWorker

The main queue's worker runs one job at a time, so a pass, a run and a scan
never overlap. `CallBudget` and `DealAlerts` share nothing else, so each is seen
while the other rests (`BudgetRests`, `AlertsRest`); the product of the two
would show nothing more.

## Runs

| Run | Asks | Result |
|---|---|---|
| `lifecycle` | Does the deployed system, one worker, keep the listing contract under every fault? | holds |
| `lifecycle_aborted_pass` | Does a sale take two misses in a row? | **violated**: a rolled back pass forgets that it cleared a strike |
| `rotation` | Is a waiting listing asked about, and overtaken at most twice by any other? | holds |
| `rotation_poison` | Does every listing of a steady rotation come round? | **violated**: one item that always raises stops all |
| `searches` | How far do concurrent requests overrun the limits, what does a disabled search still cost, is the alarm heard? | holds |
| `searches_alarm` | Is a run in which every search fails reported? | **violated**: the alarm needs a success |
| `embedding` | Do jobs keep their limit, and where can a wrong vector come from? | holds: only from an overlap |
| `embedding_jobs` | Through deaths, lost replies and outages: do jobs pile up, does every task keep running, is every listing embedded? | holds |
| `evidence` | Are kits, reduced machines and broken parts told apart; which sales become comps, what do they make of a price, which deals and matches follow? | holds |
| `rows` | Sessions side by side on one listing. Does its classification belong to its title, is anything learned forgotten, is the price history complete and free of noise; is a sale final, and where do a strike or a retirement hide a sighting? | holds |
| `operations` | What do retries cost, when does a token lapse, how old is the feed, how often and for what is a deal announced? | holds |
| `embedding_stale` | Does an embedded row show the vector of its photo? | **violated**: a re-capture during the job keeps the old photo's vector |

There is no run of `JobQueue` alone: `EmbedQueue` extends it, and its runs check
`JobQueue`'s properties with jobs that do something.

`EnabledFits` of `SavedSearches`, that the enabled searches fit the allowance,
is not in a run: two requests at a time violate it, which `OvershootBounded`
bounds, and with one it is the theorem `SingleWriterFits`.
`api/models.py:358-360` says that the routes refuse a search that would exceed
the allowance.

A behaviour of `rows` is in one of two halves, which share no variable: the
writers of the columns (`Watchlist`), or a check in the worker beside an ingest
started by hand (`OverlapHistory`). `KeepsContract`, `StrikeOutlivesNoSighting`
and `OneMissOnlyAfterLostNews` are about one worker and do not hold in the
second: the check may judge its copy of a strike that the search has cleared
since.

What the passing properties say:

* `SoldIsFinal`: no step of a check or of a search brings a sold row back, also
  where the search loaded the row before the check sold it. It takes that a
  commit writes the changed columns only; one that wrote its copy would undo the
  sale.
* `ClocksAdvance`: nor does either turn a clock of the row back that the other
  has moved since.
* `HiddenInSightIsRaced`: a retired row that a search has seen within the
  configured time was sighted beside its retirement, by a search that committed
  between the selection and the UPDATE, or one that had loaded the row before.
  Both happen: the UPDATE does not look again, and a refresh from an active copy
  does not write the status.
* `StaleStrikeIsRaced`: a strike older than the last sighting takes a check that
  judged a copy from before the sighting, or a search whose copy was from before
  the strike.
* `StrikeOutlivesNoSighting`: with one worker there is no such strike, so the
  second one is about something unseen since the first.
* `KeepsContract`: the refinement. `PhaseOf` maps a row to a phase; each step is
  a move of `ListingContract` or leaves every phase alone. In particular a sale
  is recorded only from a strike that an earlier pass committed, and a retired
  row that carries a strike comes back without it.
* `OneMissOnlyAfterLostNews`: the exact reach of the finding of
  `lifecycle_aborted_pass`. A sale after fewer than two misses in a row means
  that a job had learnt the listing alive and was rolled back.
* `NobodyOvertakesTwice`: the true bound on waiting. `ceil(N/B)` passes, which a
  comment claims, is not it even without faults, since second strikes go first;
  two turns per other listing is.
* `OvershootBounded`, `CopiesBounded`: with T requests at a time, the enabled
  searches exceed what fits by at most T - 1, and a keyword exists at most T
  times. With one request at a time, both limits hold.
* `OffCostsOneCallAtMost`: a search that is disabled costs the run in progress
  its call, and no later run.
* `MostFailedIsHeard`: the alarm works as documented as long as one search
  succeeded. (It is also quicker than documented: `searches_run` counts
  successes only, so a third of all searches failing is enough.)
* `JobsDoNotPileUp`: "unless one is already waiting" is checked and then acted
  on, so a task has at most as many waiting jobs as it has enqueuers: one for a
  task of the scheduler alone, one more per API thread for embedding. Lost
  replies do not add to it.
* `RunIsBackedByAJob`: the interval of a task starts again only while one of its
  jobs is waiting, so a failed enqueue never costs an interval.
* `TasksKeepRunning`: each task runs again and again, whatever failed before.
* `PendingIsEmbedded`: nothing stays pending for good, neither through a skipped
  or lost enqueue, a dead job and an emptied Redis, nor through photos that
  cannot be fetched. (A pending row may be stamped without a vector; that is the
  code's intention.)
* `MismatchIsRaced`: the exact reach of the finding of `embedding_stale`. A
  vector that is not of the row's photo, or one on a row that still waits, takes
  a capture that overlapped the listing's embedding or another capture of it.
  The second kind exists: of two captures that loaded the same pending row, the
  one that saves last after the job ran writes its photo and leaves stamp and
  vector.
* `TypeOK` of `EmbedQueue` bounds a chunk by what the job may still take.
* `KitIsOneOffer`: "2x16GB", "32GB (2x16GB)" and "32GB 2 x 16GB" are one offer
  of 32 GB, though they state two capacities and a list of variants is what
  states several.
* `MissingIsBareOrBroken`: "no GPU" makes a machine a bare one and leaves it a
  comp, while a component without its core is no comp. Three rules read these
  words, with one guard each.
* `RelistedIsNoComp`: no number of bids and no quick disappearance makes a comp
  of a listing whose photo was on another unsold listing at the time.
* `QuickSaleIsLostOnlyToATwin`: what that costs. A quick fixed-price sale is
  kept out only by an active listing with its photo. Such a one may be sold by
  the same pass, in which case each keeps the other out.
* `EstimateSplitsTheWeight`: the reference definition of a weighted median,
  stated without the order in which the code adds up.
* `KeyedDealsAreFound`: the scan looks only at listings that share a model or a
  catalogue id with something sold, to save queries; whatever has a model key
  and would be a deal is among them.
* `UnusableOnlyBySharedPhoto`: lots, broken things and accessories are in a
  match only by the photo, never by their vector or their catalogue id.
* `VariantIsCurrent`: the exact reach of three hazards. A classification belongs
  to the title, aspects and category of its row unless the last writer had an
  old copy, was shown a category that is not stored, or was a re-capture, which
  writes a title and extracts nothing.
* `KnowledgeStays`: no order of writers blanks shipping or aspects once they are
  known.
* `OnlyMovesAreRecorded`, `KeptPricesAreOnRecord`: the price history has every
  price that matters (what a sale was recorded at, what a watched item was added
  at) and repeats itself only for a capture without shipping or a session with
  an old copy.
* `ReserveIsLeft`: the reserve is short by what was metered at repeated attempts
  and by nothing else. A budget of calls is not a budget of attempts.
* `LapsesOnlyAfterSlowAttempts`: a token that is used until a minute before its
  end lasts for all delays of the backoff and 41 seconds of failed attempts. It
  may lapse after that, which ends the call in a 401 that is not retried; it
  does not take a timeout, three answers of 5xx after 20 seconds each will do.
* `FeedIsNoOlderThanItSays`: deals are of the scan the feed names or of a later
  one; writing the deals first and reading the time first are both needed.
* `RepeatsAreFaults`, `SilentOnlyForABetterOne`: a deal is announced twice only
  after a fault, and marked without being announced only behind a better one
  that was, for good: it is not announced later. Better is by ranks that stay.

### Bounds

* `lifecycle`: two listings, so that a pass can fail on one and lose its verdict
  on the other; `MaxTime` 3 with `StaleAfter`, `UnseenAfter` 1 and `ProvenAlive`
  0, so that a row can be inserted, struck, retired, brought back and sold
  within the clock; quotas on either side of `Budget + Reserve` and of zero.
  Jobs take no time unless `Tick` happens between their steps, and then any
  amount.
* `lifecycle_aborted_pass`: two listings and the two faults it takes.
* `rotation`: three listings and two calls, so that a batch leaves somebody out;
  two transient errors anywhere. `rank` needs no bound, being dense, and
  `overtaken` is cut off at 3, one above the bound it must keep.
* `searches`: four ids, two keywords, two threads, settings under which two
  searches fit, so that the overshoot (to three) and more than that are both
  possible, and so are runs with one success and two failures. An id is never
  reused, as in the database, so a behaviour creates at most four searches. The
  interval does not divide the day, so that the rounding of the estimate takes
  part.
* `embedding`, `embedding_stale`: two threads and two captures, for the overlaps
  are of two captures, or of a capture and a job; two photos and the empty list;
  one listing that is captured and one that an ingest adds, so that a chunk of
  two is a full one and `Limit` 2 leaves one for the second chunk. One task is
  enough here, and one fault.
* `embedding_jobs`: three of the four tasks, since `disappearance_check` is to
  the loop what `ingest` is: two share a queue, one has its own, and one is due
  every other poll. `Photos` is empty, because which photo it is makes no
  difference to whether a row is stamped. Chunk and limit are 1, so that two
  listings take two jobs. Two faults of any kind at any moment: an outage during
  which something else dies, or one that loses the queue after a reply was lost.
  No fairness is asked of faults, so all of them may also happen late.
* `evidence`: all sets of up to two phrases, of three where the third is a guard
  word, on eight classes of categories, since no rule reads more than two
  phrases and a guard; kits of one, two, four and nine modules (nine is no kit)
  with every way of writing the size out. Four listings of five kinds, so that
  three can be sold, more than `MinComps`, and one valued; neighbours are
  limited to three, so that one too many exists. A tick is 22 days, which is
  past the grace of 21.
* `rows`, columns: one listing, two sessions at a time, four transactions and
  two requests in a behaviour: two that add the item at once, or one that takes
  it off again; a first strike, the second, a search in between and one after
  the sale. Three offers with firm, guessed and no shipping, one of them in
  another category; three captures; two bodies and the 404.
* `rows`, status and clocks: one listing, one checker and one ingester, every
  fault, and the settings of `lifecycle` with `MaxTime` 4: three ticks for a
  strike, a sale or a retirement, the fourth for a sighting after it. Two
  ingests at once are left out: of two, the older may commit its `last_seen_at`
  last, and the copy one has of a retired row may meet the row after the other
  has brought it back and the check has sold it, which brings it back again.
* `operations`: six calls a day with a reserve of two and a budget of three, so
  that the configured budget, what is left above the reserve, and nothing at all
  all occur; an ingest of two searches. Attempts that fail at once, that take
  ten or eleven seconds (four of them stay within the margin, or do not),
  twenty, and one or two timeouts. Three deals, two in a message, so that one is
  left out; four scans, two faults.
* `wasted` is cut off at 2 and `misses` at 2, one above what the properties
  allow or need.

Deadlock checking is on except for `rotation` and `rotation_poison`, where
nothing is left to do when every listing is sold or out of the rotation, and for
`evidence`, `rows` and `operations`, whose behaviours end at the bounds on rows
and days, on transactions and requests, and on scans. The clock's bound stops
nothing in the other runs, since a job can always start.

### Fairness

`CheckRotation` and `EmbedQueue` state some; the other modules are checked for
safety only.

`CheckRotation`: weak fairness of `BeginPass`: the scheduler enqueues a pass
every interval forever and survives failing enqueues (`systems/scheduler.py`),
and the worker takes jobs in order. Weak fairness of a pass's own steps: every
call has a timeout and the job itself a timeout of an hour. Strong fairness of
asking: the daily window reopens, so passes that find quota left come again and
again; without it a pass might run out before its first item forever. Nothing is
assumed about searches, about eBay's answers or about which transient errors
occur, except that they are finitely many in the model (`MaxErrors`);
`rotation_poison` is what an error that never ends does.

`EmbedQueue`: weak fairness of the scheduler's steps (it loops forever; a dead
one is restarted, which `SchedulerDies` does at once), of `StartJob` for each
queue (its worker blocks on the queue), of `FinishJob`, `ReadChunk` and
`WriteChunk` (a job has a timeout of one or two hours and its network calls have
theirs), and of `RedisReturns` (an outage ends). Nothing is assumed of captures,
of ingests, or of threads of the API: a request may stop half way for good.
Faults are finitely many (`MaxFaults`); without that a worker could die in every
job.

## Proofs

`ListingLifecycleProofs` proves, for every number of listings and every setting:

| Theorem | Assumes | Says |
|---|---|---|
| `TypeCorrect` | | `Spec => []TypeOK`, any number of processes |
| `SalesAreFinal` | one checker, one ingester | `SoldIsFinal`, with the two overlapping at will |
| `WorkerCorrect` | one worker | `[](WorkerInv /\ TableInv)` |
| `ClocksNeverGoBack` | one checker, one ingester | `ClocksAdvance`, with the two overlapping at will |
| `StrikesOutliveNoSighting` | one worker | `StrikeOutlivesNoSighting` |
| `LifecycleImplementsContract` | one worker | `KeepsContract`, the refinement |
| `MissesAreLostOnlyInRollbacks` | one worker | `OneMissOnlyAfterLostNews` |
| `SalesTakeTwoMisses` | one worker, nothing raises and nothing crashes | `TwoConsecutiveMisses` |
| `SalesWithoutBlipsAreReal` | no live listing reads as ended | `[]SalesAreReal`, any number of processes |
| `HidingInSightTakesARace` | | `OSpec => []HiddenInSightIsRaced`, any number of processes |
| `StaleStrikesTakeARace` | | `OSpec => []StaleStrikeIsRaced`, any number of processes |

The assumptions `OneChecker`, `OneIngester` and `OneWorker` are about the
deployment, not about the code, and appear in the statements.
`SalesTakeTwoMisses` and `SalesWithoutBlipsAreReal` restrict `Faults` and so say
what each fault costs. `TwoConsecutiveMisses` is what `lifecycle_aborted_pass`
refutes; without the faults that undo a transaction it holds, blips and quota
included. And without blips no fault and no overlap of stale copies ever records
a sale of a listing that is up, so the second strike guards against misreadings
alone.

None of these properties is inductive: whether a commit keeps them depends on
the copies the job holds. Four strengthenings say what the copies are worth.
`OverlapInv`, for a check and an ingest that overlap: what the check holds as
active is active, for only the check retires and sells, and what a search holds
as stale is stale, for only a search brings rows back. So a commit never meets a
sold row it believes unsold. `WorkerInv`, for one worker: a job's copy *is* the
row, the job's `now` is not ahead of the clock, and no clock of a row is ahead
of the job's `now`. Together with `TableInv` (no columns before the insert, no
clock ahead of the wall clock) it is inductive, and each property follows from
one commit step at a time: `Merge` of a copy that is the row is the new value
itself (`MergeOwn`), and every row moves by a retirement, a judgement or a
refresh (`RowMoves`), each of which is a move of the contract. `ClockInv`, for
the overlap again: only the check writes `last_checked_at` and only the search
`last_seen_at`, so no clock a job writes is ahead of the job's `now`. `CopyInv`,
for any number of processes: what a job holds is the row and passed the test it
was chosen by, but for the listings in its `behind`. A commit of such a copy
keeps `RacesExplain` since the copy is current, and one of any other puts the
listing into `raced`.

`HistoryInv` accounts for strikes and answers. `StrikeInv`: a strike on an
unsold row stands for a miss, unless some job has learnt better or has lost what
it learnt. `AnswerInv`: an answer "ended" that waits for the commit is a miss,
and the second where the row is struck. `JobShape` says which jobs can have
answers at all. The commit of a pass is then the only step that records a sale
(`SaleIsConfirmed`), and `AnswerInv` has the two misses. `RealInv`, for the last
theorem, needs no assumption on the deployment: an answer "ended" is about a
listing that has ended, and stays true because ended listings stay ended, so it
does not matter how old the copy is that it is applied to.

`SavedSearchesProofs` proves, for every table, budget and number of threads:

| Theorem | Says |
|---|---|
| `SearchesTypeCorrect` | `Spec => []TypeOK` |
| `OvershootIsBounded` | `Spec => []OvershootBounded` |
| `CopiesAreBounded` | `Spec => []CopiesBounded` |
| `SingleWriterFits` | with one thread, the enabled searches never exceed what fits |
| `OffCostsLittle` | `Spec => []OffCostsOneCallAtMost` |
| `MostFailuresAreHeard` | `Spec => []MostFailedIsHeard` |

The invariant adds up what is in the table and what is pending, that is checked
and not yet written: `|Enabled| + |Pending| <= c + T - 1`. Inserting or enabling
moves one from the second count to the first. Only passing a check adds to the
sum, and at that moment `|Enabled| < c` while at most T threads are pending.
`OffInv`: a search that has cost a call since it was switched off is on no run's
list any more. `ReportInv`: the alarm of a run that is reported was computed
from the numbers it still shows.

`JobQueueProofs` proves, for every task table, every interval, every routing of
tasks to queues, any number of clients and any number of faults:

| Theorem | Says |
|---|---|
| `JobsTypeCorrect` | types, and that a queue holds and a worker runs only the tasks routed to it |
| `JobsStayFew` | `JobsSpec => []JobsDoNotPileUp` |
| `RunsAreBacked` | `JobsSpec => RunIsBackedByAJob` |

A bound on waiting jobs is not inductive, since a push does not look again. The
invariant counts those who are about to push: of each task, the jobs waiting and
the enqueuers that have counted together are at most the enqueuers. `Count`
needs that no job of the task waits, so before it the sum is at most the others
who have counted; `Push` moves one from the second number to the first;
everything else only lowers them. `SchedulerAsksInTurn` says that between count
and push the scheduler stays with its task. `Routed`, that a queue holds only
tasks routed to it, is why `queue.count`, on a queue with one task, asks the
same as `_already_queued`.

`EmbedQueueProofs` proves, for any listings, photos, chunk size, limit and
number of threads:

| Theorem | Says |
|---|---|
| `PipelineImplementsJobs` | `Spec => JobsSpec`: each step of the pipeline is a step of the job queue or leaves it alone |
| `PipelineJobsStayFew` | hence `[]JobsDoNotPileUp`, from the theorem about `JobQueue` |
| `PipelineTypeCorrect` | `Spec => []TypeOK` |
| `MismatchesAreRaced` | `Spec => []MismatchIsRaced` |
| `CapturesInTurnShowThePhoto` | if no listing is ever captured twice at once or while a job embeds it, `[]VectorShowsThePhoto` |
| `IngestedAreSafe` | `Spec => []IngestedShowThePhoto`: no listing of the searches carries the vector of another photo |

The invariant `RaceInv` says, of a listing nobody raced on, that its row is
consistent and that what a running job has read of it is still the row's photo.
An update of such a row either finds the row it loaded, and then clears stamp
and vector together, or it puts the listing into `raced`. Captures in turn are
captures for which the row is still what they loaded (`CopiesAreCurrent`), so
nothing is ever put there. `VectorShowsThePhoto` is what `embedding_stale`
refutes: the theorem says that the overlap is needed, and that deaths, lost
replies and chunks that are cut short are not enough. The assumption
`CapturesInTurn` is not one that the code ensures; a job holds a chunk for as
long as it downloads and embeds the photos.

`MainWorkerProofs` proves, for any allowance, reserve, budget, number of
candidates and searches, any deals and any number of scans and faults:

| Theorem | Says |
|---|---|
| `MainWorkerTypeCorrect` | `Spec => []TypeOK` |
| `ReserveHolds` | `Spec => []ReserveIsLeft` |
| `LapsesTakeSlowAttempts` | `Spec => []LapsesOnlyAfterSlowAttempts` |
| `FeedIsHonest` | `Spec => []FeedIsNoOlderThanItSays` |
| `RepeatsTakeFaults` | `Spec => []RepeatsAreFaults` |
| `SilenceIsForABetterOne` | `Spec => []SilentOnlyForABetterOne` |

None of the last five is inductive. `ReserveInv` keeps a balance: what is left,
and what repeats cost, cover the reserve and every call still to be made, one of
which the call in progress may already have paid for with its first attempt.
`LapseInv` adds up where the token's seconds went: the delays, a second of
jitter on each, and what the attempts took. `FeedInv` orders the numbers of the
scans through every step of the write and of the read: while a scan is between
its two writes, the deals are ahead of the time. `AlertInv` says of each deal
that what it was told, less one if it is marked or about to be, is covered by
the faults; and that what is posted or marked and was never told has a better
one that was.

`CheckRotationProofs` proves, for any number of listings, any budget, and
whatever raises, runs out, lapses or returns:

| Theorem | Says |
|---|---|
| `TurnsAreFair` | `Spec => []NobodyOvertakesTwice` |

`TurnInv`: who has had a turn since the watched listing's last one ranks behind
it, and who has had two has no strike pending. So only a strike gets a listing a
second turn first, that turn settles the strike one way or the other, and there
is no third. What a pass may ask before the watched listing depends on how its
batch was chosen, several steps earlier: `BatchInv` carries it to the commit,
which needs that ranks and strikes stand still while a pass runs.

`WatchlistProofs` proves, for any number of sessions, requests and
transactions, and whatever is shown of the listing:

| Theorem | Says |
|---|---|
| `WatchlistTypeCorrect` | `Spec => []TypeOK`: one row and one item, whoever overlaps |
| `VariantsAreCurrent` | `Spec => []VariantIsCurrent` |
| `PricesStayOnRecord` | `Spec => []KeptPricesAreOnRecord` |
| `NothingIsForgotten` | `Spec => KnowledgeStays` |
| `HistoryHasNews` | `Spec => OnlyMovesAreRecorded` |
| `SessionsInTurnRecordEveryMove` | if no two sessions are open at once, `[]HistoryEndsAtTheRow`: the last entry is the row's cost, or its price where captures write |

The four kinds of session differ in what they make of the copy they loaded and
commit alike. `Sound` is what all of them keep to, in terms of that copy alone:
shipping and aspects that the copy has stay, a changed price is observed, the
extracted columns are read again or neither they nor their texts are touched.
That each kind is sound is one lemma each; what a sound commit does to a row
that has moved on is one lemma for all. It needs that what the copy of an open
session knows the row still knows (`SessionInv`), and that the price of the row
is in the history (`HistoryInv`). `WatchInv` adds that a request to add carries
a price that is on record.

`OnlyMovesAreRecorded` says that the history has no noise;
`SessionsInTurnRecordEveryMove` is the converse, that it misses nothing, and it
takes sessions in turn. Two that overlap each compare with a copy of their own:
one search adds shipping, another with an older copy then moves the price, and
its entry has the new price without the shipping the row has. Captures are
excepted even in turn, since they record the shipping they were shown, which may
be none, while the row keeps what it had.

`EvidenceProofs` proves, for all titles, all rows, any size of the table, any
`SearchK` and `MinComps` and any pace of the clock:

| Theorem | Says |
|---|---|
| `EvidenceTypeCorrect` | `Spec => []TypeOK`: stored scores are positive and at most one |
| `KitsAreOneOffer` | `Spec => []KitIsOneOffer` |
| `MissingIsRead` | `Spec => []MissingIsBareOrBroken` |
| `RelistsValueNothing` | `Spec => []RelistedIsNoComp` |
| `QuickSalesCount` | `Spec => QuickSaleIsLostOnlyToATwin` |
| `KeyedDealsSurviveTheScan` | `Spec => []KeyedDealsAreFound` |
| `UnusableTakesThePhoto` | `Spec => []UnusableOnlyBySharedPhoto` |
| `EstimateIsTheMedian` | `Spec => []EstimateSplitsTheWeight` |
| `OutliersStayOutliers` | `Spec => []OutliersDoNotDecide`: comps with less than half of the weight do not take the estimate beyond the prices of the rest |
| `DealsAreDeals` | `Spec => []DealsUndercutMostComps`: a deal is a fifth cheaper than comps with more than half of the weight |
| `GateIsExact` | `Spec => OnlyRelistsAndBidlessAreKeptOut`: exactly the relisted and the auctions without a bid fall short of the gate |

`TableInv` bounds every score. A product of factors is bounded factor by factor
(`FactorsAreBounded`): the relist comes first and leaves less than the gate
whatever follows, since no factor raises a score; without a relist a quick sale
keeps more than the gate. `TwinInv` carries this from the commit that scored a
sale to every later state. `ReadInv` says that what was read is the function of
the item, so the theorems about titles are theorems about `ExtractVariant`,
taken apart rule by rule (`KitIsRead`, `AbsenceIsRead`). The attempt to prove
the first showed that "one kit" must be of a plausible total: beyond it
`_kit_capacities` reads no kit and the capacity is not the kit's total.
`StatesOneKit` says so now.

`EstimateIsTheMedian` adds weights up over sets of comps. `TotalWeight` is a
fold, that is a recursive function, and TLAPS knows of one only that it
satisfies its equation if anything does. That something does is proved by a
smallest counterexample (`WFMin` over sizes of sets): were no function right for
all sets up to some size, one that is right for the size below could be taken
further by the equation itself (`SomethingAddsUp`). That more comps weigh more,
and that a part and the rest weigh what the whole weighs, follow from smallest
counterexamples again. `ByPrice` is defined by rank, as the sequence that has
each comp where the number of those before it says, ties in the order of their
distances, in which the code's stable sort leaves them; that ranks are the
numbers below the size of the set, each taken once, is `RanksAreNumbers`. The
estimate is then the first price at which the weight so far reaches half,
everything cheaper comes before it, and nothing before it is dearer.
`WeightedMedianSplits` says so of any rows with prices and positive weights, and
the two theorems after it are what it is for: "a mean would chase" outliers
(`weighted_median`), this does not, and a deal undercuts most of the sales it is
compared with.

`GateIs` takes the product of `score_sale` apart once more, now for both sides
of the gate: 0.75 * 0.4 for a listing that ran to its published end is the gate
itself and passes, 0.75 * 0.5 for a standard term passes, and 0.75 * 0.05 * 1.2
is the most an auction without a bid can have. Such an auction is the one thing
besides a relist that is no comp.

The modules assume of their constants what the input cannot fail to be:
`ListingRowAssumption` that prices and shipping are numbers and NULL is none;
`EvidenceAssumption` that counts, sizes and aspects are, that NULL is no
completeness either, and that listings have a price and either a shipping cost
or NULL.

## Only model-checked

* Liveness: `WatchedComesRound`, `TasksKeepRunning`, `PendingIsEmbedded`. They
  rest on fairness, which the provers here do not reach.
* The violated properties, of course, where no theorem says what they need.
* `Confidence`, which decides with the estimate whether something is a deal, is
  computed with `SortSeq`, of which the provers have no definition; the theorems
  hold whatever it is.

## Not modelled, and why

The regular expressions themselves, that is which titles match a phrase:
`Extraction` begins where they end. Image hashing, the HTTP layer and the
parsing of aspects and dates are I/O and data; the API key is a stateless
comparison; listing routes only read; extension and frontend are user
interfaces; migrations run offline. The preflight refuses to start a job, which
every model allows a job to do.

## Plan

The lifecycle of a listing, the rotation, the searches, the queues, embedding,
scoring and valuation, the allowance, alerts and the watchlist are modelled, and
every safety property of the runs is a theorem. What is left, in this order:

| Where | What | Properties, theorems |
|---|---|---|
| `SavedSearches` | the job timeout that a search's `except` swallows, and the ceiling the route reports | a run outlives its timeout by how much |
| `JobQueue` | the heartbeat with its expiry, `consecutive_errors` | how long a dead scheduler reads as alive, whether a task that always fails shows |
| `Evidence` | a scan that spans changes of the table | which price a deal is shown with |
