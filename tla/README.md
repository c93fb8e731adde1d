# Geolink in TLA+

Specifications of the parts of Geolink where order, concurrency and failure
decide what is correct, with TLC runs on small instances and TLAPS proofs about every
module that has a run. Every definition is translated from the
source; where the program relies on Redis, Kafka, Typesense, PostgreSQL or the
browser, the module says so and `PROJECT.json` marks the definition external.

## 1. The system

    browser ── GET /search, /recommendations ──► API ──► Typesense
       │                                          │ └──► Redis (cache, limiter, toggles, profiles)
       └── POST /events/search ──► API ──► Kafka search.queries ──► personalizer ──► Redis (profiles)
    bulkimport (a one-shot Job) ──► PostgreSQL and Typesense

| Component | Code | State it keeps | Operations | What is hard |
|---|---|---|---|---|
| Personalizer | `cmd/personalizer`, `internal/kafka/consumer.go` | position in the group, message in hand | read, decode, update the profile, commit | crash between update and commit; rejoin under the loop; commit after a refused update; cancellation |
| Profile store | `internal/personalization/profile.go` | four Redis keys for each IP | UpdateProfile, GetProfile, ResetProfile | a pipeline is not a transaction; re-sending; expiry; limits at zero |
| Event producer | `internal/kafka/producer.go`, `RecordSearchEvent` | queues and batches of the writer | Produce, Completion, Close | asynchronous retries, lost acknowledgements, flush at shutdown |
| API process | `cmd/api` | serving or shutting down | SIGTERM, Shutdown, deferred Close | a handler that outlives the five seconds |
| Rate limiter | `internal/api/middleware/ratelimit.go` | `velocity:ip` and its TTL | one Lua script for each request | handlers acting on old replies; re-sent scripts; window boundaries |
| Search cache | `internal/api/handler/search.go` | `cachedSearchResult` entries | GET, search, SET | a slow handler's SET over a newer answer; TTL 0 |
| Router, middleware | `internal/api/router.go`, `internal/api/middleware` | none | preflight, address, admin key, limiter, handler | a check that answers and does not abort |
| Personalized search | the same, `toggle.go` (both) | toggles, and no state of its own | two GETs, four reads, a second search, Rerank | changes between any two reads; swallowed errors |
| Toggles, profiles | `handler/toggle.go`, `handler/analytics.go` | none of their own | SET, DEL, GetProfile | a lost reply and a second SET or DEL; a profile read in half |
| Health | `handler/health.go` | three statuses | three goroutines, wg.Wait | services that go and come back meanwhile |
| Ranking | `internal/search/reranker.go`, `search.go` | none | dominantCountry, merge, Rerank | limits, duplicates, ties, weights |
| Recommendations | `internal/api/handler/recommendations.go` | two sections | two goroutines, wg.Wait, fallback | any call may fail silently |
| Bulk import | `cmd/bulkimport` | data file, table, indexes, collection | scanner, channel, workers, rebuild | goroutines sharing a buffer and a channel; kills; UNLOGGED tables |
| Web page | `frontend/index.html` | query, page, results, selection, timer, flags | input, keyboard, paging, toggle, reset | answers in any order; timers; flags held across an await; rows and results replaced at different moments |
| Rest | config, db, request id, access log, labels of features, k8s | none, or constant | | not modelled, see section 8 |

Components share three things: the topic (producer and consumer), the profile
keys (consumer, resets, search, recommendations) and the index (import and
search). `EventPipeline` composes the first; `Personalizer` and `Api` hold the two
sides of the second; `SearchCache` has the third as a version number.

What makes each correct, in a sentence: the personalizer commits nothing it has
not settled; a profile's counters contain what was committed; a recorded click
does not vanish; a client is neither refused without reason nor let through
without bound; a cached answer is not too old; what the API answers was so at some
moment of the request, and what it refuses has no effect; a page stays full, and
the pages skip none of the places they prefer; a client is not left empty-handed;
an import that says it is complete is; what is selected is what the row shows.

## 2. Modules

`MC<module>` defines the values of the instances. The other modules:

| Module | Models | How state and actions correspond |
|---|---|---|
| `Profile` | the commands of `UpdateProfile` and what Redis does with them | `UpdateCommands(e)` is the pipeline in its order; `Execute` runs one command on a record of three hashes, a list and the set of keys with an expiry |
| `Personalizer` | `cmd/personalizer/main.go`, `consumer.go` | `pc` is the place in the loop, `hand` is `msg`, `pos` the reader's position, `committed` the group's; `Fetch`, `RunCommand`, `UpdateDone`, `GiveUp`, `Commit`, `Stop` are the loop, one Redis command to a step; `Crash`, `Sigterm`, `Rejoin`, `Resend` the faults |
| `EventLedger` | the promise: settle before commit | four variables; `Personalizer` implements it with an identity mapping of `log`, `committed`, `counted`, `refused` |
| `EventProducer` | `RecordSearchEvent`, `producer.go`, shutdown in `cmd/api/main.go` | `Produce` and `Answer` are two steps, between which the process may end (`"cut off"`); `queue`/`batch`/`attempts` are the writer's, by partition; `server` is serving, draining (Shutdown), closing (the deferred Close), down |
| `EventPipeline` | both on one topic | `log` is the topic with each request replaced by its event (`INSTANCE ... WITH`); the two `Next` relations interleave |
| `RateLimit` | the middleware and its script | `count`/`ttl` are the key, `step[r]` the handler; the script is one action, as Redis runs it |
| `FixedWindow` | the promise: at most `Limit` grants from a window's opening to its end | `Granted` (the counter capped at the limit) and `ttl` refine it |
| `SearchCache` | the non-personalized half of `Search` | `pc[h]` runs get, search, set, answer; an answer is the version of the index it was read from |
| `Api` | router, middleware and the handlers that read or write toggles and profiles or probe the services | `run[h]` is the handler's place and its local variables, one action for each command it sends; `off`, `history`, `down` are what it shares with other replicas, the personalizer and the services; `seen[h]` remembers what held at some moment of the request |
| `Ranking` | `dominantCountry`, the merge, `Rerank`, over the pages of one search | each request of the instance is an initial state, `NextPage` continues it; signals are whole numbers, in 1/10000 of `1/Unit`; `answered` holds the pages shown |
| `Recommendations` | the handler and its goroutines | `history` and `nearby` are the goroutines' places; `faults` is the set of calls that failed |
| `BulkImport` | `cmd/bulkimport` | `pc` is main's place; `scanner`, `buf`, `channel`, `worker[w]` the load; `disk`, `tail`, `schema`, `table`, `logged`, `indexes`, `collection`, `docs` survive a kill: `tail` is what a cut left of the file's last line, `schema` the version of the migration |
| `Frontend` | the page's script | a step is one run of the event loop up to its next await; `inFlight` are the requests; the variables have the script's names (indexes count from 1, 0 stands for -1) |
| `PersonalizerProofs` (and the lemmas about `Profile`), `EventProducerProofs`, `EventPipelineProofs`, `RateLimitProofs`, `ApiProofs`, `BulkImportProofs`, `FrontendProofs` | | theorems about the module of that name, section 6 |
| `SearchProofs` | | theorems about `Ranking`, `SearchCache` and `Recommendations`, which it extends together: what a client is shown of the index. The specifications of the last two are therefore called `CacheSpec` and `RecSpec` |

An operator whose comment begins "What if" is a plausible bug, used to see that
a property can fail: `PROJECT.json` pairs each property with one of them.

## 3. Runs and what they show

There is one run for each module, and three for the personalizer: one for faults
of every kind, one for the faults under which the documented promise holds, one
for the fault that breaks it. `TypeOK` is checked in `Personalizer`, and proved for
every module that has one. `CommittedIsSettled` is proved; it says in one state what
`ImplementsLedger` says of the steps.

| Run | Shows | Instance |
|---|---|---|
| `Personalizer_faults` | no commit past an unsettled message, by way of the ledger, which is implemented; counters contain what was committed since the last reset, and without faults nothing from before it; the recent list is bounded; no key without an expiry once an update has come through | 3 messages of 3 kinds (two searches, one without an address), 2 faults of any kind, 1 re-send, 1 reset or expiry |
| `Personalizer_redeploy` | crashes, redeployments and rebalances lose nothing and move no commit back; the group catches up for good | 2 partitions, 2 messages each, 2 faults |
| `Personalizer_redis_down` (violation) | an update fails, the next commit passes it; it is not "retried on restart" | 1 partition, 2 messages (a search, a value that does not decode), 1 broken connection |
| `EventProducer_events` | recorded events do not vanish and reach the broker, the log or a crash; requests answered with an error leave nothing; order in a partition | 3 requests, 2 partitions, 2 attempts (the code's third repeats the second), any number of crashes and restarts |
| `EventPipeline_clicks` | what the user was told is what the counters say, up to logged losses; overcounting bounded; the click is settled | 1 click and its copies, 2 attempts, 2 faults of the personalizer, crashes and restarts of the API, 1 reset or expiry |
| `RateLimit_window` | no immortal counter; bursts below two limits; no refusal without reason; refusals end; a fixed window | 3 handlers, window 3, limit 2, 2 faults |
| `BulkImport_job` | each record is in one place or in both stores; "complete" means that the published file is loaded and a line that is too long failed the run, after a kill during the extraction excepted; restarts repair, but for three states in which every run fails (`Unrepairable`) | 10 lines with or without one that is too long, with or without a file, a table and a collection, batches of 2, 2 workers, 4 choices of flags, 2 runs, 1 fault of any kind |
| `SearchCache_stale` | entries expire, and answers are not too old, also when a SET overtakes another or an entry is hit again; staleness ends | 2 handlers, 2 keys, TTL 2, lag 1, 2 imports, 1 fault |
| `Api_requests` | a search is personalized for a reason, or plain for one; profiles, resets, toggles and errors are answered truthfully; what is refused changes nothing; health reports what was so | 1 handler (handlers meet only in Redis), 22 requests of all routes, 2 addresses, 2 profile keys, 1 service down at a time, any number of changes |
| `Ranking_pages` | pages stay full; preferred places are neither skipped nor, others, repeated; population only breaks ties | 3 countries of which one is in the table of continents, 8 places, counts to 2, limits 1 to 4, 3 pages |
| `Recommendations_sections` | no section is lost and nobody is left empty-handed while there is a town large enough for the fallback; the history's section is full and in order | 4 countries of 0 to 3 towns, with or without one of more than 500 000 inhabitants, counts at the threshold, limits 3 and 26 (for which 8 is served), any calls failing |
| `Frontend_session` | rows, selection by mouse and keyboard, spinner, paging under answers in any order; the page settles on the box | 5 user events, 2 queries of 3 pages and 1 |

### Disagreements noticed while modelling

Besides `Personalizer_redis_down`, which has its run, the repository's words and
its code differ in these places. No property claims the words, and no run checks
them; each is the reason for the form a property has.

- `README.md:403` says that the personalizer updates its four structures
  atomically; `UpdateProfile` sends a pipeline, not a transaction
  (`profile.go:72`), and one that is cut and given up leaves part of its update.
  Hence `refused` messages may be in the counters, and `RecentBounded` and
  `NoKeyForever` allow for cuts.
- `README.md:205` calls the limiter's window a sliding one; the expiry is set with
  the first hit (`ratelimit.go:23`), so it is fixed. Hence the two limits of
  `BurstBounded`.
- `README.md:141` promises the full dataset in one step; a data file cut short by a
  kill during its extraction has its final name and is taken as it is
  (`downloader.go:15`). Hence the exception `cut` of `DoneMeansLoaded`. Its last line may
  be cut too: `parseLine` takes part of a date for one (`parser.go:53`), COPY does not,
  and each later run fails at it. A kill during `m.Up` leaves golang-migrate's dirty
  version, with which each later run exits (`main.go:121`). Hence `Unrepairable` in
  `RestartsRepair`.
- `toggle.go:20` says that both toggles are on; they are read one after the other,
  so that each was on at some moment is all there is. Hence `seen` in `Api`.
- `reranker.go:84` says that the population only matters between equal scores; with
  counters in the thousands it outweighs a difference (0.40/5000 is less than
  0.0001). Hence the condition `Unit < 500` of `PopulationOnlyBreaksTies`: `Unit` is the
  product of the profile's largest counters of a country, a continent and a feature, and
  a signal is a multiple of 0.05 of its reciprocal.
- `README.md:423` and `KT.md:145` equate "boosted" with a score above the base; the
  flag leaves out smaller continent weights, the feature and the population
  (`reranker.go:94`). The flag is not modelled.
- `README.md:425` says that merging brings the local namesake to the top; the
  re-ranking that follows sorts by the profile alone (`reranker.go:99`) and may put
  a foreign one first, and a second page of it starts where the second search's
  smaller limit puts it. Hence `PagesSpareTheLocals` speaks of presence, not of rank.
- `KT.md:170` says that the top three countries are taken; the first two may fill the
  section at the default limit of 8 (`recommendations.go:207`). Hence
  `HistorySectionIsFull` speaks of length and order, not of the number of countries.
- `README.md:203` lists `PERSONALIZATION_GLOBAL`; it is read into the configuration
  (`config.go:115`) and nothing looks at it. Only the toggle in Redis counts.
- `README.md:222` has `personalized` default to true; it is false when absent
  (`models/search.go:12`), as `KT.md` says.
- `README.md:390` and `models/search.go:47` have every search publish an event; only
  an explicit selection does (`RecordSearchEvent`). `models/search.go:55` calls its
  timestamp milliseconds; it is in seconds.
- The toggles are for the search: `/recommendations` reads the profile whether or not
  personalization is off (`recommendations.go:97`).
- `search.go:114` and `search.go:223` ask for more than 30 % of the searches; 30 %
  suffice (`dominantCountry` compares with `>=`). `Dominant` has the code's comparison.
- Countries that are missing from the table of continents share the continent
  "Unknown" and boost each other (`lookup.go:76`), which nothing mentions.
- After SIGTERM the consumer's loop goes on reading; an update then fails, and the
  commit of a later message without use may pass it (`main.go:92`). Hence
  `RedeployLosesNothing` assumes that every event is of use.

## 4. Bounds

Each bound is a constant with a name: `MaxFaults`, `MaxLog`, `MaxWipes`
(Personalizer), `MaxAttempts` and the set `Request` (producer), `MaxCount`
(counts above the limit are alike), `MaxLag`, `MaxVersion` (cache), `MaxRuns`,
`Lines` (import), `MaxDown` (API), `MaxPage`, `Matches`, `Counts` (ranking), `MaxTowns`
(recommendations), `MaxEvents` (page).

Two faults are the smallest number in which a fault can hit the recovery from
another, and three messages the smallest in which one is committed, one in hand
and one waiting. The two searches of `MCPersonalizer` share a feature code but no
country, so that one hash collides while the others do not; the limit of the
recent list is 1, which a second message exceeds. `EventPipeline_clicks` has a
single click, but its copies are messages of their own that the loop reads one by
one; clicks that share counters are in `Personalizer_faults`. The limiter's window
is longer than its limit, so a burst can straddle its end; clients do not share a
key, so one is enough. The import's nine good lines make five batches, one more
than the channel has room for, and the last of them is not full; with two runs the
second follows any kind of failure of the first, and for a state that no restart
repairs, two runs are as good as any number. A handler of the API meets others
only through Redis, and everything that may happen there may happen between any two
of its steps (`Elsewhere`), so one handler is enough; two addresses tell the
client's own from another's, and with one service down at a time each is up while
another is not. `Queries` are all sets of `FourPlaces`, which has namesakes in two
countries, `EightPlaces`, and its four places in one country, on which the second
search has two pages and is empty on the third; the limits go from below 3, the
least the second search asks for, to above it. Weights
and scores are multiplied out to whole numbers, so no comparison turns on rounding.
`TwoLimits` has a limit that
leaves something over when three countries share it, and one out of range.
`Recommendations_sections` declares symmetry; it checks no liveness and no operator
tells the permuted countries apart. A value that does not decode and an event
without an address are alike to the loop, so `Personalizer_faults` has only the
second.

Deadlock is checked except where the system may rest: when the topic's bound is
reached and all is committed (Personalizer), when a request has been answered
(Ranking, Recommendations), and when the user is idle (Frontend).

## 5. Fairness

- `Personalizer`: weak fairness of the loop, restart included: one goroutine that
  the scheduler runs, in a Deployment that restarts it (`k8s/app/personalizer.yaml`).
  Faults, publications and resets are never forced, nor is a successful update:
  `ClicksSettle` counts a refusal as an outcome, and `CommitsCatchUp` is checked
  where no connection breaks.
- `EventProducer`: weak fairness of each partition's writer, which ends an attempt
  by its timeouts (`producer.go:27`), of `Drained` (the five seconds end) and of
  `Exit`. No handler is forced to end.
- `EventPipeline`: writers and consumer loop as above.
- `RateLimit`: time passes. Nothing is asked of the handlers.
- `SearchCache`: time passes and handlers run.
- `BulkImport`: main, scanner and each worker run; `Begin` belongs to main, as the
  Job restarts failed runs (`restartPolicy: OnFailure`, `k8s/app/bulkimport.yaml`).
- `Frontend`: timers fire and each request is answered or fails.

## 6. Proofs

TLAPS checks the following for all values of the constants. Their only assumptions are
the modules' named `ASSUME`s (naturals and integers, distinct markers, and what is said
below of `Ranking` and `Recommendations`), each of which a run evaluates, and the
hypotheses mentioned here. Behind each theorem is an
invariant that a step preserves; it is stronger than the property wherever the
property does not say why it holds.

**Personalizer** (`PersonalizerProofs`)

| Theorem | Property | Inductive with it |
|---|---|---|
| `TypeCorrect` | `TypeOK` | |
| `CommitsAreSettled`, `LedgerImplemented` | `CommittedIsSettled`, `ImplementsLedger` | `IInv`: `Bookkeeping`, `Passed` |
| `RedeployLosesNothing` | `CommittedIsCounted` | `NothingLost` |
| `CommittedSearchesAreCounted` | `CommittedIsInProfile` | `CountersInv` |
| `UndisturbedCountersAreExact` | `CountedOnceIfUndisturbed` | `Orderly`, `CountersExact` |
| `ListStaysNearItsLimit` | `RecentBounded` | `ListInBounds` |
| `KeysExpire` | `NoKeyForever` | `LooseOnlyBefore` |
| `CommitsOnlyAdvance` | `CommitsMoveForward` | `NeverBehind`, or `OneBehindAtMost` |

`CommittedIsSettled` is not inductive: a commit is safe because of what the loop
did before it. `IInv` adds `Bookkeeping` (the message in hand is real, and useful
while it updates; offsets are within the log) and `Passed`: every offset the reader
has passed is settled or in hand, and everything below the one in hand is settled.
The second half of `Passed` is there for `Rejoin`, which moves the reader while the
loop holds a message: without it a commit could pass offsets that the reader would
fetch again. The refinement maps `RunCommand`, `Fetch` of a useful message, faults
and resets to stutters, and `Commit` to a ledger commit by `Passed`.

`RedeployLosesNothing` assumes that events are useful (the API's own always are: it
requires a query and fills in the address) and that no pipeline breaks
(`Personalizer_redis_down` shows that this is needed). `NothingLost` has the shape of
`Passed` with "counted" for "settled", except while a cancelled loop reads on:
what it refuses then is never committed, because only useless messages reach a
commit without an update.

`CommittedSearchesAreCounted` relates a Redis counter to a set of offsets.
`CountersCover` credits a counter with each message of its client that the loop has
committed, passed, or has in hand with that counter's HINCRBY behind it
(`Through`), and says that the counter is at least the number of those since the
last reset that were not refused; until the first reset or expiry, also of those
counted and refused later. So it holds between any two commands of a
pipeline, and a pipeline that is cut or sent again only adds. The theorem assumes
finitely many partitions, without which there is no number, and `TTLDays > 0`: with
a time to live that is not positive each update deletes the counters that it has
just written. `UndisturbedCountersAreExact` (same hypotheses) adds, while there
has been no fault, that the loop works through each partition in order
(`InOrder`), and that the counter is that number exactly.

`ListInBounds` follows the list between LPUSH and LTRIM, and allows an entry for
each fault; `LooseOnlyBefore` says that a key without an expiry has its EXPIRE ahead in
the pipeline, or else there has been a fault, and in no case after an update that
came through.

`CommitsOnlyAdvance` assumes that there are no rejoins, or that there is neither a
broken pipeline nor a failed commit nor, unless every event is useful, a SIGTERM. Each of
these was a counterexample of TLC before it became a hypothesis: behind a message
that is left uncommitted, a rejoin takes the reader further back than the message in
hand; once that is committed, the older ones are read and committed after it.
Messages are then counted again, which at-least-once allows.

**Event producer** (`EventProducerProofs`): `TypeCorrect`; `RecordedIsAccounted`
(`NothingVanishes`) and `FailureIsClean` (`FailedLeavesNothing`), by
`AnswersAgree`: an event that was handed to the writer, answered or still to be, is accounted
for, and what is accounted for was handed to the writer: its request is queued, recorded
or was cut off before it was answered. `OrderIsKept`
(`PartitionKeepsOrder`): `Ordered` says that the queue is the end of what was
accepted, and that the topic holds only events that have left the queue or are in the
batch at its front, of which it has none or, when an acknowledgement was lost, all. So
a second copy comes after its first and before anything new.

**Event pipeline** (`EventPipelineProofs`): `RecordedClicksAreCounted`
(`ClicksCounted`) and `CopiesAreBounded` (`OvercountBounded`), from click to counter. The
invariant is the whole of both halves', `PP!Whole` and `CP!Whole`, of which
`EventProducerProofs` and `PersonalizerProofs` prove for their own modules that they are
inductive. What is new is that they hold of the composition. A step of the producer
is for the consumer a topic that grows, by a batch at a time; hence
`PersonalizerProofs` states its lemmas for a log that grows by any suffix (`Grow`) and
not for its own `Publish`, which appends one message. A step of the consumer leaves the
producer alone. The rest is counting, by injections: when all is quiet, a click that is
neither dropped nor lost nor refused has a place in the topic that was committed and
counted, and no two clicks have the same one, so the counter is at least their number;
and a counter that nothing has disturbed is at most the number of places in the topic,
each of which is one of `MaxAttempts` copies of a click. Both theorems assume finitely
many partitions and `TTLDays > 0`, as above; the second, which speaks of the number of all
requests with a given value, also that there are finitely many.

**Rate limiter** (`RateLimitProofs`): `TypeCorrect`, `CountersExpire`
(`EveryCounterExpires`), `FixedWindowImplemented` (`ImplementsFixedWindow`),
`BurstsAreBounded` (`BurstBounded`), `RefusalsAreDeserved` (`RefusedOnlyWhenFull`).
`KeyInv` relates count and expiry; the refinement needs no more, since a handler acts on
a reply but never writes to the key. For the other two `CountInv` relates the count to
the requests that were let through, by their age: of a window that opened n ticks ago,
those younger than n are fewer than what it has granted (`OpenWindow`), those up to
n no fewer but for the replies that were lost, and what is left of
earlier windows is less than a limit for each of them (`LastWindow`). The requests are
counted as a set (`LetThrough`), those whose replies still wait for their handlers
included, of which there are finitely many at any moment (`Few`) whatever
`Request` is.

**Search cache** (`SearchProofs`): `CacheTypeCorrect`, `StalenessIsBounded`
(`CacheNotTooOld`). `HeldNotTooOld` is what the entries do not
show: a handler between its search and its SET holds an answer at most as stale as
it has been slow, and the time to live it is about to set is positive (`Caching`).

**Ranking** (`SearchProofs`): `PagesTypeCorrect`, `PagesAreFull` (`PageStaysFull`),
`LocalsAreSpared` (`PagesSpareTheLocals`), `PopulationDecidesTies`
(`PopulationOnlyBreaksTies`). The first three have an invariant of two parts beside the types.
`Full` says what the merge may have dropped; it holds after it because
the others that are left are at least as many as the page loses to the local ones
(`WithoutFacts`), and Rerank only moves them. `Composed` says what the n-th page is made
of: places of the first search's n-th page and of the second's, and all of these if the
page has room. It holds of the page in hand and, as `Earlier`, of those already shown,
and since neither search changes in a session, pages of one sequence
have nothing in common and together skip nothing. `EveryRank` is what that rests on: the
operators that sort and filter pick the element with n - 1 before it, and in a finite set
that is ordered there is exactly one for every n. `PopulationDecidesTies` adds `ScoreInv`:
the counters are naturals, and what has been sorted is in the order of the scores. All
signals are multiples of 500 (`SignalFacts`), and with the largest population M multiplied
out too, a lead of 500 M in one cannot be made up by a population of at most M that counts
`Unit` times. The assumption on the constants is that there are finitely many countries
and places, and that places have distinct ids, as the documents of the index have
(`cmd/bulkimport/main.go:401`), and natural populations.

**Recommendations** (`SearchProofs`): `SectionsTypeCorrect`, `NothingIsLost`
(`NothingFoundIsLost`), `HistoryIsFull` (`HistorySectionIsFull`). `WellOrdered` is the
order of the items, `StillToCome` says that the countries that have not been asked come after
those that have, and `OnCourse` that what the items lack of the limit the countries to come
have shares for: with k countries, n items and m still to ask, nk + ml >= kl for the
limit l. A country adds at least its share, because the two places added to the division
make up for its remainder, up to the three countries that are asked. The second
goroutine touches none of this (`NearbyStep`). The set of countries is assumed to be
finite, without which there is no number of them to divide by.

**API** (`ApiProofs`): `TypeCorrect`, `AnswersHaveReasons` (`PersonalizedForAReason`),
`AnswersHold` (`AnswersAreTrue`), `RefusalsAreClean` (`RefusedChangesNothing`),
`HealthIsSo` (`HealthIsTrue`). All follow from `TypeOK`, `SeesNow` (a handler at work has
seen what holds now) and `Justified`, which looks at a handler alone: what it has
noted was so at some moment since it began (`NotesTrue`), what it is about to say follows from its notes (`OnItsWay`), and what it has said is
true (`TrueAnswer`). It mentions no store, so whatever other clients, replicas and
the personalizer do only adds to what has held.

**Bulk import** (`BulkImportProofs`): `TypeCorrect`, `EveryRecordOnce`
(`EachRecordOnce`), `CompleteMeansLoaded` (`DoneMeansLoaded`). `ImportInv` says where
the records are: `NoneTwice` (buffer, channel and workers share none),
`Accounting` (those under way and those counted are the ones scanned), `StoredSoFar`
(what was counted is in both stores, and what a worker is through with in the store it
is through with), `ScannerStopped` (the channel is closed for a reason, and the error, if any, is set
by then), `FileIsWhole`, `Fresh` and `MainGotHere` (what main has behind it at each
place, across kills and restarts). Which records count as good depends on the file's last
line, so the steps also rest on `GoodPrimed`: the file changes only while none of it has
been read.

**Web page** (`FrontendProofs`): `TypeCorrect`; `ClicksPostWhatTheyShow`
(`SelectsWhatItShows`) by `SelectionInv`: rows refer to results that are there, at
most one `loadMore` is out, rows and results are aligned as long as no page
crossed a new search, and the mark is the selection; `SpinnerStops`
(`SpinnerMeansWork`), inductive with the types alone; `RestIsTheAnswer`
(`RestAnswersTheBox`) by `AnswerInv`: the box waits for its timer or is the query,
the last search sent is for the query, and once it is answered the rows are its
answer; `PagesFollow` (`PagesInOrder`) by `PagesInv`: a `loadMore` asks for the page
after the current one, was sent after every search, and that page continues what is
shown.

Each of these invariants was checked by TLC on its run's instance before it was proved.
The proofs corrected the models in two places: `Api` let the health route answer
400, though it binds no input; and in `Frontend` ArrowUp could mark a row that a
shorter list no longer has, where the page's `querySelectorAll` finds none
(`MarkedAt`).

Only model-checked: liveness (`ClicksSettle`, `CommitsCatchUp` and the other temporal
properties of the runs), as TLAPS does not reason about fairness and ENABLED here.

## 7. What the models take as given

Redis runs a script or a command at once, and a pipeline command by command. The
broker keeps what it has stored. kafka-go's writer has one batch at a time under
way in a partition and keeps the order of its queue; its reader, in a group,
starts at the committed offset, and `FetchMessage` may return a buffered message
under a cancelled context. go-redis sends a command again after a lost reply, up
to its default, and refuses to send under a context that has ended. An event loop
runs a script's turn to its next await. A connection error that ends the
personalizer's loop as if it were cancelled (`main.go:84` also breaks on
`DeadlineExceeded`) is a `Crash` between two messages.

Time is in ticks and only where the code compares times. Texts, coordinates,
scores of Typesense, logs and metrics are left out.

## 8. Not modelled

Request id and access log (they write headers and logs), the origins of CORS and
the static page, configuration and connections (read once, at start-up), the labels
of features, and what the page does with a selected place: map, overlay, badges.
A search box that holds only blanks is an empty one to the page's handlers but not to
the toggle's, which empties the page; the model's box holds a query or nothing. Two
personalizers at the same time: the manifest runs one. `KT.md` describes an importer
and indexer with Kafka in between that the code no longer has.

Two things in the page and the API are described by the exceptions of properties
rather than by properties of their own: a page of results that arrives after a new
search has begun (`crossed`), after which Enter may select another place than the
marked row's, and a data file that a kill cut short (`cut`; if its last line was torn, or a migration
was killed, the restarts fail until someone steps in, and `RestartsRepair` says nothing).

## 9. Plan

What is left, in the order of importance:

1. An abstract specification of the import (an atomic load that either completes
   or is repeated) that `BulkImport` implements.
2. A profile torn by a reset or an update, composed with `Ranking`; and a page of
   `Frontend` composed with the pages of `Ranking`.
3. Two personalizers during a rolling update.
