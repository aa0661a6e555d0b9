# Blend: models, checks and proofs

Blend is a metasearch engine: a Flask server takes a query, asks many foreign search
engines at the same time, and merges what came back before a deadline. This directory
holds TLA+ models of its core, TLC configurations that check them on small instances,
and proofs, checked by TLAPS, of the properties that matter most. Source paths are
relative to `src/src/blend/`.

## Inventory

| Component | State it keeps | Operations | Hard behaviour | What makes it correct |
|---|---|---|---|---|
| Pipeline (`blend_core/pipeline`) | requests, deadline, one thread per engine, `_timeout` flag; `SUSPENDED_STATUS` per network, shared by all searches | plan requests, start threads, join with a deadline, report, suspend and resume | engine threads outlive the search; the joins share one timeout; two searches race on one suspension | no engine goes missing; in-time results reach the response; the deadline holds; every search returns |
| Result pool (`blend_core/results.py`) | `main_results_map`, `unresponsive_engines`, `timings`, `_closed` | extend, merge, close, order, report | `close` and `extend` take no lock around their test of `_closed` | what is scored is what was collected |
| Search endpoint (`app.py`) | `SEARCH_CACHE`, `SEARCH_STATS` | look up, purge, search, fall back, store | one thread per request, no lock at all | the caches stay bounded, answers are fresh |
| Router (`blend_engine/search_router.py`) | provider tasks, `FAST_SEARCH_CACHE`, crawl budget | ask a batch, retry it, deep crawl, merge | tasks are cancelled, their executor threads are not | answers and failures all arrive; the budget holds; the request is answered |
| Deep crawl (`scrapers`, `utils/rate_limit.py`) | pages visited, budget, semaphores per domain | crawl recursively | tasks that share budget and crawler | no page twice, never over budget, the crawl ends |
| HTTP client (`blend_core/network`) | clients, cookies, retries, the check of a Tor proxy; the queue of a stream | request with retries, close, stream | a caller thread times out while its coroutine goes on; all calls share a client | bounded number of requests, no foreign cookies, no lost clients, every call and stream ends |
| Expiring cache (`blend_core/cache.py`, `sqlitedb.py`) | tables, expiry, hash token, last maintenance | init, get, set, maintenance | a crash in a maintenance, a new password, threads that do not wait for `init` | no value of another password, expired values go |
| Favicon cache and proxy (`blend_core/favicons`) | blobs, map of authorities, last maintenance | look up, store, maintenance | map and blob are read one after the other | icons are found, the size limit holds |
| Bot detection (`blend_core/botdetection`, `limiter.py`) | sliding windows, token and pings in Valkey | count, ping, release | several workers on one store, a command each | limits hold, few tokens are valid |
| Command line (`cli.py`) | pid file, port | start, stop | crashes, reused pids and ports, no lock | `blend stop` reaches every server |
| Page scrapers and providers | | fetch and parse foreign pages | | |
| Metrics, query and settings, answerers and extensions, engine adapters, downloader, anonymity helpers, ranking, assistant | see `PROJECT.json` | | sequential or pure | |

How they interact: `api_search` (a server thread) looks into its cache, then runs
`SearchRouter.route` in an event loop of its own; the provider `blend_core` of the router
runs a pipeline search in a thread of the loop's executor; the pipeline starts one thread
per engine; these call back into the result pool of their search and into the suspension
status that all searches share. An engine thread makes its HTTP calls through a network
(`blend_core/network`), whose coroutines run in one event loop. Nothing is persisted on
this path. Requests for icons go through the favicon cache, and engines keep values in the
expiring cache; both are SQLite files. The limiter, where it is configured, sees a request
before anything else does.

Every hazard found in this code is listed with its line in `PROJECT.json`, with the
properties that cover it or the reason why none does yet.

## Modules

| Module | Models | State and actions |
|---|---|---|
| `SearchPipeline` | `pipeline/__init__.py`, `pipeline/processors/*`, the pool's `extend`, `close`, `add_*` | A program counter per search (`spc`) and per engine thread (`tpc`). Search: `Begin`, `PassOver`/`FindSuspended`+`ReportSuspended`/`Prepare` for each engine, `SetTimeout`, `StartThread`, `Enumerate`, `Join`, `Joined` or `StillAlive`+`GiveUp`, `EndJoin`, `Close`, `Iterate`, `Score`, `Finish` or `Crash`. Thread: `Reply`, `CheckInTime`, `Extend`, `Merge` or `MergeFails`, `TestTiming`, `AddTiming`, `TestReport`, `AddReport`, `Resume` or `Suspend`. Others: `Register`, `Tick`. |
| `SearchContract` | what a search promises: it closes only over engines that settled or were written off, and fails only if it wrote one off | refined by `SearchPipeline` (`ImplementsContract`) |
| `ApiSearch` | `app.api_search` with both caches | one action per access to a cache, per server thread |
| `SearchRouter` | `SearchRouter.route` in `asyncio.run` | tasks and executor threads per attempt and provider; `Start`, `Answer`, `WorkerEnds`, `Retry`, `Conclude`, `Crawled`, `Exit` |
| `DeepCrawl` | the deep crawl: `_crawl_recursive`, `RateLimiter`, `Crawl4AIWrapper._init_crawler` and `extract` | a place per crawl and a queue of ready tasks per event loop; `Begin`, `TurnAway`, `Refuse`, `Acquire`, `Await` or `Foreign`, `Granted`, `ProxyStarted`, `CrawlerStarted`, `Lose`, `Leaf` or `Branch`, `Gathered`, `Close`; `Wake` is what a task waits for |
| `NetworkClient` | `network/network.py` (`call_client`, `get_client`, `done`) and the waiting thread of `network/__init__.py` | a place per call; `Submit`, `GiveUp`, `Deliver` of its thread; `UseClient`, `MakeClient`, `RefuseClient`, `AskTor`, `TorAccepted` or `TorRefused`, `Redirect`, `Answered`, `Denied`, `Failed`, `Disconnected` of its coroutine; `Done` |
| `ResponseStream` | `network/__init__.py` (`stream`) | the coroutine that fills the queue, the thread that takes chunks out of it and `close()`, which drains it |
| `ServerClock` | the time that the stores read | `Tick` |
| `ExpireCache` | `cache.py` and the parts of `sqlitedb.py` it inherits | one step per transaction of a thread, from `Begin` over `Connect`, `ForceMaintenance` and the sweep to the use of the row; `Crash` restarts the process with the old password or a new one |
| `FaviconCache` | `favicons/cache.py`, `favicons/proxy.py` | a place per request: look up the map, read the blob, resolve, set, maintenance, store |
| `IpLimit` | `botdetection/ip_limit.py`, `link_token.py`, the sliding window of `valkeylib.py` | one step per command to Valkey of a worker |
| `ResultPool` | `BlendResults.extend` while the pool is open: `_merge_main_result`, `_merge_infobox`, `defaults_from` | a list per engine thread, one result at a time |
| `ResultGrouping` | the second pass of `get_ordered_results` | one step per round of its loop |
| `ServerControl` | `cli.py` (`main`, `check_if_running`, `kill_running`) | a place per command and a state per process: `Start`, `Look`, `Test`, `Clear`, `Spawn`; `LookAgain`, `WritePid`, `Bind` of the daemon worker; `Stop`, `ReadPid`, `Kill`, `RemoveFile`; `End`, `Reuse` and `Occupy` are the system's |
| `MC*` | values of constants for TLC; `MCNetwork` and `MCSharedState` compose modules that share no state | |
| `*_proofs` | theorems and proofs of the modules they extend (`StoreCaches_proofs`: the two caches and the pid file; `Results_proofs`: `ResultPool` and `ResultGrouping`) | |

A step is the code between two accesses to shared state; where the code holds a lock that
every other access to the same state also takes, the locked region is one step, and where
one side takes no lock (`BlendResults.close`, `extend`) test and use are separate steps.
Operators marked `MUTANT` are plausible bugs: each property is shown to notice one.

## Abstractions

* An engine's results are one element of the pool, and different engines' results are
  different entries of `main_results_map`. A result that merges into another one's entry
  would not make the dict grow; the model keeps the case that does.
* What an engine or a provider answers is a free choice among the outcomes the code
  distinguishes. HTTP, parsing, scoring and ranking are not modelled.
* Answers and suggestions of plugins and answerers take no part in scoring; `post_search`
  is not a step.
* `banReason` is `"none"` for the empty string.
* Time is a counter. It passes while somebody waits: the join loop, the cache accesses and
  the event loop's own steps take no time of their own. Engine threads may take any time.
* The comprehension over `SEARCH_CACHE` is checked for a change of size when it ends, not
  at every item.
* An empty result of `route` and an exception in it both lead to the fallback search
  (`FoundNothing`); the category, which decides whether the fallback asks anybody, is not
  modelled, so the fallback may find something or not.
* `SearchRouter` leaves ranking out (it loses no result) and makes the deep crawl one step
  that ends in its own time; `DeepCrawl` has its steps.
* In `DeepCrawl` a step is what a task does between two awaits that suspend it, so
  `RateLimiter._lock`, under which nothing is awaited, does not appear. crawl4ai is
  installed; whether a page is safe, is fetched, and which links it has are free choices.
  The operations of `asyncio.Semaphore` are atomic, also for tasks of different threads.
  The global semaphore of ten is left out: a crawl spends at most five of the budget, so
  two requests cannot exhaust it; with three or more it only delays tasks. Two results
  without a URL are left out: `is_safe_url` refuses the first of them.
* `NetworkClient` has one network and one event loop, as `client.py` makes. What a server
  or httpx does with a request is a free choice; one redirect stands for several, as the
  second of them changes nothing that the properties see.
* In `ExpireCache` the table of one context stands for all of them.
  `MAINTENANCE_MODE = "off"` does not appear: `ExpireCacheSQLite.maintenance` never looks
  at it. In `FaviconCache` a resolver finds an icon, none, or fails, freely.
* In `IpLimit` one network stands for all: they share nothing but the token. The stateless
  tests of headers and lists come before it and only turn requests away.
* In `ResultPool` a page is what results with one hash have in common, the title stands for
  the fields of which the longer is kept and the thumbnail for those that may be unset; in
  `ResultGrouping` a category is the triple that the code groups by.
* In `ServerControl` the pid file is written in one step, and a program that was started
  without `cli.py` is a foreign one (which may answer a ping, too). `overlapped` is history:
  a command was given before the last one, or the worker it had started, was through.

## Runs and bounds

| Run | Instance | Question |
|---|---|---|
| `pipeline_one` | 1 search, 2 engines on one network, limits None or 1, clock to 4 | deadline, join loop, closing, refinement of `SearchContract`, and that every search returns although engines may hang |
| `pipeline_shared` | 2 searches, 1 engine | sharing of the suspension and of the counters |
| `pipeline_closed` | 1 search, 1 engine | **violated**: a closed pool grows (finding 1) |
| `api_caches` | 2 threads, 3 URLs, purge at size 0, fast cache of size 1 | bounds of both caches, age of answers |
| `crawl_one` | 1 request, 2 results with 2 links each, 3 pages on 2 domains, budget 3, 1 permit | visited pages and budget, results before links, one proxy and one crawler, every crawl ends |
| `crawl_shared` | 2 requests, 2 pages of one domain, 2 permits | permits whatever fails, none unused while somebody waits, the crawler is closed when nobody uses it |
| `router_batches` | 3 providers (2 in threads), budgets 1 and 2 | answers, errors, retry, budget, termination |
| `router_budget` | the same | **violated**: the response leaves after the budget (finding 2) |
| `network` | 2 calls, one with cookies, 1 retry, 1 key; or one stream, 3 chunks ahead | number of requests, cookies, lost clients, every call and stream ends |
| `shared_state` | one of: 2 threads on 1 key, 2 passwords, a crash anywhere; 2 requests for 3 icons of 3 authorities; 2 workers, 3 requests, 3 tokens; 2 engines with 2 results each; 7 results of 3 categories; 1 shell, 2 pids, 2 ports | old and expired rows, missing icons, limits, tokens, merging, grouping, the pid file |
| `results_merge` | 2 engines, 1 page | **violated**: a merged result forgets an engine (finding 3) |
| `favicon_limit` | the icons of `shared_state` | **violated**: a maintenance leaves too many bytes (finding 4) |

Why these bounds are enough: two engines of one network and two searches of one engine are
the smallest instances with every kind of interference (two threads of one search, two
searches on one suspension). `Horizon` lets a ban begin and end and a deadline pass before
and after an answer; `LastStart` stops new searches early enough for them to end. In
`api_caches` the limits are scaled to 0 and 1 so that every request purges and every put
finds a full cache; three URLs exceed what two threads can insert. The crawls are scaled
so that the budget ends before the crawls do and the permits before the tasks; one link
can lead to another result, to its own page or to the page of another link. Symmetry (of
threads and URLs, of the requests of `crawl_shared`, of authorities and equal icons) is used where nothing but safety
is checked. `CHECK_DEADLOCK
FALSE` is set where the clock's bound or a finished request ends the behaviour.

`shared_state` and `network` compose modules that have no state in common. Their
interleavings would only multiply the states, so a behaviour is one of a single part, which
its first state chooses; the union of the parts' behaviours is checked in one run, and a
property of one part says of the others only that their first state satisfies it. The
limits of the parts are the smallest that can be reached and passed: a window of two and
three requests, a total of one byte and icons of two and three, a group of two in seven
results. One shell is enough for the pid file, since `ServersNamed` is about commands that
do not overlap; two pids are a server and what the system gave the pid of the last one to.

Fairness: `SearchPipeline` assumes that the thread of a search is scheduled and that time
passes, and nothing of the engine threads: `th.join(remaining_time)` is the code's own
protection against them. `SearchRouter` assumes in addition that an executor thread ends,
because it runs `Search.blend_search`, which `SearchReturns` shows to end, or a `requests`
call with a timeout. `DeepCrawl` assumes that a loop runs its ready tasks and that what a
task waits for happens: `arun` is given 15 seconds and is retried twice
(`crawl4ai_wrapper.py:44-46`), and `start()` ends or raises. That a waiting task gets a
permit is not assumed but shown. `NetworkClient` assumes that the loop runs every coroutine
that can go on and that a request ends, as httpx has a timeout for each; whether a thread
gives up is free. `ResponseStream` assumes that the stream is opened or fails, that the
loop runs `aclose()`, that the coroutine then notices it, and that a thread that waits for
the response or drains the queue goes on; the body may be endless and the reader may
stop. `shared_state` assumes none.

## Findings

1. `results.py:92` logs "container is closed, ignoring results", but a thread that passed
   the test at line 91 inserts after `close()` (`pipeline_closed`). `CrashNeedsLateResult`
   and `InTimeResultsKept` bound the damage: only engines that were given up can do this.
2. `search_router.py:53` announces a "LATENCY BUDGET"; `asyncio.run` (`app.py:257`) joins
   the executor's threads, so the response waits for the slowest one (`router_budget`),
   although `route` itself keeps its budget (`RoutedInBudget`). The theorem `LateIsCutOff`
   names the only cause: a provider that works in a thread and was cut off.
3. `_base.py:332` says that fields "not set in *self*" are taken from the other result;
   `defaults_from` tests `if self_val` (line 338) and overwrites those that are set. Two
   typed results with one URL become one that names only the second engine
   (`results_merge`). `LossNeedsTypedMerge` shows that no other merge loses anything.
4. `favicons/cache.py:419` counts the bytes of an icon once for each authority that maps to
   it, and stops dropping icons too early: a maintenance leaves more than
   `LIMIT_TOTAL_BYTES` (`favicon_limit`). `OverLimitNeedsShared` shows that shared icons
   are the only cause.

## Proofs

All theorems hold for every value of the constants under the named assumptions of their
module (engines and networks are arbitrary sets, times are naturals or `None`). Every
safety property of the passing runs is a theorem.

* `SearchPipeline_proofs`. `TypeCorrect` needs `CurInv` (a search that reports or waits has
  an engine at hand) and `ReplyInv` (a thread past `run` has a reply, and of the kind its
  place handles). `NoEngineMissing` rests on `AskedInv` (threads run only for engines that
  were asked) and `JoinInv` (every engine asked is accounted for, still in the snapshot, or
  being waited for); neither `EveryEngineAccounted` nor `JoinInv` alone is inductive.
  `CrashIsLate` adds `LateInv` (a thread past its test of `_closed` in a closed pool was
  given up), `ResultsKept` adds `KeptInv` (where an in-time thread's result is, per place of
  the thread), `DeadlineIsKept` adds `WakeInv` (a join never waits beyond the deadline). Two
  frame lemmas say what the steps of searches and of threads leave alone.
  `PipelineImplementsContract` shows for each step the step of `SearchContract` it is, or
  that it is none: `JoinInv` gives the guard of `StopCollecting`, `LateInv` that of `Fail`,
  and `CurAsked` (a search waits for engines that it asked) that of giving one up.
  `BansAreLiftedByAnswers` needs only that the clock is past 0, the end of no ban.
  `OutcomesBalance` needs that an engine that is still to be tried was not asked
  (`PlanInv`); the sets it counts grow by one search at a time and are finite, however
  many searches there are. `SearchesAdvance` gives a search ranks, one for its own place and
  one for each engine, which its steps lower and nobody raises (`Spends`, `OthersLeave`), so
  that it has finitely many steps (`SearchIsFinite`); `ThreadsAdvance` says the same of the
  threads. `SearchesAreNotStuck` says when it can take one: always, but for the wait for a
  living thread before the deadline (`WakeInv` again). Both rest on `BusyInv`: the engine at
  hand is not among those still to come, and only what was counted is scored.
* `ApiSearch_proofs`. `CacheIsBounded` counts the entries together with the threads past the
  purge: each of them may still add one. `FastIsBounded` counts those of the fast cache
  with the threads that are about to set a key (`RoomInv`). `AnswersAreFresh` follows an
  answer from one cache to the other (`FreshInv`) and needs that the lifetimes are positive.
* `SearchRouter_proofs`. `AnswersUsed` follows from what was collected before the current
  batch; `BudgetKept` from the deadline of the batch that is waited for; `EmptyIsRetried`
  from `EmptyInv`, which says the same already before the crawl. `LateIsCutOff` bounds
  finding 2: the response leaves after `route` returned only if a task of a provider that
  works in a thread was cut off (`WorkerInv`). `RequestsAdvance` and `ExitIsNotStuck` say
  that the steps of a request run out and that it waits for such threads only.
* `DeepCrawl_proofs`. `Inv` says that the queues of the semaphores hold waiting tasks of
  their domain, each once (`WaitInv`), and that links have no tasks before their page was
  fetched (`SubsInv`); `Shape` is what any step of a task does, so that most proofs need
  no case per action. `NoPageTwice` adds that the page of every admitted crawl is marked
  and no two are equal (`PagesInv`): `PagesOnce` alone does not tell why the next task may
  go on. `PermitsAreKept` counts the tasks that are woken (`WokenCount`) against the
  permits they get, and needs, for the permits that nobody uses, that a release wakes
  somebody who waits (`MovingInv`). `StartsOnce` needs that an attribute is set before anybody starts what
  it stands for (`StartInv`). `ResultsAreFirst` rests on the order in which an event loop
  takes its tasks: those of results stand in its queue before all others, each once
  (`LineInv`), so that no link is made as long as a result has not run (`FirstInv`).
  `ClosedCrawlerIsUnused` needs that a page ends after its links (`EndInv`). The requests
  are finitely many, as the cardinalities need. `CrawlsAreNotStuck` and `CrawlsAdvance`
  are what `CrawlEnds` says but for fairness: as long as a task is under way, a loop can run
  one, or a permit can be taken, or what is waited for can happen (a task that is ready stands
  in the queue of its loop, `ReadyInv`; where somebody waits for a domain, somebody holds a
  permit or is woken); and each step takes something from a finite set that no step adds to
  (`StepsLeft`, `StepsAreFinite`).
* `NetworkClient_proofs`. `RequestsBounded` is not inductive: `InBudget` adds what is left
  of the retries at each place of the coroutine. `ForeignCookiesNeedRedirect` is inductive
  by itself; `LostClientNeedsTor` needs that without Tor nobody waits for a check and every
  open client is one of `_clients` (`AllKept`). `CallsEndWell` and `CallsAdvance` are
  `CallsEnd` without fairness: the end is a response or an exception, and a call has at most
  6 * `Retries` + 11 steps, six for each round it may repeat, whatever other calls do. Of
  `ResponseStream`, `StreamsOpen` says what `stream()` gets first; `ReadersAreFed`, that
  whoever opens or drains a stream has an object in the queue or the loop something to do
  for it (the sentinel is the last of the queue, `EndComes`); `DrainsEnd`, that after
  `aclose()` every step leaves less to drain.
* `StoreCaches_proofs`. `OldRowsNeedInit` needs that the token of a password is stored only
  when no row of another is left (`TokenClean`), and that passwords and rows are never of
  the future. `StaleNeedsUnfinished` names the thread that will sweep (`StaleSwept`).
  `MissingIconNeedsMaintenance` rests on `RowsHaveBlobs`: the map never has an icon without
  a blob. `OverLimitNeedsShared` is about sums of sizes, which are folds over sets of icons:
  that a sum grows by each element, and that of no image is larger than that of its set, is
  shown for a smallest set of which it would be wrong (`SmallestSet`). Then what was
  dropped is enough as long as no icon is counted twice (`DropsEnough`); the rows of the
  join are finitely many (`RowsInv`). `ServersNamed` needs that nobody is up when a command is past its test or a worker
  starts (`Orderly`).
* `IpLimit_proofs`. `AdmittedBounded` needs that the windows are finite (`WindowInv`);
  `LiveTokensBounded` counts the tokens together with the workers about to store one, and
  needs that the token in Valkey is the one that expires last (`TokenInv`).
* `Results_proofs`. `DuplicatesNeedRace` counts infoboxes with an id together with the
  threads about to append one (`BoxInv`). `LossNeedsTypedMerge` needs that the results of
  an engine are numbered (`Numbered`), so that two of them never are one, and that the
  entry of a page is typed only if one of its results is (`PageInv`). `SameCategoryInOrder` and
  `BoundedJump` need where the groups end and that the k-th round places rank k.

Only model-checked: liveness (`SearchReturns`, `RequestAnswered`, `CrawlEnds`, `CallsEnd`,
`StreamReturns`). Weak fairness speaks of `ENABLED`, which the prover cannot expand. What is
proved instead are its two halves that fairness does not give: the steps run out, and
somebody can take one (with the guards written out, which TLC compared with `ENABLED` on
the instances of the crawls). That a search or a crawl ends then depends on nothing but the
scheduling described under "Fairness".

## Not modelled

About 38 000 of the 55 600 lines are engine adapters (`blend_core/sources`): each builds
the request to one foreign service and parses its answer, without state. In the pipeline
an adapter is its reply, a free choice among the outcomes that the processors tell apart.
Most of the rest turns text into text: page parsing and providers, ranking, preferences and
query parsing, rendering in `server.py` and `app.py`, weather, units and locales, and the
assistant (`navar*.py`). A model of them would repeat their expressions, so the modelled
share of the lines stays small; it is the share where steps interleave, fail or come late.
`FaviconCacheMEM` calls itself a proof of concept. The global semaphore of the deep crawl,
`extract_many` and the crawl without crawl4ai, the counts of the metrics (one lock around
each), `SEARCH_STATS`, the rotation of the Tor identity, the downloader and the update
commands of `cli.py` are left out as well.

## Plan

Done: `SearchPipeline` with its contract, `ApiSearch`, `SearchRouter`, `DeepCrawl`, then the
result pool and its grouping, the two caches, the limiter, the HTTP client, the pid file,
and the proofs of all of them. Left:

* The image proxy of `server.py`, which hands a `ResponseStream` on to its client.
* Abstract specifications of a crawl and of a call, with the proof that `DeepCrawl` and
  `NetworkClient` implement them, as `SearchPipeline` implements `SearchContract`.
