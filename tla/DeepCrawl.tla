------------------------------ MODULE DeepCrawl ------------------------------
(***************************************************************************)
(* The deep crawl of SearchRouter.route: the pages of the best results are *)
(* crawled by tasks of one event loop, and so are the first links of each. *)
(* The tasks of a request share a budget, the set of visited pages and one *)
(* crawler; those of all requests share the RateLimiter, a singleton whose *)
(* semaphores belong to the event loop of the first task that waits.       *)
(*                                                                         *)
(* A step is what a task does between two awaits that suspend it.  A loop  *)
(* runs its tasks in the order in which they became ready.  crawl4ai is    *)
(* installed; a page is fetched, or is not, in its own time.               *)
(***************************************************************************)
EXTENDS Integers, Sequences, FiniteSets, SequencesExt

CONSTANTS
  Requests,   \* concurrent requests, each with an event loop of its own
  Pages, Domains,
  DomainOf,   \* netloc of each page
  MaxTops,    \* ranked_results[:3]
  MaxLinks,   \* links internal [:3]
  MaxBudget,  \* max_budget, 5
  PerDomain,  \* max_per_domain, 3
  None

ASSUME CrawlAssumption ==
  /\ IsFiniteSet(Requests)
  /\ DomainOf \in [Pages -> Domains]
  /\ MaxTops \in Nat /\ MaxLinks \in Nat /\ MaxBudget \in Nat
  /\ MaxTops <= MaxBudget
  /\ PerDomain \in Nat \ {0}
  /\ None \notin Pages \union Requests

\* <<r, i, 0>> crawls the i-th result of request r, <<r, i, j>> its j-th link.
Crawls == Requests \X (1 .. MaxTops) \X (0 .. MaxLinks)

VARIABLES
  url,      \* the page of each crawl, or None
  pc,       \* where the task of the crawl is
  ready,    \* per loop, the tasks that can run, in their order
  visited,  \* visited of each request
  budget,   \* budget['count'] of each request
  proxy,    \* whether self.proxy of the request's crawler is set
  crawler,  \* whether self.crawler of it is set
  closed,   \* whether route has closed it
  permits,  \* _value of each domain's semaphore
  waiters,  \* its _waiters that nobody has woken yet
  owner     \* the request whose loop it is bound to, or None

taskVars    == <<url, pc, ready>>
sharedVars  == <<visited, budget>>
crawlerVars == <<proxy, crawler, closed>>
limiterVars == <<permits, waiters, owner>>
vars == <<taskVars, sharedVars, crawlerVars, limiterVars>>

\* A crawl is turned away (no budget, or visited), unsafe, lost to an exception
\* or a failed fetch, or ends with its page.
Ended   == {"turned", "unsafe", "lost", "page"}
Holding == {"granted", "proxy", "crawler", "fetch"}
Pcs     == {"none", "new", "wait", "subs"} \union Holding \union Ended

IsTop(c)    == c[3] = 0
Tops(r)     == {c \in Crawls : c[1] = r /\ IsTop(c)}
SubsOf(c)   == {k \in Crawls : k[1] = c[1] /\ k[2] = c[2] /\ ~IsTop(k)}
Domain(c)   == DomainOf[url[c]]
Holders(d)  == {c \in Crawls : pc[c] \in Holding /\ Domain(c) = d}
Admitted(r) == {c \in Crawls : c[1] = r /\ pc[c] \notin {"none", "new", "turned", "unsafe"}}

Init ==
  /\ url = [c \in Crawls |-> None]
  /\ pc = [c \in Crawls |-> "none"]
  /\ ready = [r \in Requests |-> <<>>]
  /\ visited = [r \in Requests |-> {}]
  /\ budget = [r \in Requests |-> 0]
  /\ proxy = [r \in Requests |-> FALSE]
  /\ crawler = [r \in Requests |-> FALSE]
  /\ closed = [r \in Requests |-> FALSE]
  /\ permits = [d \in Domains |-> PerDomain]
  /\ waiters = [d \in Domains |-> <<>>]
  /\ owner = [d \in Domains |-> None]

-----------------------------------------------------------------------------
(* The request, and its event loop.                                        *)

FirstTasks(r, pages) == [i \in 1 .. Len(pages) |-> <<r, i, 0>>]
Starts(r, pages) ==
  LET tasks == ToSet(FirstTasks(r, pages))
  IN  /\ \A c \in Tops(r) : pc[c] = "none"
      /\ pages /= <<>>
      /\ url' = [c \in Crawls |-> IF c \in tasks THEN pages[c[2]] ELSE url[c]]
      /\ pc' = [c \in Crawls |-> IF c \in tasks THEN "new" ELSE pc[c]]
      /\ ready' = [ready EXCEPT ![r] = FirstTasks(r, pages)]
      /\ UNCHANGED <<sharedVars, crawlerVars, limiterVars>>

\* asyncio.gather makes a task for each of the results, which deduplicate() has
\* given different pages.  MUTANT: it has not.
BeginUnmerged(r, pages) == Starts(r, pages)
Begin(r, pages) == IsInjective(pages) /\ Starts(r, pages)

Begun(r) == \E c \in Tops(r) : pc[c] /= "none"

\* MUTANT of Close: without return_exceptions, the first failure ends gather().
CloseEarly(r) ==
  /\ Begun(r) /\ ~closed[r]
  /\ \/ \E c \in Tops(r) : pc[c] = "lost"
     \/ \A c \in Tops(r) : pc[c] \in Ended \union {"none"}
  /\ closed' = [closed EXCEPT ![r] = TRUE]
  /\ UNCHANGED <<taskVars, sharedVars, proxy, crawler, limiterVars>>

\* gather() has the outcome of each task; finally: crawler.close().
Close(r) ==
  /\ Begun(r) /\ ~closed[r]
  /\ \A c \in Tops(r) : pc[c] \in Ended \union {"none"}
  /\ closed' = [closed EXCEPT ![r] = TRUE]
  /\ UNCHANGED <<taskVars, sharedVars, proxy, crawler, limiterVars>>

\* What a task waits for has happened: its loop will run it.
Wake(c) ==
  /\ \/ pc[c] \in {"proxy", "crawler", "fetch"}
     \/ pc[c] = "subs" /\ \A k \in SubsOf(c) : pc[k] \in Ended \union {"none"}
  /\ c \notin ToSet(ready[c[1]])
  /\ ready' = [ready EXCEPT ![c[1]] = Append(@, c)]
  /\ UNCHANGED <<url, pc, sharedVars, crawlerVars, limiterVars>>

\* The loop runs the task of c, which is at the given place.
Runs(c, place) ==
  /\ ready[c[1]] /= <<>> /\ c = Head(ready[c[1]])
  /\ pc[c] = place

\* The task gets to a place where it waits or ends.  By then it has handed
\* permits to the tasks `granted' of a loop and created the tasks `made'.
Goes(c, to, granted, loop, made) ==
  /\ pc' = [k \in Crawls |-> IF k = c THEN to
                             ELSE IF k \in ToSet(granted) THEN "granted"
                             ELSE IF k \in ToSet(made) THEN "new"
                             ELSE pc[k]]
  /\ ready' = [r \in Requests |->
                 (IF r = c[1] THEN Tail(ready[r]) ELSE ready[r])
                   \o (IF r = loop THEN granted ELSE <<>>)
                   \o (IF r = c[1] THEN made ELSE <<>>)]

\* Only its own page and its own place change.
Only(c, to) == Goes(c, to, <<>>, None, <<>>) /\ UNCHANGED url

-----------------------------------------------------------------------------
(* The semaphore of a domain.                                              *)

\* locked(): there is a permit, nobody waits for one, and nobody who was woken
\* has yet to run.
Free(d) ==
  /\ permits[d] > 0 /\ waiters[d] = <<>>
  /\ \A k \in Crawls : pc[k] = "granted" => Domain(k) /= d

\* How many tasks n permits can wake.
Wakes(d, n) == IF n < Len(waiters[d]) THEN n ELSE Len(waiters[d])

\* The task of c gets to a place having released n of the permits of d, which
\* _wake_up_next hands to the tasks that have waited longest.
Hands(c, to, d, n, made) ==
  LET w == Wakes(d, n)
  IN  /\ Goes(c, to, SubSeq(waiters[d], 1, w), owner[d], made)
      /\ waiters' = [waiters EXCEPT ![d] = SubSeq(@, w + 1, Len(@))]
      /\ UNCHANGED owner

\* release() adds a permit and wakes one task.
Release(c, to, made) ==
  LET d == Domain(c)
  IN  /\ Hands(c, to, d, 1, made)
      /\ permits' = [permits EXCEPT ![d] = @ + 1 - Wakes(d, 1)]

-----------------------------------------------------------------------------
(* _crawl_recursive up to rate_limiter.acquire.                            *)

\* The tests of budget and visited.
Fresh(c) == budget[c[1]] < MaxBudget /\ url[c] \notin visited[c[1]]

TurnAway(c) ==
  /\ Runs(c, "new")
  /\ ~Fresh(c)
  /\ Only(c, "turned")
  /\ UNCHANGED <<sharedVars, crawlerVars, limiterVars>>

\* MUTANT of Visit: the page is not marked before the task waits.
VisitUnmarked(c) == Runs(c, "new") /\ Fresh(c) /\ UNCHANGED visited
Visit(c) ==
  /\ Runs(c, "new")
  /\ Fresh(c)
  /\ visited' = [visited EXCEPT ![c[1]] = @ \union {url[c]}]

\* is_safe_url refuses the page, or does not find its address.
Refuse(c) ==
  /\ Visit(c)
  /\ Only(c, "unsafe")
  /\ UNCHANGED <<budget, crawlerVars, limiterVars>>

Spend(c) == Visit(c) /\ budget' = [budget EXCEPT ![c[1]] = @ + 1]

\* extract(): the first task starts the proxy, and the first that finds no
\* crawler starts one.
Extracts(c) ==
  IF ~proxy[c[1]] THEN "proxy" ELSE IF ~crawler[c[1]] THEN "crawler" ELSE "fetch"
\* The attributes are set before they are started; MUTANT: they are not.
MarkNothing(c) == UNCHANGED crawlerVars
Mark(c) ==
  /\ proxy' = [proxy EXCEPT ![c[1]] = TRUE]
  /\ crawler' = [crawler EXCEPT ![c[1]] = @ \/ proxy[c[1]]]
  /\ UNCHANGED closed

Acquire(c) ==
  /\ Spend(c)
  /\ Free(Domain(c))
  /\ permits' = [permits EXCEPT ![Domain(c)] = @ - 1]
  /\ Only(c, Extracts(c)) /\ Mark(c)
  /\ UNCHANGED <<waiters, owner>>

\* The first task that has to wait binds the semaphore to its loop ...
Await(c) ==
  /\ Spend(c)
  /\ ~Free(Domain(c))
  /\ owner[Domain(c)] \in {None, c[1]}
  /\ owner' = [owner EXCEPT ![Domain(c)] = c[1]]
  /\ waiters' = [waiters EXCEPT ![Domain(c)] = Append(@, c)]
  /\ Only(c, "wait")
  /\ UNCHANGED <<permits, crawlerVars>>

\* ... and a task of another loop that has to wait later gets a RuntimeError.
Foreign(c) ==
  /\ Spend(c)
  /\ ~Free(Domain(c))
  /\ owner[Domain(c)] \notin {None, c[1]}
  /\ Only(c, "lost")
  /\ UNCHANGED <<crawlerVars, limiterVars>>

-----------------------------------------------------------------------------
(* Holding a permit: _init_crawler and arun, then the links of the page.   *)

\* acquire() wakes others as long as there are permits.
Granted(c) ==
  LET d == Domain(c)
  IN  /\ Runs(c, "granted")
      /\ Hands(c, Extracts(c), d, permits[d], <<>>)
      /\ permits' = [permits EXCEPT ![d] = @ - Wakes(d, @)]
      /\ Mark(c)
      /\ UNCHANGED <<url, sharedVars>>

\* The proxy runs; by now another task may have made the crawler.
ProxyStarted(c) ==
  /\ Runs(c, "proxy")
  /\ Only(c, IF crawler[c[1]] THEN "fetch" ELSE "crawler")
  /\ crawler' = [crawler EXCEPT ![c[1]] = TRUE]
  /\ UNCHANGED <<sharedVars, proxy, closed, limiterVars>>

CrawlerStarted(c) ==
  /\ Runs(c, "crawler")
  /\ Only(c, "fetch")
  /\ UNCHANGED <<sharedVars, crawlerVars, limiterVars>>

\* MUTANT of Lose: the exception leaves without the permit.
LoseUnreleased(c) ==
  /\ \E place \in {"proxy", "crawler", "fetch"} : Runs(c, place)
  /\ Only(c, "lost")
  /\ UNCHANGED <<sharedVars, crawlerVars, limiterVars>>

\* start() raises, or the page is not fetched.
Lose(c) ==
  /\ \E place \in {"proxy", "crawler", "fetch"} : Runs(c, place)
  /\ Release(c, "lost", <<>>)
  /\ UNCHANGED <<url, sharedVars, crawlerVars>>

\* A page without links, or one of the second level.
Leaf(c) ==
  /\ Runs(c, "fetch")
  /\ Release(c, "page", <<>>)
  /\ UNCHANGED <<url, sharedVars, crawlerVars>>

LinkTasks(c, links) == [j \in 1 .. Len(links) |-> <<c[1], c[2], j>>]
Found(c, links) ==
  /\ Runs(c, "fetch") /\ IsTop(c)
  /\ links /= <<>>
  /\ url' = [k \in Crawls |-> IF k \in ToSet(LinkTasks(c, links)) THEN links[k[3]] ELSE url[k]]
  /\ UNCHANGED <<sharedVars, crawlerVars>>

\* MUTANT of Branch: the links are crawled while the permit is held.
BranchHolding(c, links) ==
  /\ Found(c, links)
  /\ Goes(c, "subs", <<>>, None, LinkTasks(c, links))
  /\ UNCHANGED limiterVars

\* A page of the first level: a task for each of its first links.
Branch(c, links) ==
  /\ Found(c, links)
  /\ Release(c, "subs", LinkTasks(c, links))

\* The tasks of the links have ended, however they did.
Gathered(c) ==
  /\ Runs(c, "subs")
  /\ Only(c, "page")
  /\ UNCHANGED <<sharedVars, crawlerVars, limiterVars>>

-----------------------------------------------------------------------------
Run(c) ==
  \/ TurnAway(c) \/ Refuse(c) \/ Acquire(c) \/ Await(c) \/ Foreign(c)
  \/ Granted(c) \/ ProxyStarted(c) \/ CrawlerStarted(c)
  \/ Lose(c) \/ Leaf(c) \/ Gathered(c)
  \/ \E links \in BoundedSeq(Pages, MaxLinks) : Branch(c, links)

Next ==
  \/ \E r \in Requests :
       Close(r) \/ \E pages \in BoundedSeq(Pages, MaxTops) : Begin(r, pages)
  \/ \E c \in Crawls : Wake(c) \/ Run(c)

Spec == Init /\ [][Next]_vars

\* The loops run their tasks, and what a task waits for happens: arun has a
\* timeout and is retried a bounded number of times.
FairSpec ==
  /\ Spec
  /\ \A c \in Crawls : WF_vars(Wake(c)) /\ WF_vars(Run(c))
  /\ \A r \in Requests : WF_vars(Close(r))

-----------------------------------------------------------------------------
(* Properties.                                                             *)

TypeOK ==
  /\ url \in [Crawls -> Pages \union {None}]
  /\ pc \in [Crawls -> Pcs]
  /\ ready \in [Requests -> Seq(Crawls)]
  /\ visited \in [Requests -> SUBSET Pages]
  /\ budget \in [Requests -> 0 .. MaxBudget]
  /\ proxy \in [Requests -> BOOLEAN]
  /\ crawler \in [Requests -> BOOLEAN]
  /\ closed \in [Requests -> BOOLEAN]
  /\ permits \in [Domains -> 0 .. PerDomain]
  /\ waiters \in [Domains -> Seq(Crawls)]
  /\ owner \in [Domains -> Requests \union {None}]
  /\ \A c \in Crawls : pc[c] /= "none" => url[c] \in Pages

\* The tasks of _crawl_recursive fetch no page twice, and the budget is what
\* they fetched, although they test, mark and count with awaits in between.
PagesOnce ==
  \A r \in Requests :
    /\ Cardinality(Admitted(r)) = budget[r]
    /\ Cardinality({url[c] : c \in Admitted(r)}) = budget[r]

\* No link of a page takes the visit or the budget of a result away: each of
\* the best results that route() picks is crawled as one of the first level.
ResultsFirst ==
  \A c \in Crawls : pc[c] = "turned" => ~IsTop(c)

\* Each semaphore of the RateLimiter keeps its permits: whatever fails while
\* one is held, in whichever request, it is given back once.  And none lies
\* unused while a task waits for it, unless one that was woken has yet to run
\* and will hand it on.
PermitsKept ==
  \A d \in Domains :
    /\ permits[d] + Cardinality(Holders(d)) = PerDomain
    /\ waiters[d] /= <<>> /\ permits[d] > 0 =>
         \E k \in Crawls : pc[k] = "granted" /\ Domain(k) = d

\* The tasks of a request start one proxy and one crawler between them.
StartedOnce ==
  \A r \in Requests, place \in {"proxy", "crawler"} :
    Cardinality({c \in Crawls : c[1] = r /\ pc[c] = place}) <= 1

\* When route() closes the crawler no task uses it any more, nor will one.
ClosedUnused ==
  \A r \in Requests : closed[r] => \A c \in Crawls : c[1] = r => pc[c] \in Ended \union {"none"}

\* A crawl that was begun comes to its end: no task waits for a permit that
\* is held by a task waiting for it.
CrawlEnds ==
  \A r \in Requests : Begun(r) ~> closed[r]
=============================================================================
