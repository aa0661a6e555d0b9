-------------------------- MODULE DeepCrawl_proofs --------------------------
(***************************************************************************)
(* Proofs about DeepCrawl, for any requests, pages and limits: no page is  *)
(* fetched twice, the budget is what was fetched, the semaphores keep      *)
(* their permits, the proxy and the crawler are started once, the crawler  *)
(* is not used after it was closed, and the results that route() picks     *)
(* come before the links of their pages.  No task is left waiting while    *)
(* nobody can go on, and the steps of a crawl run out.                     *)
(***************************************************************************)
EXTENDS DeepCrawl, FiniteSetTheorems, SequenceTheorems, TLAPS

\* The part of the types that does not follow from other properties.
TypeInv ==
  /\ url \in [Crawls -> Pages \union {None}]
  /\ pc \in [Crawls -> Pcs]
  /\ visited \in [Requests -> SUBSET Pages]
  /\ budget \in [Requests -> Nat]
  /\ permits \in [Domains -> Nat]
  /\ waiters \in [Domains -> Seq(Crawls)]
  /\ \A c \in Crawls : pc[c] /= "none" => url[c] \in Pages

\* Whoever waits for a domain waits once, and for this domain.
WaitInv ==
  \A d \in Domains : \A i \in 1 .. Len(waiters[d]) :
    /\ pc[waiters[d][i]] = "wait" /\ Domain(waiters[d][i]) = d
    /\ \A j \in 1 .. Len(waiters[d]) : waiters[d][j] = waiters[d][i] => j = i

\* The links of a page have no tasks before the page was fetched.
SubsInv ==
  \A c \in Crawls : IsTop(c) /\ pc[c] \notin {"subs", "page"} =>
    \A k \in SubsOf(c) : pc[k] = "none"

Inv == TypeInv /\ WaitInv /\ SubsInv

\* A crawl is named by its request, its result and its link.
LEMMA CrawlsAreTriples ==
  /\ \A c \in Crawls : /\ c = <<c[1], c[2], c[3]>> /\ c[1] \in Requests
                       /\ c[2] \in 1 .. MaxTops /\ c[3] \in 0 .. MaxLinks
  /\ \A r \in Requests, i \in 1 .. MaxTops, j \in 0 .. MaxLinks :
       /\ <<r, i, j>> \in Crawls
       /\ <<r, i, j>>[1] = r /\ <<r, i, j>>[2] = i /\ <<r, i, j>>[3] = j
  BY DEF Crawls

\* What is assumed of the constants.
LEMMA Constants ==
  /\ IsFiniteSet(Requests)
  /\ MaxTops \in Nat /\ MaxLinks \in Nat /\ MaxBudget \in Nat /\ PerDomain \in Nat \ {0}
  /\ \A p \in Pages : DomainOf[p] \in Domains /\ p /= None
  BY CrawlAssumption DEF CrawlAssumption

\* The tasks that are woken are waiting ones.
LEMMA WokenWait ==
  ASSUME TypeInv, WaitInv, NEW d \in Domains, NEW n \in Nat
  PROVE  /\ Wakes(d, n) \in 0 .. Len(waiters[d]) /\ Wakes(d, n) <= n
         /\ ToSet(SubSeq(waiters[d], 1, Wakes(d, n))) = {waiters[d][i] : i \in 1 .. Wakes(d, n)}
         /\ \A i \in 1 .. Wakes(d, n) : waiters[d][i] \in Crawls /\ pc[waiters[d][i]] = "wait"
<1>1. waiters[d] \in Seq(Crawls) /\ Len(waiters[d]) \in Nat
  BY DEF TypeInv
<1>2. Wakes(d, n) \in 0 .. Len(waiters[d]) /\ Wakes(d, n) <= n
  BY <1>1 DEF Wakes
<1>3. \A i \in 1 .. Wakes(d, n) : waiters[d][i] \in Crawls /\ pc[waiters[d][i]] = "wait"
  BY <1>1, <1>2, ElementOfSeq DEF WaitInv
<1>4. LET s == SubSeq(waiters[d], 1, Wakes(d, n))
      IN  DOMAIN s = 1 .. Wakes(d, n) /\ \A i \in 1 .. Wakes(d, n) : s[i] = waiters[d][i]
  BY <1>1, <1>2
<1>5. QED
  BY <1>2, <1>3, <1>4 DEF ToSet

-----------------------------------------------------------------------------
(* What a step of a task does, whichever it is.                            *)

\* The task that runs goes from one place to another; it leaves "new" after it
\* was turned away, or with its page marked.
OwnMove(c) ==
  LET marked == /\ url[c] \notin visited[c[1]] /\ budget[c[1]] < MaxBudget
                /\ visited' = [visited EXCEPT ![c[1]] = @ \union {url[c]}]
  IN  /\ url'[c] = url[c]
      /\ \/ /\ pc[c] = "new" /\ pc'[c] = "turned"
            /\ UNCHANGED sharedVars
         \/ /\ pc[c] = "new" /\ pc'[c] = "unsafe"
            /\ marked /\ UNCHANGED budget
         \/ /\ pc[c] = "new" /\ pc'[c] \in {"proxy", "crawler", "fetch", "wait", "lost"}
            /\ marked /\ budget' = [budget EXCEPT ![c[1]] = @ + 1]
         \/ /\ pc[c] \in Holding /\ pc'[c] \in {"proxy", "crawler", "fetch", "lost", "page", "subs"}
            /\ UNCHANGED sharedVars
         \/ /\ pc[c] = "subs" /\ pc'[c] = "page"
            /\ UNCHANGED sharedVars

\* Another task stays where it is, is woken, or is made for a link.
OtherMoves(c, k) ==
  \/ pc'[k] = pc[k] /\ url'[k] = url[k]
  \/ pc[k] = "wait" /\ pc'[k] = "granted" /\ url'[k] = url[k]
  \/ /\ pc[k] = "none" /\ pc'[k] = "new"
     /\ pc[c] = "fetch" /\ pc'[c] = "subs" /\ IsTop(c) /\ k \in SubsOf(c)
     /\ url'[k] \in Pages

Shape(c) ==
  /\ pc' \in [Crawls -> Pcs] /\ url' \in [Crawls -> Pages \union {None}]
  /\ OwnMove(c)
  /\ \A k \in Crawls \ {c} : OtherMoves(c, k)

\* A step that wakes and makes nobody.
LEMMA OnlyShape ==
  ASSUME TypeInv, NEW c \in Crawls, NEW to \in Pcs, Only(c, to)
  PROVE  /\ pc' = [pc EXCEPT ![c] = to] /\ UNCHANGED url
         /\ pc' \in [Crawls -> Pcs] /\ url' \in [Crawls -> Pages \union {None}]
         /\ \A k \in Crawls \ {c} : OtherMoves(c, k)
<1>1. \A k : k \notin ToSet(<<>>)
  BY DEF ToSet
<1>2. pc' = [pc EXCEPT ![c] = to] /\ UNCHANGED url
  BY <1>1 DEF Only, Goes, TypeInv
<1>3. QED
  BY <1>2 DEF TypeInv, OtherMoves

\* The domain of a crawl that was begun.
LEMMA DomainType ==
  ASSUME TypeInv, NEW c \in Crawls, pc[c] /= "none"
  PROVE  Domain(c) \in Domains /\ permits[Domain(c)] \in Nat
  BY Constants DEF TypeInv, Domain

\* A step that hands permits to waiting tasks.
LEMMA HandsShape ==
  ASSUME TypeInv, WaitInv, NEW c \in Crawls, NEW to \in Pcs, pc[c] \notin {"none", "wait"},
         NEW n \in Nat, Hands(c, to, Domain(c), n, <<>>), UNCHANGED url
  PROVE  /\ pc' \in [Crawls -> Pcs] /\ url' \in [Crawls -> Pages \union {None}]
         /\ pc'[c] = to
         /\ \A k \in Crawls \ {c} : OtherMoves(c, k)
<1> DEFINE d == Domain(c)
           g == ToSet(SubSeq(waiters[d], 1, Wakes(d, n)))
<1>1. d \in Domains
  BY DomainType
<1>2. \A k \in g : pc[k] = "wait"
  <2>1. g = {waiters[d][i] : i \in 1 .. Wakes(d, n)}
        /\ \A i \in 1 .. Wakes(d, n) : pc[waiters[d][i]] = "wait"
    BY <1>1, WokenWait
  <2>2. QED
    BY <2>1
<1>3. \A k : k \notin ToSet(<<>>)
  BY DEF ToSet
<1>4. pc' = [k \in Crawls |-> IF k = c THEN to ELSE IF k \in g THEN "granted" ELSE pc[k]]
  BY <1>3 DEF Hands, Goes
<1>5. QED
  BY <1>2, <1>4 DEF TypeInv, OtherMoves, Pcs, Holding

\* The tasks for the links of a page are those of the second level below it.
LEMMA LinkTasksAreSubs ==
  ASSUME NEW c \in Crawls, IsTop(c), NEW links \in BoundedSeq(Pages, MaxLinks)
  PROVE  \A k \in ToSet(LinkTasks(c, links)) :
           k \in SubsOf(c) /\ k /= c /\ ~IsTop(k) /\ links[k[3]] \in Pages
<1>1. links \in Seq(Pages) /\ Len(links) <= MaxLinks
  <2>1. PICK m \in 0 .. MaxLinks : links \in [1 .. m -> Pages]
    BY DEF BoundedSeq, SeqOf
  <2>2. QED
    BY <2>1, Constants, SeqDef
<1>2. SUFFICES ASSUME NEW k \in ToSet(LinkTasks(c, links))
               PROVE  k \in SubsOf(c) /\ k /= c /\ ~IsTop(k) /\ links[k[3]] \in Pages
  OBVIOUS
<1>3. PICK j \in 1 .. Len(links) : k = <<c[1], c[2], j>>
  BY <1>1, <1>2 DEF ToSet, LinkTasks
<1>4. c = <<c[1], c[2], 0>> /\ c[1] \in Requests /\ c[2] \in 1 .. MaxTops /\ j \in 1 .. MaxLinks
  BY <1>1, <1>3, CrawlsAreTriples, Constants DEF IsTop
<1>5. k \in Crawls /\ k[1] = c[1] /\ k[2] = c[2] /\ k[3] = j
  BY <1>3, <1>4, CrawlsAreTriples, Constants
<1>6. links[j] \in Pages
  BY <1>1, <1>3
<1>7. QED
  BY <1>4, <1>5, <1>6 DEF SubsOf, IsTop

\* The places a task gets to are places.
LEMMA Places ==
  /\ {"turned", "unsafe", "lost", "page", "wait", "proxy", "crawler", "fetch", "granted", "subs", "new", "none"} \subseteq Pcs
  /\ \A c : Extracts(c) \in {"proxy", "crawler", "fetch"}
  BY DEF Pcs, Holding, Ended, Extracts

\* Steps that hand nothing to anybody.
LEMMA QuietShape ==
  ASSUME Inv, NEW c \in Crawls,
         TurnAway(c) \/ Refuse(c) \/ Acquire(c) \/ Await(c) \/ Foreign(c)
           \/ ProxyStarted(c) \/ CrawlerStarted(c) \/ Gathered(c)
  PROVE  Shape(c)
<1>1. TypeInv
  BY DEF Inv
<1>2. ASSUME NEW to \in Pcs, Only(c, to), OwnMove(c)
      PROVE  Shape(c)
  BY <1>1, <1>2, OnlyShape DEF Shape
<1>3. ASSUME NEW to \in Pcs, Only(c, to)
      PROVE  pc'[c] = to /\ url'[c] = url[c]
  BY <1>1, <1>3, OnlyShape DEF TypeInv
<1>4. CASE TurnAway(c)
  BY <1>2, <1>3, <1>4, Places DEF TurnAway, Runs, OwnMove
<1>5. CASE Refuse(c)
  BY <1>2, <1>3, <1>5, Places DEF Refuse, Visit, Fresh, Runs, OwnMove
<1>6. CASE Acquire(c)
  BY <1>2, <1>3, <1>6, Places DEF Acquire, Spend, Visit, Fresh, Runs, OwnMove
<1>7. CASE Await(c)
  BY <1>2, <1>3, <1>7, Places DEF Await, Spend, Visit, Fresh, Runs, OwnMove
<1>8. CASE Foreign(c)
  BY <1>2, <1>3, <1>8, Places DEF Foreign, Spend, Visit, Fresh, Runs, OwnMove
<1>9. CASE ProxyStarted(c)
  <2>1. PICK to \in {"fetch", "crawler"} : Only(c, to)
    BY <1>9 DEF ProxyStarted
  <2>2. pc'[c] = to /\ url'[c] = url[c]
    BY <1>3, <2>1, Places
  <2>3. OwnMove(c)
    BY <1>9, <2>1, <2>2 DEF ProxyStarted, Runs, OwnMove, Holding
  <2>4. QED
    BY <1>2, <2>1, <2>3, Places
<1>10. CASE CrawlerStarted(c)
  BY <1>2, <1>3, <1>10, Places DEF CrawlerStarted, Runs, OwnMove, Holding
<1>11. CASE Gathered(c)
  BY <1>2, <1>3, <1>11, Places DEF Gathered, Runs, OwnMove
<1>12. QED
  BY <1>4, <1>5, <1>6, <1>7, <1>8, <1>9, <1>10, <1>11

\* Steps that hand a permit to others.
LEMMA HandingShape ==
  ASSUME Inv, NEW c \in Crawls, Granted(c) \/ Lose(c) \/ Leaf(c)
  PROVE  Shape(c)
<1>1. TypeInv /\ WaitInv
  BY DEF Inv
<1>2. PICK to \in {"proxy", "crawler", "fetch", "lost", "page"}, n \in Nat :
        Hands(c, to, Domain(c), n, <<>>)
  <2>1. pc[c] /= "none" => permits[Domain(c)] \in Nat
    BY <1>1, DomainType
  <2>2. QED
    BY <2>1, Places DEF Granted, Lose, Leaf, Runs, Release
<1>3. UNCHANGED <<url, visited, budget>>
  BY DEF Granted, Lose, Leaf, sharedVars
<1>4. pc[c] \in Holding
  BY DEF Granted, Lose, Leaf, Runs, Holding
<1>5. /\ pc' \in [Crawls -> Pcs] /\ url' \in [Crawls -> Pages \union {None}]
      /\ pc'[c] = to
      /\ \A k \in Crawls \ {c} : OtherMoves(c, k)
  BY <1>1, <1>2, <1>3, <1>4, HandsShape, Places DEF Holding
<1>6. OwnMove(c)
  BY <1>3, <1>4, <1>5 DEF OwnMove, sharedVars
<1>7. QED
  BY <1>5, <1>6 DEF Shape

\* The step that makes tasks for the links of a page.
LEMMA BranchShape ==
  ASSUME Inv, NEW c \in Crawls, NEW links \in BoundedSeq(Pages, MaxLinks), Branch(c, links)
  PROVE  Shape(c)
<1> DEFINE d == Domain(c)
           g == ToSet(SubSeq(waiters[d], 1, Wakes(d, 1)))
           m == ToSet(LinkTasks(c, links))
<1>1. TypeInv /\ WaitInv /\ SubsInv
  BY DEF Inv
<1>2. pc[c] = "fetch" /\ IsTop(c)
  BY DEF Branch, Found, Runs
<1>3. \A k \in g : pc[k] = "wait"
  <2>1. d \in Domains
    BY <1>1, <1>2, DomainType
  <2>2. g = {waiters[d][i] : i \in 1 .. Wakes(d, 1)}
        /\ \A i \in 1 .. Wakes(d, 1) : pc[waiters[d][i]] = "wait"
    BY <1>1, <2>1, WokenWait
  <2>3. QED
    BY <2>2
<1>4. \A k \in m : k \in SubsOf(c) /\ k /= c /\ links[k[3]] \in Pages
  BY <1>2, LinkTasksAreSubs
<1>5. \A k \in m : pc[k] = "none"
  BY <1>1, <1>2, <1>4 DEF SubsInv
<1>6. pc' = [k \in Crawls |-> IF k = c THEN "subs" ELSE IF k \in g THEN "granted"
                              ELSE IF k \in m THEN "new" ELSE pc[k]]
  BY DEF Branch, Release, Hands, Goes
<1>7. url' = [k \in Crawls |-> IF k \in m THEN links[k[3]] ELSE url[k]]
      /\ UNCHANGED <<visited, budget>>
  BY DEF Branch, Found, sharedVars
<1>8. pc' \in [Crawls -> Pcs] /\ pc'[c] = "subs"
  <2> HIDE DEF g, m
  <2> QED
    BY <1>1, <1>6, Places DEF TypeInv
<1>9. url' \in [Crawls -> Pages \union {None}] /\ url'[c] = url[c]
  <2> HIDE DEF g, m
  <2> QED
    BY <1>1, <1>4, <1>7 DEF TypeInv
<1>10. \A k \in Crawls \ {c} : OtherMoves(c, k)
  <2> HIDE DEF g, m
  <2> QED
    BY <1>2, <1>3, <1>4, <1>5, <1>6, <1>7 DEF OtherMoves
<1>11. OwnMove(c)
  BY <1>2, <1>7, <1>8, <1>9 DEF OwnMove, sharedVars, Holding
<1>12. QED
  BY <1>8, <1>9, <1>10, <1>11 DEF Shape

\* Whatever the task of c does, it does it like this.
LEMMA RunShape ==
  ASSUME Inv, NEW c \in Crawls, Run(c)
  PROVE  Shape(c)
  BY QuietShape, HandingShape, BranchShape DEF Run

-----------------------------------------------------------------------------
(* The invariants of the queues of the semaphores.                         *)

\* What a step may do to the semaphores.
LimiterStep(c) ==
  LET d == Domain(c)
  IN  \/ UNCHANGED waiters /\ pc' = [pc EXCEPT ![c] = pc'[c]] /\ pc'[c] /= "wait"
      \/ /\ pc[c] = "new" /\ pc' = [pc EXCEPT ![c] = "wait"]
         /\ waiters' = [waiters EXCEPT ![d] = Append(@, c)]
      \/ \E n \in Nat, made \in SUBSET Crawls :
           /\ pc[c] \in Holding /\ pc'[c] /= "wait"
           /\ waiters' = [waiters EXCEPT ![d] = SubSeq(@, Wakes(d, n) + 1, Len(@))]
           /\ \A k \in made : pc[k] = "none"
           /\ \A k \in Crawls \ {c} :
                pc'[k] = IF k \in {waiters[d][i] : i \in 1 .. Wakes(d, n)} THEN "granted"
                         ELSE IF k \in made THEN "new" ELSE pc[k]

\* Every step does one of the three.
LEMMA RunLimiter ==
  ASSUME Inv, NEW c \in Crawls, Run(c)
  PROVE  LimiterStep(c) /\ permits' \in [Domains -> Nat]
<1> DEFINE d == Domain(c)
<1>1. TypeInv /\ WaitInv /\ SubsInv
  BY DEF Inv
<1>2. pc[c] \notin {"none", "wait"}
  BY RunShape DEF Shape, OwnMove, Holding
<1>3. d \in Domains /\ permits[d] \in Nat /\ permits \in [Domains -> Nat]
  BY <1>1, <1>2, DomainType DEF TypeInv
<1>4. CASE TurnAway(c) \/ Refuse(c) \/ Foreign(c) \/ ProxyStarted(c) \/ CrawlerStarted(c) \/ Gathered(c)
  <2>1. PICK to \in Pcs \ {"wait"} : Only(c, to)
    BY <1>4, Places DEF TurnAway, Refuse, Foreign, ProxyStarted, CrawlerStarted, Gathered
  <2>2. UNCHANGED <<permits, waiters>>
    BY <1>4 DEF TurnAway, Refuse, Foreign, ProxyStarted, CrawlerStarted, Gathered, limiterVars
  <2>3. pc' = [pc EXCEPT ![c] = to]
    BY <1>1, <2>1, OnlyShape
  <2>4. QED
    BY <1>1, <1>3, <2>2, <2>3 DEF LimiterStep, TypeInv
<1>5. CASE Acquire(c)
  <2>1. Extracts(c) \in Pcs \ {"wait"}
    BY Places
  <2>2. pc' = [pc EXCEPT ![c] = Extracts(c)]
    BY <1>1, <1>5, <2>1, OnlyShape DEF Acquire
  <2>3. UNCHANGED waiters /\ permits' = [permits EXCEPT ![d] = @ - 1] /\ permits[d] > 0
    BY <1>5 DEF Acquire, Free
  <2>4. permits' \in [Domains -> Nat]
    BY <1>3, <2>3
  <2>5. LimiterStep(c)
    BY <1>1, <2>1, <2>2, <2>3 DEF LimiterStep, TypeInv
  <2>6. QED
    BY <2>4, <2>5
<1>6. CASE Await(c)
  <2>1. pc' = [pc EXCEPT ![c] = "wait"]
    BY <1>1, <1>6, OnlyShape, Places DEF Await
  <2>2. pc[c] = "new" /\ UNCHANGED permits /\ waiters' = [waiters EXCEPT ![d] = Append(@, c)]
    BY <1>6 DEF Await, Spend, Visit, Runs
  <2>3. QED
    BY <1>3, <2>1, <2>2 DEF LimiterStep
<1>7. ASSUME NEW to \in Pcs \ {"wait"}, NEW n \in Nat, pc[c] \in Holding,
             NEW s, ToSet(s) \subseteq SubsOf(c), \A k \in ToSet(s) : pc[k] = "none",
             Hands(c, to, d, n, s)
      PROVE  LimiterStep(c)
  <2> DEFINE g == {waiters[d][i] : i \in 1 .. Wakes(d, n)}
             m == ToSet(s)
  <2>1. ToSet(SubSeq(waiters[d], 1, Wakes(d, n))) = g
    BY <1>1, <1>3, WokenWait
  <2>2. pc' = [k \in Crawls |-> IF k = c THEN to ELSE IF k \in g THEN "granted"
                                ELSE IF k \in m THEN "new" ELSE pc[k]]
    BY <1>7, <2>1 DEF Hands, Goes
  <2>3. waiters' = [waiters EXCEPT ![d] = SubSeq(@, Wakes(d, n) + 1, Len(@))]
    BY <1>7 DEF Hands
  <2>4. m \in SUBSET Crawls
    BY <1>7 DEF SubsOf
  <2>5. /\ pc'[c] = to
        /\ \A k \in Crawls \ {c} : pc'[k] = IF k \in g THEN "granted" ELSE IF k \in m THEN "new" ELSE pc[k]
    <3> HIDE DEF g, m
    <3> QED
      BY <2>2
  <2>6. QED
    BY <1>7, <2>3, <2>4, <2>5 DEF LimiterStep
<1>8. ToSet(<<>>) = {}
  BY DEF ToSet
<1>9. CASE Granted(c)
  <2>1. pc[c] \in Holding /\ Hands(c, Extracts(c), d, permits[d], <<>>) /\ Extracts(c) \in Pcs \ {"wait"}
    BY <1>9, Places DEF Granted, Runs, Holding
  <2>2. LimiterStep(c)
    BY <1>3, <1>7, <1>8, <2>1
  <2>3. permits' = [permits EXCEPT ![d] = @ - Wakes(d, permits[d])]
    BY <1>9 DEF Granted
  <2>4. Wakes(d, permits[d]) \in Nat /\ Wakes(d, permits[d]) <= permits[d]
    BY <1>1, <1>3, WokenWait DEF TypeInv
  <2>5. QED
    BY <1>3, <2>2, <2>3, <2>4
<1>10. ASSUME NEW to \in Pcs, NEW s, Release(c, to, s)
       PROVE  permits' \in [Domains -> Nat]
  <2>1. Wakes(d, 1) \in Nat /\ Wakes(d, 1) <= 1
    BY <1>1, <1>3, WokenWait DEF TypeInv
  <2>2. permits' = [permits EXCEPT ![d] = @ + 1 - Wakes(d, 1)]
    BY <1>10 DEF Release
  <2>3. QED
    BY <1>3, <2>1, <2>2
<1>11. CASE Lose(c) \/ Leaf(c)
  <2>1. PICK to \in {"lost", "page"} : Release(c, to, <<>>)
    BY <1>11 DEF Lose, Leaf
  <2>2. pc[c] \in Holding /\ to \in Pcs \ {"wait"} /\ Hands(c, to, d, 1, <<>>)
    BY <1>11, <2>1, Places DEF Lose, Leaf, Runs, Holding, Release
  <2>3. QED
    BY <1>7, <1>8, <1>10, <2>1, <2>2
<1>12. ASSUME NEW links \in BoundedSeq(Pages, MaxLinks), Branch(c, links)
       PROVE  LimiterStep(c) /\ permits' \in [Domains -> Nat]
  <2>1. pc[c] = "fetch" /\ IsTop(c) /\ Release(c, "subs", LinkTasks(c, links))
    BY <1>12 DEF Branch, Found, Runs
  <2>2. \A k \in ToSet(LinkTasks(c, links)) : k \in SubsOf(c) /\ pc[k] = "none"
    BY <1>1, <2>1, LinkTasksAreSubs DEF SubsInv
  <2>3. Hands(c, "subs", d, 1, LinkTasks(c, links)) /\ pc[c] \in Holding
    BY <2>1 DEF Release, Holding
  <2>4. QED
    BY <1>7, <1>10, <2>1, <2>2, <2>3, Places
<1>13. QED
  BY <1>4, <1>5, <1>6, <1>9, <1>11, <1>12 DEF Run

\* The page of a crawl that was begun never changes.
LEMMA PageKept ==
  ASSUME Inv, NEW c \in Crawls, Run(c), NEW k \in Crawls, pc[k] /= "none"
  PROVE  url'[k] = url[k] /\ pc'[k] /= "none" /\ (k /= c => pc'[k] \in {pc[k], "granted"})
  BY RunShape DEF Shape, OwnMove, OtherMoves

\* The queues stay queues of waiting tasks.
LEMMA WaitKept ==
  ASSUME Inv, NEW c \in Crawls, Run(c)
  PROVE  WaitInv' /\ waiters' \in [Domains -> Seq(Crawls)]
<1> DEFINE d == Domain(c)
<1>1. TypeInv /\ WaitInv /\ waiters \in [Domains -> Seq(Crawls)]
  BY DEF Inv, TypeInv
<1>2. pc[c] \notin {"none", "wait"}
  BY RunShape DEF Shape, OwnMove, Holding
<1>3. d \in Domains
  BY <1>1, <1>2, DomainType
<1>4. \A e \in Domains : \A i \in 1 .. Len(waiters[e]) :
        /\ waiters[e][i] \in Crawls /\ pc[waiters[e][i]] = "wait" /\ waiters[e][i] /= c
        /\ DomainOf[url[waiters[e][i]]] = e
        /\ url'[waiters[e][i]] = url[waiters[e][i]]
  BY <1>1, <1>2, PageKept, ElementOfSeq DEF WaitInv, Domain
<1>5. SUFFICES ASSUME NEW e \in Domains
               PROVE  /\ waiters'[e] \in Seq(Crawls)
                      /\ \A i \in 1 .. Len(waiters'[e]) :
                           /\ pc'[waiters'[e][i]] = "wait" /\ DomainOf[url'[waiters'[e][i]]] = e
                           /\ \A j \in 1 .. Len(waiters'[e]) : waiters'[e][j] = waiters'[e][i] => j = i
  <2>1. waiters' = [x \in Domains |-> waiters'[x]]
    BY <1>1, RunLimiter DEF LimiterStep
  <2>2. QED
    BY <1>5, <2>1 DEF WaitInv, Domain
<1>6. CASE UNCHANGED waiters /\ pc' = [pc EXCEPT ![c] = pc'[c]]
  BY <1>1, <1>4, <1>6 DEF WaitInv, TypeInv
<1>7. CASE /\ pc[c] = "new" /\ pc' = [pc EXCEPT ![c] = "wait"]
           /\ waiters' = [waiters EXCEPT ![d] = Append(@, c)]
  <2>1. CASE e /= d
    BY <1>1, <1>4, <1>7, <2>1 DEF WaitInv, TypeInv
  <2>2. CASE e = d
    <3>1. waiters'[e] = Append(waiters[e], c)
      BY <1>1, <1>7, <2>2
    <3>2. /\ Len(waiters'[e]) = Len(waiters[e]) + 1
          /\ \A i \in 1 .. Len(waiters[e]) : waiters'[e][i] = waiters[e][i]
          /\ waiters'[e][Len(waiters[e]) + 1] = c
          /\ waiters'[e] \in Seq(Crawls) /\ Len(waiters[e]) \in Nat
      BY <1>1, <3>1, AppendProperties
    <3>3. pc'[c] = "wait" /\ DomainOf[url'[c]] = e
      BY <1>1, <1>2, <1>7, <2>2, PageKept DEF TypeInv, Domain
    <3>4. \A i \in 1 .. Len(waiters[e]) : pc'[waiters[e][i]] = "wait"
      BY <1>1, <1>4, <1>7 DEF TypeInv
    <3>5. QED
      BY <1>1, <1>4, <3>2, <3>3, <3>4 DEF WaitInv
  <2>3. QED
    BY <2>1, <2>2
<1>8. ASSUME NEW n \in Nat, NEW made \in SUBSET Crawls,
             pc[c] \in Holding,
             waiters' = [waiters EXCEPT ![d] = SubSeq(@, Wakes(d, n) + 1, Len(@))],
             \A k \in made : pc[k] = "none",
             \A k \in Crawls \ {c} :
               pc'[k] = IF k \in {waiters[d][i] : i \in 1 .. Wakes(d, n)} THEN "granted"
                        ELSE IF k \in made THEN "new" ELSE pc[k]
      PROVE  /\ waiters'[e] \in Seq(Crawls)
             /\ \A i \in 1 .. Len(waiters'[e]) :
                  /\ pc'[waiters'[e][i]] = "wait" /\ DomainOf[url'[waiters'[e][i]]] = e
                  /\ \A j \in 1 .. Len(waiters'[e]) : waiters'[e][j] = waiters'[e][i] => j = i
  <2>1. Wakes(d, n) \in 0 .. Len(waiters[d])
    BY <1>1, <1>3, WokenWait
  <2>2. CASE e /= d
    <3>1. waiters'[e] = waiters[e]
      BY <1>8, <2>2
    <3>2. ASSUME NEW i \in 1 .. Len(waiters[e]), NEW j \in 1 .. Wakes(d, n)
          PROVE  waiters[e][i] /= waiters[d][j]
      BY <1>3, <1>4, <2>1, <2>2, LenProperties, <1>1
    <3>3. \A i \in 1 .. Len(waiters[e]) : pc'[waiters[e][i]] = "wait"
      BY <1>4, <1>8, <3>2
    <3>4. QED
      BY <1>1, <1>4, <3>1, <3>3 DEF WaitInv
  <2>3. CASE e = d
    <3> DEFINE w == Wakes(d, n)
    <3>1. waiters'[e] = SubSeq(waiters[e], w + 1, Len(waiters[e])) /\ Len(waiters[e]) \in Nat
      <4>1. waiters'[d] = SubSeq(waiters[d], w + 1, Len(waiters[d]))
        BY <1>1, <1>3, <1>8, Zenon
      <4>2. QED
        BY <1>1, <1>3, <2>3, <4>1, LenProperties
    <3>2. /\ waiters'[e] \in Seq(Crawls) /\ Len(waiters'[e]) = Len(waiters[e]) - w
          /\ \A i \in 1 .. Len(waiters[e]) - w : waiters'[e][i] = waiters[e][w + i]
      BY <1>1, <2>1, <2>3, <3>1
    <3>3. ASSUME NEW i \in 1 .. Len(waiters[e]) - w, NEW j \in 1 .. w
          PROVE  waiters[e][w + i] /= waiters[e][j]
      BY <1>1, <2>1, <2>3, <3>1 DEF WaitInv
    <3>4. ASSUME NEW i \in 1 .. Len(waiters[e]) - w
          PROVE  pc'[waiters[e][w + i]] = "wait"
      <4>1. w + i \in 1 .. Len(waiters[e])
        BY <2>1, <2>3, <3>1
      <4>2. waiters[e][w + i] \notin {waiters[d][j] : j \in 1 .. w}
        BY <2>3, <3>3
      <4>3. QED
        BY <1>4, <1>8, <4>1, <4>2
    <3>5. QED
      <4>1. \A i \in 1 .. Len(waiters[e]) - w : w + i \in 1 .. Len(waiters[e])
        BY <2>1, <2>3, <3>1
      <4>2. \A i, j \in 1 .. Len(waiters[e]) - w : waiters[e][w + j] = waiters[e][w + i] => j = i
        BY <1>1, <2>1, <2>3, <3>1, <4>1 DEF WaitInv
      <4>3. QED
        BY <1>4, <3>2, <3>4, <4>1, <4>2
  <2>4. QED
    BY <2>2, <2>3
<1>9. QED
  BY <1>6, <1>7, <1>8, RunLimiter DEF LimiterStep

-----------------------------------------------------------------------------
(* The invariant Inv.                                                      *)

\* No step of a task breaks it.
LEMMA RunKeepsInv ==
  ASSUME Inv, NEW c \in Crawls, Run(c)
  PROVE  Inv'
<1>1. TypeInv /\ SubsInv /\ Shape(c) /\ c[1] \in Requests
  BY RunShape, CrawlsAreTriples DEF Inv
<1>2. pc[c] /= "none" /\ url[c] \in Pages
  BY <1>1 DEF Shape, OwnMove, TypeInv, Holding
<1>3. visited' \in [Requests -> SUBSET Pages] /\ budget' \in [Requests -> Nat]
  <2>1. visited \in [Requests -> SUBSET Pages] /\ budget \in [Requests -> Nat]
    BY <1>1 DEF TypeInv
  <2>2. visited' = visited \/ visited' = [visited EXCEPT ![c[1]] = @ \union {url[c]}]
    BY <1>1 DEF Shape, OwnMove, sharedVars
  <2>3. budget' = budget \/ budget' = [budget EXCEPT ![c[1]] = @ + 1]
    BY <1>1 DEF Shape, OwnMove, sharedVars
  <2>4. visited' \in [Requests -> SUBSET Pages]
    BY <1>1, <1>2, <2>1, <2>2
  <2>5. budget' \in [Requests -> Nat]
    BY <1>1, <2>1, <2>3
  <2>6. QED
    BY <2>4, <2>5
<1>4. \A k \in Crawls : pc'[k] /= "none" => url'[k] \in Pages
  <2>1. url'[c] \in Pages
    BY <1>1, <1>2 DEF Shape, OwnMove
  <2>2. ASSUME NEW k \in Crawls \ {c}, pc'[k] /= "none"
        PROVE  url'[k] \in Pages
    BY <1>1, <2>2 DEF Shape, OtherMoves, TypeInv
  <2>3. QED
    BY <2>1, <2>2
<1>5. TypeInv'
  BY <1>1, <1>3, <1>4, WaitKept, RunLimiter DEF TypeInv, Shape
<1>6. SubsInv'
  <2> SUFFICES ASSUME NEW t \in Crawls, IsTop(t), pc'[t] \notin {"subs", "page"},
                      NEW k \in SubsOf(t)
               PROVE  pc'[k] = "none"
    BY DEF SubsInv, IsTop, SubsOf
  <2>1. k \in Crawls /\ ~IsTop(k) /\ k /= t
    BY DEF SubsOf
  <2>2. pc[t] \notin {"subs", "page"}
    BY <1>1 DEF Shape, OwnMove, OtherMoves, Holding
  <2>3. pc[k] = "none"
    BY <1>1, <2>2 DEF SubsInv
  <2>4. c /= k
    BY <1>2, <2>3
  <2>5. ~(IsTop(c) /\ k \in SubsOf(c) /\ pc'[c] = "subs")
    <3> SUFFICES ASSUME IsTop(c), k \in SubsOf(c), pc'[c] = "subs"
                 PROVE  FALSE
      OBVIOUS
    <3>1. c[1] = t[1] /\ c[2] = t[2] /\ c[3] = t[3]
      BY DEF SubsOf, IsTop
    <3>2. c = t
      BY <3>1, CrawlsAreTriples
    <3>3. QED
      BY <3>2
  <2>6. QED
    BY <1>1, <2>1, <2>3, <2>4, <2>5 DEF Shape, OtherMoves
<1>7. QED
  BY <1>5, <1>6, WaitKept DEF Inv

\* What the start of a crawl does.
LEMMA BeginShape ==
  ASSUME Inv, NEW r \in Requests, NEW pages \in BoundedSeq(Pages, MaxTops), Begin(r, pages)
  PROVE  /\ pc' \in [Crawls -> Pcs] /\ url' \in [Crawls -> Pages \union {None}]
         /\ \A k \in Crawls : \/ pc'[k] = pc[k] /\ url'[k] = url[k]
                              \/ /\ IsTop(k) /\ k[1] = r /\ pc[k] = "none"
                                 /\ pc'[k] = "new" /\ url'[k] \in Pages
         /\ UNCHANGED <<sharedVars, crawlerVars, limiterVars>>
<1> DEFINE tasks == ToSet(FirstTasks(r, pages))
<1>1. pages \in Seq(Pages) /\ Len(pages) \in 0 .. MaxTops
  <2>1. PICK m \in 0 .. MaxTops : pages \in [1 .. m -> Pages]
    BY DEF BoundedSeq, SeqOf
  <2>2. QED
    BY <2>1, Constants, SeqDef
<1>2. ASSUME NEW k \in tasks
      PROVE  k \in Tops(r) /\ pages[k[2]] \in Pages /\ k[1] = r
  <2>1. PICK i \in 1 .. Len(pages) : k = <<r, i, 0>>
    BY <1>1 DEF FirstTasks, ToSet
  <2>2. i \in 1 .. MaxTops /\ 0 \in 0 .. MaxLinks
    BY <1>1, Constants
  <2>3. k \in Crawls /\ k[1] = r /\ k[2] = i /\ k[3] = 0
    BY <2>1, <2>2, CrawlsAreTriples
  <2>4. pages[i] \in Pages
    BY <1>1
  <2>5. QED
    BY <2>3, <2>4 DEF Tops, IsTop
<1>3. /\ \A c \in Tops(r) : pc[c] = "none"
      /\ url' = [c \in Crawls |-> IF c \in tasks THEN pages[c[2]] ELSE url[c]]
      /\ pc' = [c \in Crawls |-> IF c \in tasks THEN "new" ELSE pc[c]]
      /\ UNCHANGED <<sharedVars, crawlerVars, limiterVars>>
  BY DEF Begin, Starts
<1>4. TypeInv
  BY DEF Inv
<1> HIDE DEF tasks
<1>5. \A k \in tasks : IsTop(k) /\ pc[k] = "none"
  BY <1>2, <1>3 DEF Tops
<1>6. QED
  BY <1>2, <1>3, <1>4, <1>5, Places DEF TypeInv

\* Nor does the start of a crawl.
LEMMA BeginKeepsInv ==
  ASSUME Inv, NEW r \in Requests, NEW pages \in BoundedSeq(Pages, MaxTops), Begin(r, pages)
  PROVE  Inv'
<1>1. TypeInv /\ WaitInv /\ SubsInv
  BY DEF Inv
<1>2. TypeInv'
  BY <1>1, BeginShape DEF TypeInv, sharedVars, limiterVars
<1>3. WaitInv'
  <2>1. UNCHANGED waiters
    BY BeginShape DEF limiterVars
  <2>2. \A d \in Domains : \A i \in 1 .. Len(waiters[d]) : waiters[d][i] \in Crawls
    BY <1>1, ElementOfSeq DEF TypeInv
  <2>3. \A k \in Crawls : pc[k] = "wait" => pc'[k] = "wait" /\ url'[k] = url[k]
    BY BeginShape
  <2>4. QED
    BY <1>1, <2>1, <2>2, <2>3 DEF WaitInv, Domain
<1>4. SubsInv'
  <2> SUFFICES ASSUME NEW t \in Crawls, IsTop(t), pc'[t] \notin {"subs", "page"},
                      NEW k \in SubsOf(t)
               PROVE  pc'[k] = "none"
    BY DEF SubsInv, IsTop, SubsOf
  <2>1. k \in Crawls /\ ~IsTop(k)
    BY DEF SubsOf
  <2>2. pc[t] \notin {"subs", "page"} /\ pc'[k] = pc[k]
    BY <2>1, BeginShape
  <2>3. QED
    BY <1>1, <2>2 DEF SubsInv
<1>5. QED
  BY <1>2, <1>3, <1>4 DEF Inv

\* The other steps change nothing it is about.
LEMMA IdleKeepsInv ==
  ASSUME Inv, UNCHANGED <<url, pc, visited, budget, permits, waiters>>
  PROVE  Inv'
<1>1. TypeInv'
  BY DEF Inv, TypeInv
<1>2. WaitInv'
  BY DEF Inv, WaitInv, Domain
<1>3. SubsInv'
  BY DEF Inv, SubsInv, IsTop, SubsOf
<1>4. QED
  BY <1>1, <1>2, <1>3 DEF Inv

\* A step is one of a task, the start of a crawl, or changes nothing of these.
LEMMA StepKinds ==
  ASSUME [Next]_vars
  PROVE  \/ \E c \in Crawls : Run(c)
         \/ \E r \in Requests, pages \in BoundedSeq(Pages, MaxTops) : Begin(r, pages)
         \/ UNCHANGED <<url, pc, visited, budget, permits, waiters>>
  BY DEF Next, Close, Wake, vars, taskVars, sharedVars, limiterVars

\* Initially nothing has begun.
LEMMA InitInv == Init => Inv
<1> SUFFICES ASSUME Init PROVE Inv
  OBVIOUS
<1>1. TypeInv
  BY Places, Constants DEF Init, TypeInv
<1>2. WaitInv
  BY DEF Init, WaitInv
<1>3. SubsInv
  BY DEF Init, SubsInv, SubsOf
<1>4. QED
  BY <1>1, <1>2, <1>3 DEF Inv

\* Tasks move from place to place as the code lets them.
LEMMA Invariant == Spec => []Inv
<1>1. Inv /\ [Next]_vars => Inv'
  BY StepKinds, RunKeepsInv, BeginKeepsInv, IdleKeepsInv
<1>2. QED
  BY <1>1, InitInv, PTL DEF Spec

-----------------------------------------------------------------------------
(* Pages and budget.                                                       *)

IsAdmitted(c) == pc[c] \notin {"none", "new", "turned", "unsafe"}

\* The page of every admitted crawl is marked, no two have the same, and the
\* budget counts them.
PagesInv ==
  /\ \A c \in Crawls : IsAdmitted(c) => url[c] \in visited[c[1]]
  /\ \A c, k \in Crawls :
       IsAdmitted(c) /\ IsAdmitted(k) /\ c[1] = k[1] /\ url[c] = url[k] => c = k
  /\ \A r \in Requests : Cardinality(Admitted(r)) = budget[r]

\* The crawls of a request are finitely many.
LEMMA FewCrawls ==
  \A r \in Requests : IsFiniteSet(Admitted(r))
<1> TAKE r \in Requests
<1>1. IsFiniteSet(1 .. MaxTops) /\ IsFiniteSet(0 .. MaxLinks) /\ IsFiniteSet({r})
  <2>1. MaxTops \in Int /\ MaxLinks \in Int /\ 0 \in Int /\ 1 \in Int
    BY Constants
  <2>2. QED
    BY <2>1, FS_Interval, FS_Singleton
<1> DEFINE pairs == (1 .. MaxTops) \X (0 .. MaxLinks)
           f == [p \in pairs |-> <<r, p[1], p[2]>>]
           all == {c \in Crawls : c[1] = r}
<1>2. IsFiniteSet(pairs)
  BY <1>1, FS_Product
<1>3. f \in Surjection(pairs, all)
  <2>1. \A p \in pairs : f[p] \in all
    BY CrawlsAreTriples
  <2>2. \A c \in all : \E p \in pairs : f[p] = c
    <3>1. TAKE c \in all
    <3>2. <<c[2], c[3]>> \in pairs /\ f[<<c[2], c[3]>>] = c
      BY CrawlsAreTriples
    <3>3. QED
      BY <3>2
  <2>3. QED
    BY <2>1, <2>2 DEF Surjection
<1>4. IsFiniteSet(all)
  BY <1>2, <1>3, FS_Surjection
<1>5. Admitted(r) \in SUBSET all
  BY DEF Admitted
<1>6. QED
  BY <1>4, <1>5, FS_Subset

\* Being admitted is for ever, and only a task that runs becomes admitted.
LEMMA Admission ==
  ASSUME Inv, NEW c \in Crawls, Run(c), NEW k \in Crawls, k /= c
  PROVE  IsAdmitted(k)' = IsAdmitted(k) /\ (IsAdmitted(k) => url'[k] = url[k])
<1>1. OtherMoves(c, k)
  BY RunShape DEF Shape
<1>2. QED
  BY <1>1 DEF OtherMoves, IsAdmitted

\* No step of a task breaks it: the page is marked in the step that tested it.
LEMMA RunKeepsPages ==
  ASSUME Inv, PagesInv, NEW c \in Crawls, Run(c)
  PROVE  PagesInv'
<1> DEFINE q == c[1]
<1>1. TypeInv /\ OwnMove(c) /\ q \in Requests
  BY RunShape, CrawlsAreTriples DEF Inv, Shape
<1>2. \A k \in Crawls \ {c} : IsAdmitted(k)' = IsAdmitted(k) /\ (IsAdmitted(k) => url'[k] = url[k])
  BY Admission
<1>3. \A k \in Crawls : k[1] \in Requests
  BY CrawlsAreTriples
<1>4. CASE /\ pc[c] = "new" /\ pc'[c] \in {"proxy", "crawler", "fetch", "wait", "lost"}
           /\ url[c] \notin visited[q] /\ visited' = [visited EXCEPT ![q] = @ \union {url[c]}]
           /\ budget' = [budget EXCEPT ![q] = @ + 1]
  <2>1. ~IsAdmitted(c) /\ IsAdmitted(c)' /\ url'[c] = url[c]
    BY <1>1, <1>4 DEF IsAdmitted, OwnMove
  <2>2. \A k \in Crawls : visited[k[1]] \subseteq visited'[k[1]]
    BY <1>1, <1>3, <1>4 DEF TypeInv
  <2>3. url[c] \in visited'[q]
    BY <1>1, <1>4 DEF TypeInv
  <2>4. \A k \in Crawls : IsAdmitted(k)' => url'[k] \in visited'[k[1]]
    BY <1>2, <2>1, <2>2, <2>3 DEF PagesInv
  <2>5. ASSUME NEW k \in Crawls \ {c}, IsAdmitted(k)', k[1] = q
        PROVE  url'[k] /= url'[c]
    BY <1>2, <1>4, <2>1, <2>5 DEF PagesInv
  <2>6. ASSUME NEW j \in Crawls, NEW k \in Crawls, IsAdmitted(j)', IsAdmitted(k)',
               j[1] = k[1], url'[j] = url'[k]
        PROVE  j = k
    <3>1. CASE j = c \/ k = c
      BY <2>5, <2>6, <3>1
    <3>2. CASE j /= c /\ k /= c
      BY <1>2, <2>6, <3>2 DEF PagesInv
    <3>3. QED
      BY <3>1, <3>2
  <2>7. ASSUME NEW r \in Requests
        PROVE  Cardinality(Admitted(r)') = budget'[r]
    <3>1. CASE r = q
      <4>1. Admitted(r)' = Admitted(r) \union {c} /\ c \notin Admitted(r)
        BY <1>2, <2>1, <3>1 DEF Admitted, IsAdmitted
      <4>2. Cardinality(Admitted(r) \union {c}) = Cardinality(Admitted(r)) + 1
        BY <4>1, FewCrawls, FS_AddElement
      <4>3. budget'[r] = budget[r] + 1
        BY <1>1, <1>4, <3>1 DEF TypeInv
      <4>4. QED
        BY <4>1, <4>2, <4>3 DEF PagesInv
    <3>2. CASE r /= q
      <4>1. Admitted(r)' = Admitted(r)
        BY <1>2, <3>2 DEF Admitted, IsAdmitted
      <4>2. budget'[r] = budget[r]
        BY <1>1, <1>4, <3>2 DEF TypeInv
      <4>3. QED
        BY <4>1, <4>2 DEF PagesInv
    <3>3. QED
      BY <3>1, <3>2
  <2>8. QED
    BY <2>4, <2>6, <2>7 DEF PagesInv, IsAdmitted, Admitted
<1>5. CASE /\ IsAdmitted(c)' = IsAdmitted(c) /\ UNCHANGED budget
           /\ \A r \in Requests : visited[r] \subseteq visited'[r]
  <2>1. \A k \in Crawls : IsAdmitted(k)' = IsAdmitted(k) /\ (IsAdmitted(k) => url'[k] = url[k])
    BY <1>1, <1>2, <1>5 DEF OwnMove
  <2>2. \A r \in Requests : Admitted(r)' = Admitted(r)
    BY <2>1 DEF Admitted, IsAdmitted
  <2>3. \A k \in Crawls : IsAdmitted(k)' => url'[k] \in visited'[k[1]]
    BY <1>3, <1>5, <2>1 DEF PagesInv
  <2>4. \A j, k \in Crawls :
          IsAdmitted(j)' /\ IsAdmitted(k)' /\ j[1] = k[1] /\ url'[j] = url'[k] => j = k
    BY <2>1 DEF PagesInv
  <2>5. \A r \in Requests : Cardinality(Admitted(r)') = budget'[r]
    BY <1>5, <2>2 DEF PagesInv
  <2>6. QED
    BY <2>3, <2>4, <2>5 DEF PagesInv, IsAdmitted, Admitted
<1>6. QED
  <2>1. CASE pc[c] = "new" /\ pc'[c] = "turned" /\ UNCHANGED sharedVars
    BY <1>5, <2>1 DEF IsAdmitted, sharedVars
  <2>2. CASE /\ pc[c] = "new" /\ pc'[c] = "unsafe" /\ UNCHANGED budget
             /\ visited' = [visited EXCEPT ![q] = @ \union {url[c]}]
    <3>1. \A r \in Requests : visited[r] \subseteq visited'[r]
      BY <1>1, <2>2 DEF TypeInv
    <3>2. QED
      BY <1>5, <2>2, <3>1 DEF IsAdmitted
  <2>3. CASE /\ pc[c] \in Holding \union {"subs"} /\ UNCHANGED sharedVars
             /\ pc'[c] \in {"proxy", "crawler", "fetch", "lost", "page", "subs"}
    BY <1>5, <2>3 DEF IsAdmitted, sharedVars, Holding
  <2>4. QED
    BY <1>1, <1>4, <2>1, <2>2, <2>3 DEF OwnMove

\* What a request fetches is marked, distinct and counted.
LEMMA PagesInvariant == Spec => []PagesInv
<1>1. Init => PagesInv
  <2> SUFFICES ASSUME Init PROVE PagesInv
    OBVIOUS
  <2>1. \A c \in Crawls : ~IsAdmitted(c)
    BY DEF Init, IsAdmitted
  <2>2. \A r \in Requests : Admitted(r) = {} /\ budget[r] = 0
    BY DEF Init, Admitted
  <2>3. QED
    BY <2>1, <2>2, FS_EmptySet DEF PagesInv
<1>2. Inv /\ PagesInv /\ [Next]_vars => PagesInv'
  <2> SUFFICES ASSUME Inv, PagesInv, [Next]_vars PROVE PagesInv'
    OBVIOUS
  <2>1. CASE \E c \in Crawls : Run(c)
    BY <2>1, RunKeepsPages
  <2>2. ASSUME UNCHANGED <<visited, budget>>,
               \A k \in Crawls : IsAdmitted(k)' = IsAdmitted(k) /\ (IsAdmitted(k) => url'[k] = url[k])
        PROVE  PagesInv'
    <3>1. \A r \in Requests : Admitted(r)' = Admitted(r)
      BY <2>2 DEF Admitted, IsAdmitted
    <3>2. \A r \in Requests : Cardinality(Admitted(r)') = budget'[r]
      BY <2>2, <3>1 DEF PagesInv
    <3>3. QED
      BY <2>2, <3>2 DEF PagesInv, IsAdmitted, Admitted
  <2>3. CASE \E r \in Requests, pages \in BoundedSeq(Pages, MaxTops) : Begin(r, pages)
    BY <2>2, <2>3, BeginShape DEF IsAdmitted, sharedVars
  <2>4. CASE UNCHANGED <<url, pc, visited, budget, permits, waiters>>
    BY <2>2, <2>4 DEF IsAdmitted
  <2>5. QED
    BY <2>1, <2>3, <2>4, StepKinds
<1>3. QED
  BY <1>1, <1>2, Invariant, PTL DEF Spec

\* However the tasks of a request interleave, none fetches a page that another
\* one fetches, and its budget is the number of pages they fetch.
THEOREM NoPageTwice == Spec => []PagesOnce
<1>1. PagesInv => PagesOnce
  <2> SUFFICES ASSUME PagesInv, NEW r \in Requests
               PROVE  Cardinality({url[c] : c \in Admitted(r)}) = Cardinality(Admitted(r))
    BY DEF PagesOnce, PagesInv
  <2> DEFINE S == Admitted(r)
             T == {url[c] : c \in S}
             f == [c \in S |-> url[c]]
  <2>1. \A c, k \in S : url[c] = url[k] => c = k
    BY DEF PagesInv, Admitted, IsAdmitted
  <2>2. f \in Bijection(S, T)
    BY <2>1 DEF Bijection, Injection, Surjection, IsInjective
  <2>3. QED
    BY <2>2, FewCrawls, FS_Bijection DEF ExistsBijection
<1>2. QED
  BY <1>1, PagesInvariant, PTL

-----------------------------------------------------------------------------
(* Permits.                                                                *)

\* There are finitely many crawls.
LEMMA CrawlsFinite == IsFiniteSet(Crawls)
<1> DEFINE pairs == (1 .. MaxTops) \X (0 .. MaxLinks)
           all == Requests \X pairs
           f == [p \in all |-> <<p[1], p[2][1], p[2][2]>>]
<1>1. IsFiniteSet(all)
  <2>1. MaxTops \in Int /\ MaxLinks \in Int /\ 0 \in Int /\ 1 \in Int
    BY Constants
  <2>2. IsFiniteSet(1 .. MaxTops) /\ IsFiniteSet(0 .. MaxLinks)
    BY <2>1, FS_Interval
  <2>3. IsFiniteSet(pairs)
    BY <2>2, FS_Product
  <2>4. QED
    BY <2>3, Constants, FS_Product
<1>2. f \in Surjection(all, Crawls)
  <2>1. \A p \in all : f[p] \in Crawls
    BY CrawlsAreTriples
  <2>2. \A c \in Crawls : \E p \in all : f[p] = c
    <3>1. TAKE c \in Crawls
    <3>2. <<c[1], <<c[2], c[3]>>>> \in all /\ f[<<c[1], <<c[2], c[3]>>>>] = c
      BY CrawlsAreTriples
    <3>3. QED
      BY <3>2
  <2>3. QED
    BY <2>1, <2>2 DEF Surjection
<1>3. QED
  BY <1>1, <1>2, FS_Surjection

\* And so there are of those that hold a permit.
LEMMA HoldersFinite ==
  \A d : IsFiniteSet(Holders(d)) /\ Cardinality(Holders(d)) \in Nat
  <1> TAKE d
  <1>1. Holders(d) \in SUBSET Crawls
    BY DEF Holders
  <1>2. QED
    BY <1>1, CrawlsFinite, FS_Subset, FS_CardinalityType

\* The tasks that are woken are as many as the permits they get.
LEMMA WokenCount ==
  ASSUME TypeInv, WaitInv, NEW d \in Domains, NEW n \in Nat
  PROVE  LET g == {waiters[d][i] : i \in 1 .. Wakes(d, n)}
         IN  /\ IsFiniteSet(g) /\ Cardinality(g) = Wakes(d, n)
             /\ \A k \in g : k \in Crawls /\ pc[k] = "wait" /\ Domain(k) = d
<1> DEFINE w == Wakes(d, n)
           g == {waiters[d][i] : i \in 1 .. w}
           f == [i \in 1 .. w |-> waiters[d][i]]
<1>1. /\ w \in 0 .. Len(waiters[d]) /\ Len(waiters[d]) \in Nat
      /\ \A i \in 1 .. w : waiters[d][i] \in Crawls /\ pc[waiters[d][i]] = "wait"
  BY WokenWait, LenProperties DEF TypeInv
<1>2. \A i, j \in 1 .. w : waiters[d][i] = waiters[d][j] => i = j
  BY <1>1 DEF WaitInv
<1>3. f \in Bijection(1 .. w, g)
  BY <1>2 DEF Bijection, Injection, Surjection, IsInjective
<1>4. IsFiniteSet(1 .. w) /\ Cardinality(1 .. w) = w
  BY <1>1, FS_Interval
<1>5. IsFiniteSet(g) /\ Cardinality(g) = w
  BY <1>3, <1>4, FS_Bijection DEF ExistsBijection
<1>6. \A k \in g : k \in Crawls /\ pc[k] = "wait" /\ Domain(k) = d
  BY <1>1 DEF WaitInv
<1>7. QED
  BY <1>5, <1>6

\* Who holds a permit after permits were handed to waiting tasks.
LEMMA HandsHolders ==
  ASSUME Inv, NEW c \in Crawls, Run(c), pc[c] \in Holding,
         NEW to \in Pcs, NEW n \in Nat, NEW s,
         \A k \in ToSet(s) : pc[k] = "none",
         Hands(c, to, Domain(c), n, s),
         NEW e \in Domains
  PROVE  LET d == Domain(c)
             g == {waiters[d][i] : i \in 1 .. Wakes(d, n)}
         IN  Holders(e)' = IF e = d THEN (IF to \in Holding THEN Holders(e) ELSE Holders(e) \ {c}) \union g
                           ELSE Holders(e)
<1> DEFINE d == Domain(c)
           g == {waiters[d][i] : i \in 1 .. Wakes(d, n)}
           m == ToSet(s)
<1>1. TypeInv /\ WaitInv
  BY DEF Inv
<1>2. pc[c] \notin {"none", "wait"} /\ d \in Domains
  BY <1>1, DomainType DEF Holding
<1>3. \A k \in g : k \in Crawls /\ pc[k] = "wait" /\ DomainOf[url[k]] = d
  BY <1>1, <1>2, WokenCount DEF Domain
<1>4. pc' = [k \in Crawls |-> IF k = c THEN to ELSE IF k \in g THEN "granted"
                              ELSE IF k \in m THEN "new" ELSE pc[k]]
  <2>1. ToSet(SubSeq(waiters[d], 1, Wakes(d, n))) = g
    <3>1. d \in Domains /\ TypeInv /\ WaitInv
      BY <1>1, <1>2
    <3>2. QED
      BY <3>1, WokenWait
  <2>2. QED
    BY <2>1 DEF Hands, Goes
<1>5. \A k \in Crawls : pc[k] /= "none" => url'[k] = url[k]
  BY PageKept
<1>6. c \notin g /\ \A k \in m : pc[k] = "none"
  BY <1>2, <1>3
<1>7. DomainOf[url[c]] = d
  BY DEF Domain
<1> HIDE DEF d, g, m
<1>8. ASSUME NEW k \in Crawls
      PROVE  pc'[k] \in Holding /\ DomainOf[url'[k]] = e
               <=> \/ pc[k] \in Holding /\ DomainOf[url[k]] = e /\ (k = c => to \in Holding)
                   \/ e = d /\ k \in g
  <2>1. CASE k = c
    BY <1>2, <1>4, <1>5, <1>6, <2>1
  <2>2. CASE k \in g
    BY <1>2, <1>3, <1>4, <1>5, <1>6, <2>2 DEF Holding
  <2>3. CASE k /= c /\ k \notin g /\ k \in m
    BY <1>4, <1>6, <2>3 DEF Holding
  <2>4. CASE k /= c /\ k \notin g /\ k \notin m
    BY <1>4, <1>5, <2>4 DEF Holding
  <2>5. QED
    BY <2>1, <2>2, <2>3, <2>4
<1>9. Holders(e)' = {k \in Crawls : pc'[k] \in Holding /\ DomainOf[url'[k]] = e}
  BY DEF Holders, Domain
<1>10. Holders(e) = {k \in Crawls : pc[k] \in Holding /\ DomainOf[url[k]] = e}
  BY DEF Holders, Domain
<1>11. Holders(e)' = IF e = d THEN (IF to \in Holding THEN Holders(e) ELSE Holders(e) \ {c}) \union g
                     ELSE Holders(e)
  BY <1>3, <1>7, <1>8, <1>9, <1>10
<1>12. QED
  BY <1>11 DEF d, g

\* The permits of a domain and those who hold one are always as many.
PermitSum ==
  \A d \in Domains : permits[d] + Cardinality(Holders(d)) = PerDomain

\* Handing n permits on keeps the sum.
LEMMA HandsSum ==
  ASSUME Inv, PermitSum, NEW c \in Crawls, Run(c), pc[c] \in Holding,
         NEW to \in Pcs, NEW n \in Nat, NEW s,
         \A k \in ToSet(s) : pc[k] = "none",
         Hands(c, to, Domain(c), n, s),
         permits' = [permits EXCEPT ![Domain(c)] =
                       @ + (IF to \in Holding THEN 0 ELSE 1) - Wakes(Domain(c), n)],
         NEW e \in Domains
  PROVE  permits'[e] + Cardinality(Holders(e)') = PerDomain
<1> DEFINE d == Domain(c)
           g == {waiters[d][i] : i \in 1 .. Wakes(d, n)}
           rest == IF to \in Holding THEN Holders(e) ELSE Holders(e) \ {c}
<1>1. TypeInv /\ WaitInv /\ pc[c] /= "none"
  BY DEF Inv, Holding
<1>2. d \in Domains /\ permits \in [Domains -> Nat] /\ permits[d] \in Nat
  BY <1>1, DomainType DEF TypeInv
<1>3. permits[e] + Cardinality(Holders(e)) = PerDomain /\ Cardinality(Holders(e)) \in Nat
      /\ IsFiniteSet(Holders(e))
  BY HoldersFinite DEF PermitSum
<1>4. CASE e /= d
  <2>1. Holders(e)' = Holders(e)
    BY <1>4, HandsHolders
  <2>2. permits'[e] = permits[e]
    BY <1>2, <1>4
  <2>3. QED
    BY <1>3, <2>1, <2>2
<1>5. CASE e = d
  <2>1. Holders(e)' = rest \union g
    BY <1>5, HandsHolders
  <2>2. /\ IsFiniteSet(g) /\ Cardinality(g) = Wakes(d, n) /\ Wakes(d, n) \in Nat
        /\ \A k \in g : pc[k] = "wait"
    <3>1. d \in Domains /\ TypeInv /\ WaitInv
      BY <1>1, <1>2
    <3>2. IsFiniteSet(g) /\ Cardinality(g) = Wakes(d, n) /\ \A k \in g : pc[k] = "wait"
      BY <3>1, WokenCount
    <3>3. Wakes(d, n) \in Nat
      BY <3>1, <3>2, FS_CardinalityType
    <3>4. QED
      BY <3>2, <3>3
  <2>3. c \in Holders(e)
    BY <1>5 DEF Holders
  <2>4. /\ IsFiniteSet(rest) /\ Cardinality(rest) \in Nat
        /\ Cardinality(rest) = Cardinality(Holders(e)) - (IF to \in Holding THEN 0 ELSE 1)
    <3>1. IsFiniteSet(Holders(e) \ {c}) /\ Cardinality(Holders(e) \ {c}) = Cardinality(Holders(e)) - 1
      BY <1>3, <2>3, FS_RemoveElement
    <3>2. IsFiniteSet(rest)
      BY <1>3, <3>1
    <3>3. QED
      BY <1>3, <3>1, <3>2, FS_CardinalityType
  <2>5. rest \intersect g = {}
    BY <2>2 DEF Holders, Holding
  <2>6. Cardinality(rest \union g) = Cardinality(rest) + Wakes(d, n)
    <3> HIDE DEF rest, g
    <3>1. Cardinality(rest \union g) = Cardinality(rest) + Cardinality(g) - Cardinality(rest \intersect g)
      BY <2>2, <2>4, FS_Union
    <3>2. Cardinality(rest \intersect g) = 0
      BY <2>5, FS_EmptySet
    <3>3. Cardinality(g) = Wakes(d, n) /\ Wakes(d, n) \in Nat
      BY <2>2
    <3>4. QED
      BY <2>4, <3>1, <3>2, <3>3
  <2>7. permits'[e] = permits[e] + (IF to \in Holding THEN 0 ELSE 1) - Wakes(d, n)
    BY <1>2, <1>5
  <2>8. QED
    <3> HIDE DEF rest, g, d
    <3>1. permits[e] \in Nat
      BY <1>2
    <3>2. QED
      BY <1>3, <2>1, <2>2, <2>4, <2>6, <2>7, <3>1
<1>6. QED
  BY <1>4, <1>5

\* No step of a task changes the sum.
LEMMA RunKeepsPermits ==
  ASSUME Inv, PermitSum, NEW c \in Crawls, Run(c), NEW e \in Domains
  PROVE  permits'[e] + Cardinality(Holders(e)') = PerDomain
<1> DEFINE d == Domain(c)
<1>1. TypeInv /\ SubsInv
  BY DEF Inv
<1>2. pc[c] /= "none"
  BY RunShape DEF Shape, OwnMove, Holding
<1>3. d \in Domains /\ permits \in [Domains -> Nat] /\ permits[d] \in Nat
  BY <1>1, <1>2, DomainType DEF TypeInv
<1>4. permits[e] + Cardinality(Holders(e)) = PerDomain /\ Cardinality(Holders(e)) \in Nat
      /\ IsFiniteSet(Holders(e))
  BY HoldersFinite DEF PermitSum
<1>5. ASSUME NEW to \in Pcs, Only(c, to)
      PROVE  /\ pc'[c] = to
             /\ Holders(e)' = {k \in Crawls : (IF k = c THEN to ELSE pc[k]) \in Holding /\ Domain(k) = e}
  <2>1. pc' = [pc EXCEPT ![c] = to] /\ url' = url
    BY <1>1, <1>5, OnlyShape
  <2>2. QED
    BY <1>1, <2>1 DEF Holders, Domain, TypeInv
<1>6. CASE TurnAway(c) \/ Refuse(c) \/ Await(c) \/ Foreign(c) \/ ProxyStarted(c) \/ CrawlerStarted(c) \/ Gathered(c)
  <2>1. PICK to \in Pcs : Only(c, to) /\ (to \in Holding <=> pc[c] \in Holding)
    BY <1>6, Places DEF TurnAway, Refuse, Await, Foreign, ProxyStarted, CrawlerStarted, Gathered,
                        Spend, Visit, Runs, Holding
  <2>2. UNCHANGED permits
    BY <1>6 DEF TurnAway, Refuse, Await, Foreign, ProxyStarted, CrawlerStarted, Gathered, limiterVars
  <2>3. Holders(e)' = Holders(e)
    BY <1>5, <2>1 DEF Holders
  <2>4. QED
    BY <1>4, <2>2, <2>3
<1>7. CASE Acquire(c)
  <2>1. PICK to \in Holding : Only(c, to)
    BY <1>7, Places DEF Acquire, Holding
  <2>2. pc[c] = "new" /\ permits' = [permits EXCEPT ![d] = @ - 1]
    BY <1>7 DEF Acquire, Spend, Visit, Runs
  <2>3. Holders(e)' = {k \in Crawls : (IF k = c THEN to ELSE pc[k]) \in Holding /\ Domain(k) = e}
    BY <1>5, <2>1 DEF Pcs
  <2>4. CASE e = d
    <3>1. Holders(e)' = Holders(e) \union {c} /\ c \notin Holders(e)
      BY <2>2, <2>3, <2>4 DEF Holders, Holding
    <3>2. Cardinality(Holders(e) \union {c}) = Cardinality(Holders(e)) + 1
      BY <1>4, <3>1, FS_AddElement
    <3>3. permits'[e] = permits[e] - 1 /\ permits[e] \in Nat
      BY <1>3, <2>2, <2>4
    <3>4. QED
      BY <1>4, <3>1, <3>2, <3>3
  <2>5. CASE e /= d
    <3>1. Holders(e)' = Holders(e)
      BY <2>2, <2>3, <2>5 DEF Holders, Holding
    <3>2. permits'[e] = permits[e]
      BY <1>3, <2>2, <2>5
    <3>3. QED
      BY <1>4, <3>1, <3>2
  <2>6. QED
    BY <2>4, <2>5
<1>8. \A k : k \notin ToSet(<<>>)
  BY DEF ToSet
<1>9. CASE Granted(c)
  <2>1. pc[c] \in Holding /\ Hands(c, Extracts(c), d, permits[d], <<>>)
        /\ permits' = [permits EXCEPT ![d] = @ - Wakes(d, @)]
    BY <1>9 DEF Granted, Runs, Holding
  <2>2. Extracts(c) \in Holding /\ Extracts(c) \in Pcs
    BY Places DEF Holding
  <2>3. permits' = [permits EXCEPT ![d] = @ + (IF Extracts(c) \in Holding THEN 0 ELSE 1) - Wakes(d, permits[d])]
    <3>1. Wakes(d, permits[d]) \in Nat
      BY <1>3, WokenWait, LenProperties DEF Inv, TypeInv
    <3>2. permits[d] + (IF Extracts(c) \in Holding THEN 0 ELSE 1) - Wakes(d, permits[d])
            = permits[d] - Wakes(d, permits[d])
      BY <1>3, <2>2, <3>1
    <3>3. QED
      BY <2>1, <3>2
  <2>4. QED
    BY <1>3, <1>8, <2>1, <2>2, <2>3, HandsSum
<1>10. ASSUME NEW to \in Pcs \ Holding, NEW s, \A k \in ToSet(s) : pc[k] = "none",
              pc[c] \in Holding, Release(c, to, s)
       PROVE  permits'[e] + Cardinality(Holders(e)') = PerDomain
  <2>1. Hands(c, to, d, 1, s) /\ permits' = [permits EXCEPT ![d] = @ + 1 - Wakes(d, 1)]
    BY <1>10 DEF Release
  <2>2. permits' = [permits EXCEPT ![d] = @ + (IF to \in Holding THEN 0 ELSE 1) - Wakes(d, 1)]
    BY <1>10, <2>1
  <2>3. QED
    BY <1>10, <2>1, <2>2, HandsSum
<1>11. CASE Lose(c) \/ Leaf(c)
  <2>1. PICK to \in {"lost", "page"} : Release(c, to, <<>>)
    BY <1>11 DEF Lose, Leaf
  <2>2. pc[c] \in Holding /\ to \in Pcs \ Holding
    BY <1>11, Places DEF Lose, Leaf, Runs, Holding
  <2>3. QED
    BY <1>8, <1>10, <2>1, <2>2
<1>12. ASSUME NEW links \in BoundedSeq(Pages, MaxLinks), Branch(c, links)
       PROVE  permits'[e] + Cardinality(Holders(e)') = PerDomain
  <2>1. pc[c] = "fetch" /\ IsTop(c) /\ Release(c, "subs", LinkTasks(c, links))
    BY <1>12 DEF Branch, Found, Runs
  <2>2. \A k \in ToSet(LinkTasks(c, links)) : pc[k] = "none"
    BY <1>1, <2>1, LinkTasksAreSubs DEF SubsInv
  <2>3. "subs" \in Pcs \ Holding /\ pc[c] \in Holding
    BY <2>1, Places DEF Holding
  <2>4. QED
    BY <1>10, <2>1, <2>2, <2>3
<1>13. QED
  BY <1>6, <1>7, <1>9, <1>11, <1>12 DEF Run

\* However the crawls of all requests end, no semaphore loses a permit or gets
\* one too many.
LEMMA PermitsAddUp == Spec => []PermitSum
<1>1. Init => PermitSum
  <2> SUFFICES ASSUME Init PROVE PermitSum
    OBVIOUS
  <2>1. \A d \in Domains : Holders(d) = {} /\ permits[d] = PerDomain
    BY DEF Init, Holders, Holding
  <2>2. QED
    BY <2>1, Constants, FS_EmptySet DEF PermitSum
<1>2. Inv /\ PermitSum /\ [Next]_vars => PermitSum'
  <2> SUFFICES ASSUME Inv, PermitSum, [Next]_vars PROVE PermitSum'
    OBVIOUS
  <2>1. CASE \E c \in Crawls : Run(c)
    BY <2>1, RunKeepsPermits DEF PermitSum
  <2>2. ASSUME UNCHANGED permits,
               \A k \in Crawls : \/ pc'[k] = pc[k] /\ url'[k] = url[k]
                                 \/ pc[k] = "none" /\ pc'[k] = "new"
        PROVE  PermitSum'
    <3>1. \A d \in Domains : Holders(d)' = Holders(d)
      BY <2>2 DEF Holders, Domain, Holding
    <3>2. QED
      BY <2>2, <3>1 DEF PermitSum
  <2>3. CASE \E r \in Requests, pages \in BoundedSeq(Pages, MaxTops) : Begin(r, pages)
    BY <2>2, <2>3, BeginShape DEF limiterVars
  <2>4. CASE UNCHANGED <<url, pc, visited, budget, permits, waiters>>
    BY <2>2, <2>4
  <2>5. QED
    BY <2>1, <2>3, <2>4, StepKinds
<1>3. QED
  BY <1>1, <1>2, Invariant, PTL DEF Spec

-----------------------------------------------------------------------------
(* No permit lies unused.                                                  *)

InLine(s, k) == \E i \in 1 .. Len(s) : s[i] = k

\* Somebody who was woken will take a permit, or hand on those that are left.
WokenFor(d) == \E k \in Crawls : pc[k] = "granted" /\ Domain(k) = d

\* Who waits is in the line of its domain, and a line with permits moves.
MovingInv ==
  /\ \A d \in Domains : waiters[d] /= <<>> /\ permits[d] > 0 => WokenFor(d)
  /\ \A c \in Crawls : pc[c] = "wait" => InLine(waiters[Domain(c)], c)

\* The three ways of a step, with what each does to the permits.
Quiet(c) ==
  /\ \E to \in Pcs \ {"wait", "granted", "new"} : Only(c, to)
  /\ pc[c] /= "granted" /\ UNCHANGED waiters
  /\ \/ UNCHANGED permits
     \/ /\ waiters[Domain(c)] = <<>>
        /\ permits' = [permits EXCEPT ![Domain(c)] = @ - 1]
Waits(c) ==
  /\ Only(c, "wait") /\ pc[c] = "new" /\ ~Free(Domain(c)) /\ UNCHANGED permits
  /\ waiters' = [waiters EXCEPT ![Domain(c)] = Append(@, c)]
Handing(c) ==
  LET d == Domain(c)
  IN  \E to \in Pcs \ {"wait", "granted", "new"}, n \in Nat : \E made :
        /\ Hands(c, to, d, n, made)
        /\ \A k \in ToSet(made) : pc[k] = "none"
        /\ \/ /\ pc[c] = "granted" /\ n = permits[d]
              /\ permits' = [permits EXCEPT ![d] = @ - Wakes(d, n)]
           \/ /\ pc[c] \in Holding \ {"granted"} /\ n = 1
              /\ permits' = [permits EXCEPT ![d] = @ + 1 - Wakes(d, 1)]

LEMMA RunWays ==
  ASSUME Inv, NEW c \in Crawls, Run(c)
  PROVE  Quiet(c) \/ Waits(c) \/ Handing(c)
<1>1. TypeInv /\ SubsInv
  BY DEF Inv
<1>2. \A k : k \notin ToSet(<<>>)
  BY DEF ToSet
<1>3. CASE TurnAway(c) \/ Refuse(c) \/ Foreign(c) \/ ProxyStarted(c) \/ CrawlerStarted(c) \/ Gathered(c)
  <2>1. \E to \in Pcs \ {"wait", "granted", "new"} : Only(c, to)
    BY <1>3, Places DEF TurnAway, Refuse, Foreign, ProxyStarted, CrawlerStarted, Gathered
  <2>2. pc[c] /= "granted" /\ UNCHANGED <<waiters, permits>>
    BY <1>3 DEF TurnAway, Refuse, Foreign, ProxyStarted, CrawlerStarted, Gathered, Spend, Visit,
                Runs, limiterVars
  <2>3. QED
    BY <2>1, <2>2 DEF Quiet
<1>4. CASE Acquire(c)
  <2>1. Extracts(c) \in Pcs \ {"wait", "granted", "new"}
    BY Places
  <2>2. QED
    BY <1>4, <2>1 DEF Acquire, Spend, Visit, Runs, Free, Quiet
<1>5. CASE Await(c)
  BY <1>5 DEF Await, Spend, Visit, Runs, Waits
<1>6. CASE Granted(c)
  <2>1. Extracts(c) \in Pcs \ {"wait", "granted", "new"}
    BY Places
  <2>2. permits[Domain(c)] \in Nat
    BY <1>1, <1>6, DomainType DEF Granted, Runs
  <2>3. QED
    BY <1>2, <1>6, <2>1, <2>2 DEF Granted, Runs, Handing
<1>7. CASE Lose(c) \/ Leaf(c)
  <2>1. PICK to \in {"lost", "page"} : Release(c, to, <<>>)
    BY <1>7 DEF Lose, Leaf
  <2>2. pc[c] \in Holding \ {"granted"} /\ to \in Pcs \ {"wait", "granted", "new"} /\ 1 \in Nat
    BY <1>7, Places DEF Lose, Leaf, Runs, Holding
  <2>3. QED
    BY <1>2, <2>1, <2>2 DEF Release, Handing
<1>8. ASSUME NEW links \in BoundedSeq(Pages, MaxLinks), Branch(c, links)
      PROVE  Handing(c)
  <2>1. pc[c] = "fetch" /\ IsTop(c) /\ Release(c, "subs", LinkTasks(c, links))
    BY <1>8 DEF Branch, Found, Runs
  <2>2. \A k \in ToSet(LinkTasks(c, links)) : pc[k] = "none"
    BY <1>1, <2>1, LinkTasksAreSubs DEF SubsInv
  <2>3. pc[c] \in Holding \ {"granted"} /\ "subs" \in Pcs \ {"wait", "granted", "new"} /\ 1 \in Nat
    BY <2>1, Places DEF Holding
  <2>4. QED
    BY <2>1, <2>2, <2>3 DEF Release, Handing
<1>9. QED
  BY <1>3, <1>4, <1>5, <1>6, <1>7, <1>8 DEF Run

\* Whoever was woken for a domain stays so until its task runs.
LEMMA WokenStays ==
  ASSUME Inv, NEW c \in Crawls, Run(c), NEW k \in Crawls, k /= c, pc[k] = "granted"
  PROVE  pc'[k] = "granted" /\ DomainOf[url'[k]] = Domain(k)
  BY PageKept DEF Domain

\* What the release of permits leaves of a line.
LEMMA HandsMoves ==
  ASSUME Inv, NEW c \in Crawls, Run(c), NEW to \in Pcs \ {"wait", "granted", "new"},
         NEW n \in Nat, NEW made, pc[c] \in Holding,
         Hands(c, to, Domain(c), n, made), \A k \in ToSet(made) : pc[k] = "none"
  PROVE  LET d == Domain(c)
             w == Wakes(d, n)
         IN  /\ d \in Domains /\ w \in 0 .. Len(waiters[d]) /\ Len(waiters[d]) \in Nat
             /\ \A e \in Domains \ {d} : waiters'[e] = waiters[e]
             /\ waiters'[d] = SubSeq(waiters[d], w + 1, Len(waiters[d]))
             /\ \A i \in 1 .. w : /\ waiters[d][i] \in Crawls /\ pc'[waiters[d][i]] = "granted"
                                  /\ DomainOf[url'[waiters[d][i]]] = d
             /\ \A i \in (w + 1) .. Len(waiters[d]) :
                  i - w \in 1 .. Len(waiters'[d]) /\ waiters'[d][i - w] = waiters[d][i]
<1> DEFINE d == Domain(c)
           w == Wakes(d, n)
           g == ToSet(SubSeq(waiters[d], 1, w))
<1>1. TypeInv /\ WaitInv /\ pc[c] \notin {"none", "wait"}
  BY DEF Inv, Holding
<1>2. d \in Domains
  BY <1>1, DomainType
<1>3. waiters[d] \in Seq(Crawls) /\ Len(waiters[d]) \in Nat /\ waiters \in [Domains -> Seq(Crawls)]
  BY <1>1, <1>2, LenProperties DEF TypeInv
<1>4. /\ w \in 0 .. Len(waiters[d]) /\ g = {waiters[d][i] : i \in 1 .. w}
      /\ \A i \in 1 .. w : waiters[d][i] \in Crawls /\ pc[waiters[d][i]] = "wait"
  BY <1>1, <1>2, WokenWait
<1>5. waiters' = [waiters EXCEPT ![d] = SubSeq(@, w + 1, Len(@))]
  BY DEF Hands
<1>6. pc' = [k \in Crawls |-> IF k = c THEN to ELSE IF k \in g THEN "granted"
                              ELSE IF k \in ToSet(made) THEN "new" ELSE pc[k]]
  BY DEF Hands, Goes
<1>7. \A i \in 1 .. w : Domain(waiters[d][i]) = d
  BY <1>2, <1>3, <1>4 DEF WaitInv, Inv
<1> HIDE DEF g, w, d
<1>8. ASSUME NEW i \in 1 .. w
      PROVE  /\ waiters[d][i] \in Crawls /\ pc'[waiters[d][i]] = "granted"
             /\ DomainOf[url'[waiters[d][i]]] = d
  <2>1. waiters[d][i] \in Crawls /\ waiters[d][i] \in g /\ waiters[d][i] /= c
        /\ pc[waiters[d][i]] /= "none"
    BY <1>1, <1>4
  <2>2. url'[waiters[d][i]] = url[waiters[d][i]]
    BY <2>1, PageKept
  <2>3. QED
    BY <1>6, <1>7, <2>1, <2>2 DEF Domain
<1>9. waiters'[d] = SubSeq(waiters[d], w + 1, Len(waiters[d]))
  BY <1>2, <1>3, <1>5
<1>10. \A i \in (w + 1) .. Len(waiters[d]) :
         i - w \in 1 .. Len(waiters'[d]) /\ waiters'[d][i - w] = waiters[d][i]
  BY <1>3, <1>4, <1>9
<1>11. \A e \in Domains \ {d} : waiters'[e] = waiters[e]
  BY <1>3, <1>5
<1>12. QED
  BY <1>2, <1>3, <1>4, <1>8, <1>9, <1>10, <1>11 DEF w, d

\* Every step of a task keeps the lines moving.
LEMMA RunKeepsMoving ==
  ASSUME Inv, MovingInv, NEW c \in Crawls, Run(c)
  PROVE  MovingInv'
<1> DEFINE d == Domain(c)
<1>1. TypeInv /\ WaitInv /\ waiters \in [Domains -> Seq(Crawls)] /\ permits \in [Domains -> Nat]
  BY DEF Inv, TypeInv
<1>2. d \in Domains /\ permits[d] \in Nat
  <2>1. pc[c] /= "none"
    BY RunShape DEF Shape, OwnMove, Holding
  <2>2. QED
    BY <1>1, <2>1, DomainType
<1>3. \A k \in Crawls : pc[k] = "wait" => Domain(k) \in Domains
  BY <1>1, DomainType
<1>4. \A k \in Crawls : pc[k] = "wait" => url'[k] = url[k]
  BY PageKept
<1>5. SUFFICES
        /\ \A e \in Domains : waiters'[e] /= <<>> /\ permits'[e] > 0 =>
             \E k \in Crawls : pc'[k] = "granted" /\ DomainOf[url'[k]] = e
        /\ \A k \in Crawls : pc'[k] = "wait" => InLine(waiters'[DomainOf[url'[k]]], k)
  BY DEF MovingInv, WokenFor, InLine, Domain
<1>6. ASSUME NEW e \in Domains, WokenFor(e), pc[c] = "granted" => e /= d
      PROVE  \E k \in Crawls : pc'[k] = "granted" /\ DomainOf[url'[k]] = e
  <2>1. PICK k \in Crawls : pc[k] = "granted" /\ Domain(k) = e
    BY <1>6 DEF WokenFor
  <2>2. k /= c
    BY <1>6, <2>1
  <2>3. QED
    BY <2>1, <2>2, WokenStays
<1>7. CASE Quiet(c)
  <2>1. PICK to \in Pcs \ {"wait", "granted", "new"} : Only(c, to)
    BY <1>7 DEF Quiet
  <2>2. pc' = [pc EXCEPT ![c] = to] /\ UNCHANGED <<url, waiters>> /\ pc[c] /= "granted"
    BY <1>1, <1>7, <2>1, OnlyShape DEF Quiet
  <2>3. ASSUME NEW e \in Domains, waiters'[e] /= <<>>, permits'[e] > 0
        PROVE  \E k \in Crawls : pc'[k] = "granted" /\ DomainOf[url'[k]] = e
    <3>1. waiters[e] /= <<>> /\ permits[e] > 0
      BY <1>1, <1>2, <1>7, <2>2, <2>3 DEF Quiet
    <3>2. QED
      BY <1>6, <2>2, <3>1 DEF MovingInv
  <2>4. \A k \in Crawls : pc'[k] = "wait" => pc[k] = "wait"
    BY <1>1, <2>2 DEF TypeInv
  <2>5. \A k \in Crawls : pc'[k] = "wait" => InLine(waiters'[DomainOf[url'[k]]], k)
    BY <2>2, <2>4 DEF MovingInv, Domain
  <2>6. QED
    BY <2>3, <2>5
<1>8. CASE Waits(c)
  <2>1. /\ pc' = [pc EXCEPT ![c] = "wait"] /\ UNCHANGED <<url, permits>> /\ pc[c] = "new"
        /\ waiters' = [waiters EXCEPT ![d] = Append(@, c)] /\ ~Free(d)
    BY <1>1, <1>8, OnlyShape, Places DEF Waits
  <2>2. ASSUME NEW e \in Domains, waiters'[e] /= <<>>, permits'[e] > 0
        PROVE  \E k \in Crawls : pc'[k] = "granted" /\ DomainOf[url'[k]] = e
    <3>1. CASE e /= d
      BY <1>1, <1>6, <2>1, <2>2, <3>1 DEF MovingInv
    <3>2. CASE e = d
      <4>1. waiters[d] /= <<>> \/ WokenFor(d)
        BY <2>1, <2>2, <3>2 DEF Free, WokenFor
      <4>2. WokenFor(d)
        BY <1>2, <2>1, <2>2, <3>2, <4>1 DEF MovingInv
      <4>3. QED
        BY <1>6, <2>1, <3>2, <4>2
    <3>3. QED
      BY <3>1, <3>2
  <2>3. waiters[d] \in Seq(Crawls) /\ Len(waiters[d]) \in Nat
    BY <1>1, <1>2, LenProperties
  <2>4. waiters'[d] = Append(waiters[d], c) /\ \A e \in Domains \ {d} : waiters'[e] = waiters[e]
    BY <1>1, <1>2, <2>1
  <2>5. /\ Len(waiters'[d]) = Len(waiters[d]) + 1 /\ waiters'[d][Len(waiters[d]) + 1] = c
        /\ \A i \in 1 .. Len(waiters[d]) : waiters'[d][i] = waiters[d][i]
    BY <2>3, <2>4, AppendProperties
  <2>6. ASSUME NEW k \in Crawls, pc'[k] = "wait"
        PROVE  InLine(waiters'[Domain(k)], k)
    <3>1. CASE k = c
      <4>1. Len(waiters[d]) + 1 \in 1 .. Len(waiters'[d])
        BY <2>3, <2>5
      <4>2. QED
        BY <2>5, <3>1, <4>1 DEF InLine
    <3>2. CASE k /= c
      <4>1. pc[k] = "wait" /\ Domain(k) \in Domains
        BY <1>1, <1>3, <2>1, <2>6, <3>2 DEF TypeInv
      <4>2. InLine(waiters[Domain(k)], k)
        BY <4>1 DEF MovingInv
      <4>3. \A i \in 1 .. Len(waiters[d]) : i \in 1 .. Len(waiters'[d])
        BY <2>3, <2>5
      <4>4. QED
        BY <2>4, <2>5, <4>1, <4>2, <4>3 DEF InLine
    <3>3. QED
      BY <3>1, <3>2
  <2>7. QED
    BY <2>1, <2>2, <2>6 DEF Domain
<1>9. CASE Handing(c)
  <2>0. PICK to \in Pcs \ {"wait", "granted", "new"}, n \in Nat :
          \E made :
            /\ Hands(c, to, d, n, made)
            /\ \A k \in ToSet(made) : pc[k] = "none"
            /\ \/ /\ pc[c] = "granted" /\ n = permits[d]
                  /\ permits' = [permits EXCEPT ![d] = @ - Wakes(d, n)]
               \/ /\ pc[c] \in Holding \ {"granted"} /\ n = 1
                  /\ permits' = [permits EXCEPT ![d] = @ + 1 - Wakes(d, 1)]
    BY <1>9 DEF Handing
  <2>1. PICK made :
          /\ Hands(c, to, d, n, made)
          /\ \A k \in ToSet(made) : pc[k] = "none"
          /\ \/ /\ pc[c] = "granted" /\ n = permits[d]
                /\ permits' = [permits EXCEPT ![d] = @ - Wakes(d, n)]
             \/ /\ pc[c] \in Holding \ {"granted"} /\ n = 1
                /\ permits' = [permits EXCEPT ![d] = @ + 1 - Wakes(d, 1)]
    BY <2>0
  <2> DEFINE w == Wakes(d, n)
  <2>2. pc[c] \in Holding
    BY <2>1 DEF Holding
  <2>3. /\ w \in 0 .. Len(waiters[d]) /\ Len(waiters[d]) \in Nat
        /\ \A e \in Domains \ {d} : waiters'[e] = waiters[e]
        /\ waiters'[d] = SubSeq(waiters[d], w + 1, Len(waiters[d]))
        /\ \A i \in 1 .. w : /\ waiters[d][i] \in Crawls /\ pc'[waiters[d][i]] = "granted"
                             /\ DomainOf[url'[waiters[d][i]]] = d
        /\ \A i \in (w + 1) .. Len(waiters[d]) :
             i - w \in 1 .. Len(waiters'[d]) /\ waiters'[d][i - w] = waiters[d][i]
    BY <2>1, <2>2, HandsMoves
  <2>4. w = n \/ w = Len(waiters[d])
    BY DEF Wakes
  <2>5. ASSUME NEW e \in Domains, waiters'[e] /= <<>>, permits'[e] > 0
        PROVE  \E k \in Crawls : pc'[k] = "granted" /\ DomainOf[url'[k]] = e
    <3>1. CASE e /= d
      <4>1. waiters[e] /= <<>> /\ permits[e] > 0
        BY <1>1, <2>1, <2>3, <2>5, <3>1
      <4>2. QED
        BY <1>6, <3>1, <4>1 DEF MovingInv
    <3>2. CASE e = d
      <4>1. w /= Len(waiters[d])
        BY <1>1, <1>2, <2>3, <2>5, <3>2
      <4>2. w = n
        BY <2>4, <4>1
      <4>3. CASE pc[c] = "granted"
        <5>1. permits'[d] = permits[d] - w /\ w = permits[d]
          BY <1>1, <1>2, <2>1, <4>2, <4>3
        <5>2. QED
          BY <1>2, <2>5, <3>2, <5>1
      <4>4. CASE pc[c] /= "granted"
        <5>1. w = 1
          BY <2>1, <4>2, <4>4
        <5>2. waiters[d][1] \in Crawls /\ pc'[waiters[d][1]] = "granted" /\ DomainOf[url'[waiters[d][1]]] = d
          BY <2>3, <5>1
        <5>3. QED
          BY <3>2, <5>2
      <4>5. QED
        BY <4>3, <4>4
    <3>3. QED
      BY <3>1, <3>2
  <2>6. ASSUME NEW k \in Crawls, pc'[k] = "wait"
        PROVE  InLine(waiters'[DomainOf[url'[k]]], k)
    <3>1. pc[k] = "wait"
      BY <2>1, <2>6 DEF Hands, Goes
    <3>2. Domain(k) \in Domains /\ DomainOf[url'[k]] = Domain(k)
      BY <1>3, <1>4, <3>1 DEF Domain
    <3>3. PICK i \in 1 .. Len(waiters[Domain(k)]) : waiters[Domain(k)][i] = k
      BY <3>1 DEF MovingInv, InLine
    <3>4. CASE Domain(k) /= d
      BY <2>3, <3>2, <3>3, <3>4 DEF InLine
    <3>5. CASE Domain(k) = d
      <4>1. i \notin 1 .. w
        BY <2>3, <2>6, <3>3, <3>5
      <4>2. i \in (w + 1) .. Len(waiters[d])
        BY <2>3, <3>3, <3>5, <4>1
      <4>3. i - w \in 1 .. Len(waiters'[d]) /\ waiters'[d][i - w] = k
        BY <2>3, <3>3, <3>5, <4>2
      <4>4. QED
        BY <3>2, <3>5, <4>3 DEF InLine
    <3>6. QED
      BY <3>4, <3>5
  <2>7. QED
    BY <2>5, <2>6
<1>10. QED
  BY <1>7, <1>8, <1>9, RunWays

\* The lines keep moving.
LEMMA Moving == Spec => []MovingInv
<1>1. Init => MovingInv
  <2> SUFFICES ASSUME Init PROVE MovingInv
    OBVIOUS
  <2>1. (\A d \in Domains : waiters[d] = <<>>) /\ \A c \in Crawls : pc[c] = "none"
    BY DEF Init
  <2>2. QED
    BY <2>1 DEF MovingInv
<1>2. Inv /\ MovingInv /\ [Next]_vars => MovingInv'
  <2> SUFFICES ASSUME Inv, MovingInv, [Next]_vars PROVE MovingInv'
    OBVIOUS
  <2>1. CASE \E c \in Crawls : Run(c)
    BY <2>1, RunKeepsMoving
  <2>2. ASSUME UNCHANGED <<permits, waiters>>,
               \A k \in Crawls : \/ pc'[k] = pc[k] /\ url'[k] = url[k]
                                 \/ pc[k] = "none" /\ pc'[k] = "new"
        PROVE  MovingInv'
    BY <2>2 DEF MovingInv, WokenFor, InLine, Domain
  <2>3. CASE \E r \in Requests, pages \in BoundedSeq(Pages, MaxTops) : Begin(r, pages)
    BY <2>2, <2>3, BeginShape DEF limiterVars
  <2>4. CASE UNCHANGED <<url, pc, visited, budget, permits, waiters>>
    BY <2>2, <2>4
  <2>5. QED
    BY <2>1, <2>3, <2>4, StepKinds
<1>3. QED
  BY <1>1, <1>2, Invariant, PTL DEF Spec

\* However the crawls of all requests end, no semaphore loses a permit or gets
\* one too many, and none of its permits lies unused while a task waits.
THEOREM PermitsAreKept == Spec => []PermitsKept
<1>1. PermitSum /\ MovingInv => PermitsKept
  BY DEF PermitSum, MovingInv, WokenFor, PermitsKept
<1>2. QED
  BY <1>1, PermitsAddUp, Moving, PTL

-----------------------------------------------------------------------------
(* The rest of the types.                                                  *)

RestInv ==
  /\ ready \in [Requests -> Seq(Crawls)]
  /\ budget \in [Requests -> 0 .. MaxBudget]
  /\ proxy \in [Requests -> BOOLEAN]
  /\ crawler \in [Requests -> BOOLEAN]
  /\ closed \in [Requests -> BOOLEAN]
  /\ owner \in [Domains -> Requests \union {None}]

\* A loop has crawls to run.
LEMMA GoesReady ==
  ASSUME RestInv, NEW c \in Crawls, NEW place, Runs(c, place), NEW to, NEW loop,
         NEW granted \in Seq(Crawls), NEW made \in Seq(Crawls),
         Goes(c, to, granted, loop, made)
  PROVE  ready' \in [Requests -> Seq(Crawls)]
<1>1. c[1] \in Requests /\ ready[c[1]] /= <<>> /\ <<>> \in Seq(Crawls)
  BY CrawlsAreTriples, EmptySeq DEF Runs
<1>2. ready' = [r \in Requests |->
                 (IF r = c[1] THEN Tail(ready[r]) ELSE ready[r])
                   \o (IF r = loop THEN granted ELSE <<>>)
                   \o (IF r = c[1] THEN made ELSE <<>>)]
  BY DEF Goes
<1>3. \A r \in Requests : (IF r = c[1] THEN Tail(ready[r]) ELSE ready[r]) \in Seq(Crawls)
  BY <1>1, HeadTailProperties DEF RestInv
<1>4. ASSUME NEW r \in Requests
      PROVE  (IF r = c[1] THEN Tail(ready[r]) ELSE ready[r])
               \o (IF r = loop THEN granted ELSE <<>>)
               \o (IF r = c[1] THEN made ELSE <<>>) \in Seq(Crawls)
  <2> DEFINE x == IF r = c[1] THEN Tail(ready[r]) ELSE ready[r]
             y == IF r = loop THEN granted ELSE <<>>
             z == IF r = c[1] THEN made ELSE <<>>
  <2>1. x \in Seq(Crawls) /\ y \in Seq(Crawls) /\ z \in Seq(Crawls)
    BY <1>1, <1>3
  <2> HIDE DEF x, y, z
  <2>2. (x \o y) \o z \in Seq(Crawls)
    BY <2>1, ConcatProperties
  <2>3. QED
    BY <2>2 DEF x, y, z
<1>5. QED
  BY <1>2, <1>4

\* Those that are woken are crawls.
LEMMA HandsReady ==
  ASSUME Inv, RestInv, NEW c \in Crawls, NEW place, Runs(c, place), pc[c] /= "none", NEW to,
         NEW n \in Nat, NEW s \in Seq(Crawls), Hands(c, to, Domain(c), n, s)
  PROVE  ready' \in [Requests -> Seq(Crawls)] /\ UNCHANGED owner
<1> DEFINE d == Domain(c)
           g == SubSeq(waiters[d], 1, Wakes(d, n))
<1>1. d \in Domains /\ TypeInv /\ WaitInv
  BY DomainType DEF Inv
<1>2. Wakes(d, n) \in Nat /\ \A i \in 1 .. Wakes(d, n) : waiters[d][i] \in Crawls
  BY <1>1, WokenWait, LenProperties DEF TypeInv
<1>3. g \in Seq(Crawls)
  BY <1>2, SubSeqProperties
<1>4. Goes(c, to, g, owner[d], s) /\ UNCHANGED owner
  BY DEF Hands
<1>5. QED
  BY <1>3, <1>4, GoesReady

\* A step of a task keeps the rest of the types.
LEMMA RunKeepsRest ==
  ASSUME Inv, RestInv, NEW c \in Crawls, Run(c)
  PROVE  RestInv'
<1>1. c[1] \in Requests /\ <<>> \in Seq(Crawls) /\ Domain(c) \in Domains /\ permits[Domain(c)] \in Nat
  <2>1. pc[c] /= "none"
    BY RunShape DEF Shape, OwnMove, Holding
  <2>2. QED
    BY <2>1, CrawlsAreTriples, DomainType, EmptySeq DEF Inv
<1>2. budget' \in [Requests -> 0 .. MaxBudget]
  <2>1. \/ UNCHANGED budget
        \/ budget[c[1]] < MaxBudget /\ budget' = [budget EXCEPT ![c[1]] = @ + 1]
    BY RunShape DEF Shape, OwnMove, sharedVars
  <2>2. budget \in [Requests -> 0 .. MaxBudget] /\ MaxBudget \in Nat
    BY Constants DEF RestInv
  <2>3. QED
    BY <1>1, <2>1, <2>2
<1>3. ASSUME UNCHANGED crawlerVars \/ Mark(c) \/ (UNCHANGED <<proxy, closed>> /\ crawler' = [crawler EXCEPT ![c[1]] = TRUE])
      PROVE  /\ proxy' \in [Requests -> BOOLEAN] /\ crawler' \in [Requests -> BOOLEAN]
             /\ closed' \in [Requests -> BOOLEAN]
  <2>1. proxy' \in [Requests -> BOOLEAN] /\ closed' \in [Requests -> BOOLEAN]
    BY <1>1, <1>3 DEF RestInv, Mark, crawlerVars
  <2>2. \E b \in BOOLEAN : crawler' = [crawler EXCEPT ![c[1]] = b] \/ crawler' = crawler
    <3>1. CASE Mark(c)
      <4>1. (crawler[c[1]] \/ proxy[c[1]]) \in BOOLEAN
        OBVIOUS
      <4>2. crawler' = [crawler EXCEPT ![c[1]] = crawler[c[1]] \/ proxy[c[1]]]
        BY <3>1 DEF Mark
      <4>3. QED
        BY <4>1, <4>2, Zenon
    <3>2. QED
      BY <1>3, <3>1 DEF crawlerVars
  <2>3. crawler' \in [Requests -> BOOLEAN]
    BY <1>1, <2>2 DEF RestInv
  <2>4. QED
    BY <2>1, <2>3
<1>4. UNCHANGED crawlerVars \/ Mark(c) \/ (UNCHANGED <<proxy, closed>> /\ crawler' = [crawler EXCEPT ![c[1]] = TRUE])
  BY DEF Run, TurnAway, Refuse, Acquire, Await, Foreign, Granted, ProxyStarted, CrawlerStarted,
         Lose, Leaf, Gathered, Branch, Found
<1>5. ASSUME NEW to, NEW place, Runs(c, place), Only(c, to)
      PROVE  ready' \in [Requests -> Seq(Crawls)]
  BY <1>1, <1>5, GoesReady DEF Only
<1>6. ready' \in [Requests -> Seq(Crawls)] /\ owner' \in [Domains -> Requests \union {None}]
  <2>1. CASE TurnAway(c) \/ Refuse(c) \/ Acquire(c) \/ Foreign(c) \/ ProxyStarted(c) \/ CrawlerStarted(c) \/ Gathered(c)
    <3>1. (\E to, place : Runs(c, place) /\ Only(c, to)) /\ UNCHANGED owner
      BY <2>1 DEF TurnAway, Refuse, Acquire, Foreign, ProxyStarted, CrawlerStarted, Gathered, Spend, Visit, limiterVars
    <3>2. QED
      BY <1>5, <3>1 DEF RestInv
  <2>2. CASE Await(c)
    <3>1. Runs(c, "new") /\ Only(c, "wait") /\ owner' = [owner EXCEPT ![Domain(c)] = c[1]]
      BY <2>2 DEF Await, Spend, Visit
    <3>2. QED
      BY <1>1, <1>5, <3>1 DEF RestInv
  <2>3. ASSUME NEW to, NEW place, Runs(c, place), place /= "none", NEW n \in Nat, NEW s \in Seq(Crawls),
               Hands(c, to, Domain(c), n, s)
        PROVE  ready' \in [Requests -> Seq(Crawls)] /\ owner' \in [Domains -> Requests \union {None}]
    <3>1. pc[c] /= "none"
      BY <2>3 DEF Runs
    <3>2. QED
      BY <2>3, <3>1, HandsReady DEF RestInv
  <2>4. CASE Granted(c)
    BY <1>1, <2>3, <2>4 DEF Granted
  <2>5. CASE Lose(c) \/ Leaf(c)
    <3>1. PICK place \in {"proxy", "crawler", "fetch"} : Runs(c, place)
      BY <2>5 DEF Lose, Leaf
    <3>2. Hands(c, "lost", Domain(c), 1, <<>>) \/ Hands(c, "page", Domain(c), 1, <<>>)
      BY <2>5 DEF Lose, Leaf, Release
    <3>3. QED
      BY <1>1, <2>3, <3>1, <3>2
  <2>6. ASSUME NEW links \in BoundedSeq(Pages, MaxLinks), Branch(c, links)
        PROVE  ready' \in [Requests -> Seq(Crawls)] /\ owner' \in [Domains -> Requests \union {None}]
    <3>1. Runs(c, "fetch") /\ IsTop(c) /\ Hands(c, "subs", Domain(c), 1, LinkTasks(c, links))
      BY <2>6 DEF Branch, Found, Release
    <3>2. \A k \in ToSet(LinkTasks(c, links)) : k \in Crawls
      BY <3>1, LinkTasksAreSubs DEF SubsOf
    <3>3. LinkTasks(c, links) \in Seq(Crawls)
      <4>1. PICK m \in 0 .. MaxLinks : links \in [1 .. m -> Pages]
        BY DEF BoundedSeq, SeqOf
      <4>2. Len(links) = m /\ m \in Nat
        BY <4>1, Constants
      <4>3. LinkTasks(c, links) \in [1 .. m -> Crawls]
        BY <3>2, <4>2 DEF LinkTasks, ToSet
      <4>4. QED
        BY <4>2, <4>3, SeqDef
    <3>4. QED
      BY <2>3, <3>1, <3>3
  <2>7. QED
    BY <2>1, <2>2, <2>4, <2>5, <2>6 DEF Run
<1>7. QED
  BY <1>2, <1>3, <1>4, <1>6 DEF RestInv

\* The steps of a request keep the rest of the types.
LEMMA OthersKeepRest ==
  ASSUME RestInv, NEW r \in Requests,
         \/ Close(r)
         \/ \E pages \in BoundedSeq(Pages, MaxTops) : Begin(r, pages)
         \/ \E c \in Crawls : Wake(c)
         \/ UNCHANGED vars
  PROVE  RestInv'
<1>1. CASE Close(r)
  <2>1. closed' = [closed EXCEPT ![r] = TRUE] /\ UNCHANGED <<ready, budget, proxy, crawler, owner>>
    BY <1>1 DEF Close, taskVars, sharedVars, limiterVars
  <2>2. QED
    BY <2>1 DEF RestInv
<1>2. ASSUME NEW pages \in BoundedSeq(Pages, MaxTops), Begin(r, pages)
      PROVE  RestInv'
  <2>1. ready' = [ready EXCEPT ![r] = FirstTasks(r, pages)]
        /\ UNCHANGED <<budget, proxy, crawler, closed, owner>>
    BY <1>2 DEF Begin, Starts, sharedVars, crawlerVars, limiterVars
  <2>2. PICK m \in 0 .. MaxTops : pages \in [1 .. m -> Pages]
    BY DEF BoundedSeq, SeqOf
  <2>3. Len(pages) = m /\ m \in Nat /\ 0 \in 0 .. MaxLinks /\ 1 .. m \subseteq 1 .. MaxTops
    BY <2>2, Constants
  <2>4. FirstTasks(r, pages) \in [1 .. m -> Crawls]
    BY <2>3, CrawlsAreTriples DEF FirstTasks
  <2>5. FirstTasks(r, pages) \in Seq(Crawls)
    BY <2>3, <2>4, SeqDef
  <2>6. QED
    BY <2>1, <2>5 DEF RestInv
<1>3. ASSUME NEW c \in Crawls, Wake(c)
      PROVE  RestInv'
  <2>1. ready' = [ready EXCEPT ![c[1]] = Append(@, c)] /\ c[1] \in Requests
        /\ UNCHANGED <<budget, proxy, crawler, closed, owner>>
    BY <1>3, CrawlsAreTriples DEF Wake, sharedVars, crawlerVars, limiterVars
  <2>2. Append(ready[c[1]], c) \in Seq(Crawls)
    BY <2>1, AppendProperties DEF RestInv
  <2>3. QED
    BY <2>1, <2>2 DEF RestInv
<1>4. CASE UNCHANGED vars
  BY <1>4 DEF vars, taskVars, sharedVars, crawlerVars, limiterVars, RestInv
<1>5. QED
  BY <1>1, <1>2, <1>3, <1>4

\* The rest of the types is kept.
LEMMA RestInvariant == Spec => []RestInv
<1>1. Init => RestInv
  BY EmptySeq, Constants DEF Init, RestInv
<1>2. Inv /\ RestInv /\ [Next]_vars => RestInv'
  <2> SUFFICES ASSUME Inv, RestInv, [Next]_vars PROVE RestInv'
    OBVIOUS
  <2>1. CASE UNCHANGED vars
    BY <2>1 DEF vars, taskVars, sharedVars, crawlerVars, limiterVars, RestInv
  <2>2. CASE \E c \in Crawls : Run(c)
    BY <2>2, RunKeepsRest
  <2>3. ASSUME NEW r \in Requests, Close(r) \/ \E pages \in BoundedSeq(Pages, MaxTops) : Begin(r, pages)
        PROVE  RestInv'
    BY <2>3, OthersKeepRest
  <2>4. ASSUME NEW c \in Crawls, Wake(c)
        PROVE  RestInv'
    <3>1. c[1] \in Requests
      BY CrawlsAreTriples
    <3>2. QED
      BY <2>4, <3>1, OthersKeepRest
  <2>5. QED
    BY <2>1, <2>2, <2>3, <2>4 DEF Next
<1>3. QED
  BY <1>1, <1>2, Invariant, PTL DEF Spec

\* Every variable keeps its type; the limits of the budget and of the permits
\* among them.
THEOREM TypeCorrect == Spec => []TypeOK
<1>1. Inv /\ RestInv /\ PermitsKept => TypeOK
  <2> SUFFICES ASSUME Inv, RestInv, PermitsKept PROVE TypeOK
    OBVIOUS
  <2>1. permits \in [Domains -> 0 .. PerDomain]
    <3>1. \A d \in Domains : permits[d] + Cardinality(Holders(d)) = PerDomain
                             /\ Cardinality(Holders(d)) \in Nat
      BY HoldersFinite DEF PermitsKept
    <3>2. permits \in [Domains -> Nat] /\ PerDomain \in Nat
      BY Constants DEF Inv, TypeInv
    <3>3. QED
      BY <3>1, <3>2
  <2>2. QED
    BY <2>1 DEF TypeOK, Inv, TypeInv, RestInv
<1>2. QED
  BY <1>1, Invariant, RestInvariant, PermitsAreKept, PTL

-----------------------------------------------------------------------------
(* Starting the proxy and the crawler.                                     *)

\* As long as an attribute is not set nobody starts what it stands for, and
\* when it is set one task at most does.
StartInv ==
  \A c \in Crawls :
    /\ pc[c] = "proxy" => proxy[c[1]]
    /\ pc[c] = "crawler" => crawler[c[1]]
    /\ \A k \in Crawls : c[1] = k[1] /\ pc[c] = pc[k] /\ pc[c] \in {"proxy", "crawler"} => c = k

\* Who starts something set its attribute, which was not set before.
LEMMA StartStep ==
  ASSUME Inv, RestInv, NEW c \in Crawls, Run(c)
  PROVE  /\ pc'[c] = "proxy" => ~proxy[c[1]] /\ proxy'[c[1]]
         /\ pc'[c] = "crawler" => ~crawler[c[1]] /\ crawler'[c[1]]
         /\ \A r \in Requests : (proxy[r] => proxy'[r]) /\ (crawler[r] => crawler'[r])
<1>1. c[1] \in Requests /\ proxy \in [Requests -> BOOLEAN] /\ crawler \in [Requests -> BOOLEAN]
  BY CrawlsAreTriples DEF RestInv
<1>2. ASSUME NEW to \in Pcs, Only(c, to)
      PROVE  pc'[c] = to
  BY <1>2, OnlyShape DEF Inv, TypeInv
<1>3. ASSUME pc'[c] = Extracts(c), Mark(c)
      PROVE  /\ pc'[c] = "proxy" => ~proxy[c[1]] /\ proxy'[c[1]]
             /\ pc'[c] = "crawler" => ~crawler[c[1]] /\ crawler'[c[1]]
             /\ \A r \in Requests : (proxy[r] => proxy'[r]) /\ (crawler[r] => crawler'[r])
  <2>1. /\ proxy' = [proxy EXCEPT ![c[1]] = TRUE]
        /\ crawler' = [crawler EXCEPT ![c[1]] = crawler[c[1]] \/ proxy[c[1]]]
    BY <1>3 DEF Mark
  <2>2. proxy'[c[1]] /\ (crawler'[c[1]] <=> (crawler[c[1]] \/ proxy[c[1]]))
    BY <1>1, <2>1, Zenon
  <2>3. \A r \in Requests : r /= c[1] => proxy'[r] = proxy[r] /\ crawler'[r] = crawler[r]
    BY <1>1, <2>1, Zenon
  <2>4. pc'[c] = "proxy" => ~proxy[c[1]]
    BY <1>3 DEF Extracts
  <2>5. pc'[c] = "crawler" => proxy[c[1]] /\ ~crawler[c[1]]
    BY <1>3 DEF Extracts
  <2>6. QED
    BY <2>2, <2>3, <2>4, <2>5, Zenon
<1>4. CASE Acquire(c)
  <2>1. pc'[c] = Extracts(c) /\ Mark(c)
    BY <1>2, <1>4, Places DEF Acquire
  <2>2. QED
    BY <1>3, <2>1
<1>5. CASE Granted(c)
  <2>1. pc'[c] = Extracts(c) /\ Mark(c)
    BY <1>5 DEF Granted, Hands, Goes
  <2>2. QED
    BY <1>3, <2>1
<1>6. CASE ProxyStarted(c)
  <2>1. /\ pc'[c] = IF crawler[c[1]] THEN "fetch" ELSE "crawler"
        /\ crawler' = [crawler EXCEPT ![c[1]] = TRUE] /\ proxy' = proxy
    <3>1. (IF crawler[c[1]] THEN "fetch" ELSE "crawler") \in Pcs
      BY Places
    <3>2. QED
      BY <1>2, <1>6, <3>1 DEF ProxyStarted
  <2>2. crawler'[c[1]] /\ \A r \in Requests : r /= c[1] => crawler'[r] = crawler[r]
    BY <1>1, <2>1, Zenon
  <2>3. pc'[c] /= "proxy" /\ (pc'[c] = "crawler" => ~crawler[c[1]])
    BY <2>1
  <2>4. QED
    BY <2>1, <2>2, <2>3, Zenon
<1>7. CASE TurnAway(c) \/ Refuse(c) \/ Await(c) \/ Foreign(c) \/ CrawlerStarted(c) \/ Gathered(c)
  <2>1. pc'[c] \in {"turned", "unsafe", "wait", "lost", "fetch", "page"}
    BY <1>2, <1>7, Places DEF TurnAway, Refuse, Await, Foreign, CrawlerStarted, Gathered
  <2>2. UNCHANGED crawlerVars
    BY <1>7 DEF TurnAway, Refuse, Await, Foreign, CrawlerStarted, Gathered
  <2>3. QED
    BY <2>1, <2>2 DEF crawlerVars
<1>8. CASE Lose(c) \/ Leaf(c) \/ \E links \in BoundedSeq(Pages, MaxLinks) : Branch(c, links)
  <2>1. pc'[c] \in {"lost", "page", "subs"}
    BY <1>8 DEF Lose, Leaf, Branch, Release, Hands, Goes
  <2>2. UNCHANGED crawlerVars
    BY <1>8 DEF Lose, Leaf, Branch, Found
  <2>3. QED
    BY <2>1, <2>2 DEF crawlerVars
<1>9. QED
  BY <1>4, <1>5, <1>6, <1>7, <1>8 DEF Run

\* Although the attributes are set while what they name is only being started,
\* and tasks come and go meanwhile, it is started once.
THEOREM StartsOnce == Spec => []StartedOnce
<1>1. Init => StartInv /\ RestInv
  BY EmptySeq, Constants DEF Init, StartInv, RestInv
<1>2. Inv /\ RestInv /\ StartInv /\ [Next]_vars => StartInv'
  <2> SUFFICES ASSUME Inv, RestInv, StartInv, [Next]_vars PROVE StartInv'
    OBVIOUS
  <2>1. ASSUME NEW c \in Crawls, Run(c)
        PROVE  StartInv'
    <3>1. \A k \in Crawls \ {c} : pc'[k] \in {"proxy", "crawler"} => pc'[k] = pc[k]
      BY <2>1, RunShape DEF Shape, OtherMoves
    <3>2. \A k \in Crawls : k[1] \in Requests
      BY CrawlsAreTriples
    <3>3. /\ pc'[c] = "proxy" => ~proxy[c[1]] /\ proxy'[c[1]]
          /\ pc'[c] = "crawler" => ~crawler[c[1]] /\ crawler'[c[1]]
          /\ \A r \in Requests : (proxy[r] => proxy'[r]) /\ (crawler[r] => crawler'[r])
      BY <2>1, StartStep
    <3>4. ASSUME NEW k \in Crawls
          PROVE  (pc'[k] = "proxy" => proxy'[k[1]]) /\ (pc'[k] = "crawler" => crawler'[k[1]])
      BY <3>1, <3>2, <3>3 DEF StartInv
    <3>5. ASSUME NEW j \in Crawls, NEW k \in Crawls, j[1] = k[1], pc'[j] = pc'[k],
                 pc'[j] \in {"proxy", "crawler"}
          PROVE  j = k
      BY <3>1, <3>3, <3>5 DEF StartInv
    <3>6. QED
      BY <3>4, <3>5 DEF StartInv
  <2>2. ASSUME NEW r \in Requests, NEW pages \in BoundedSeq(Pages, MaxTops), Begin(r, pages)
        PROVE  StartInv'
    <3>1. \A k \in Crawls : pc'[k] = pc[k] \/ pc'[k] = "new"
      BY <2>2, BeginShape
    <3>2. UNCHANGED <<proxy, crawler>>
      BY <2>2, BeginShape DEF crawlerVars
    <3>3. QED
      BY <3>1, <3>2 DEF StartInv
  <2>3. CASE UNCHANGED <<pc, proxy, crawler>>
    BY <2>3 DEF StartInv
  <2>4. \/ \E c \in Crawls : Run(c)
        \/ \E r \in Requests, pages \in BoundedSeq(Pages, MaxTops) : Begin(r, pages)
        \/ UNCHANGED <<pc, proxy, crawler>>
    BY DEF Next, Close, Wake, vars, taskVars, crawlerVars
  <2>5. QED
    BY <2>1, <2>2, <2>3, <2>4
<1>3. StartInv => StartedOnce
  <2> SUFFICES ASSUME StartInv, NEW r \in Requests, NEW place \in {"proxy", "crawler"}
               PROVE  Cardinality({c \in Crawls : c[1] = r /\ pc[c] = place}) <= 1
    BY DEF StartedOnce
  <2> DEFINE S == {c \in Crawls : c[1] = r /\ pc[c] = place}
  <2>1. CASE S = {}
    BY <2>1, FS_EmptySet
  <2>2. CASE S /= {}
    <3>1. PICK c \in S : TRUE
      BY <2>2
    <3>2. S = {c}
      BY <3>1 DEF StartInv
    <3>3. Cardinality({c}) = 1
      BY FS_Singleton
    <3>4. Cardinality(S) = 1
      BY <3>2, <3>3
    <3>5. QED
      BY <3>4
  <2>3. QED
    BY <2>1, <2>2
<1>4. QED
  BY <1>1, <1>2, <1>3, Invariant, RestInvariant, PTL DEF Spec

-----------------------------------------------------------------------------
(* The tasks that are ready, in their order.                               *)

NewTop(k)    == IsTop(k) /\ pc[k] = "new"
SubsEnded(k) == \A m \in SubsOf(k) : pc[m] \in Ended \union {"none"}

\* Whoever waits for a domain belongs to the loop its semaphore is bound to.
WaitersOwn ==
  \A d \in Domains : \A i \in 1 .. Len(waiters[d]) : waiters[d][i][1] = owner[d]

\* A loop has tasks of its own to run, each once; those of the results come first
\* and miss nobody, and a page whose links were crawled is among them only then.
LineInv ==
  /\ \A r \in Requests : \A i \in 1 .. Len(ready[r]) :
       /\ ready[r][i][1] = r
       /\ pc[ready[r][i]] \in {"new", "subs"} \union Holding
       /\ \A j \in 1 .. Len(ready[r]) : ready[r][j] = ready[r][i] => j = i
       /\ pc[ready[r][i]] = "subs" /\ IsTop(ready[r][i]) => SubsEnded(ready[r][i])
       /\ NewTop(ready[r][i]) => \A j \in 1 .. i : NewTop(ready[r][j])
  /\ \A c \in Crawls : NewTop(c) => \E i \in 1 .. Len(ready[c[1]]) : ready[c[1]][i] = c

QueueInv == WaitersOwn /\ LineInv

\* What a step of c leaves of the tasks that were ready, and who joins them.
Left(c, r)   == IF r = c[1] THEN Len(ready[r]) - 1 ELSE Len(ready[r])
Old(c, r, i) == ready[r][IF r = c[1] THEN i + 1 ELSE i]
Joins(c, r, k) ==
  /\ k \in Crawls /\ k[1] = r /\ k /= c
  /\ \/ pc[k] = "wait" /\ pc'[k] = "granted"
     \/ pc[k] = "none" /\ pc'[k] = "new" /\ ~IsTop(k)
QueueStep(c) ==
  \A r \in Requests :
    /\ Len(ready[r]) \in Nat /\ Len(ready'[r]) \in Nat
    /\ Left(c, r) \in Nat /\ Left(c, r) <= Len(ready'[r])
    /\ \A i \in 1 .. Left(c, r) : ready'[r][i] = Old(c, r, i)
    /\ \A i \in (Left(c, r) + 1) .. Len(ready'[r]) : Joins(c, r, ready'[r][i])
    /\ \A i, j \in (Left(c, r) + 1) .. Len(ready'[r]) : ready'[r][i] = ready'[r][j] => i = j
    /\ \A k \in Crawls \ {c} : k[1] = r /\ pc[k] \in {"none", "wait"} /\ pc'[k] \in {"new", "granted"} =>
         InLine(ready'[r], k)

\* The step takes its task from the head and adds those it wakes, then those it made.
LEMMA GoesQueue ==
  ASSUME RestInv, NEW c \in Crawls, NEW place, Runs(c, place), NEW to, NEW loop,
         NEW granted \in Seq(Crawls), NEW made \in Seq(Crawls),
         Goes(c, to, granted, loop, made),
         \A i \in 1 .. Len(granted) :
           /\ pc[granted[i]] = "wait" /\ granted[i] /= c /\ granted[i][1] = loop
           /\ \A j \in 1 .. Len(granted) : granted[i] = granted[j] => i = j,
         \A i \in 1 .. Len(made) :
           /\ pc[made[i]] = "none" /\ made[i] /= c /\ made[i][1] = c[1] /\ ~IsTop(made[i])
           /\ \A j \in 1 .. Len(made) : made[i] = made[j] => i = j
  PROVE  QueueStep(c)
<1>1. c[1] \in Requests /\ ready[c[1]] /= <<>> /\ <<>> \in Seq(Crawls) /\ Len(<<>>) = 0
  BY CrawlsAreTriples, EmptySeq DEF Runs
<1>2. /\ Len(granted) \in Nat /\ \A i \in 1 .. Len(granted) : granted[i] \in Crawls
      /\ Len(made) \in Nat /\ \A i \in 1 .. Len(made) : made[i] \in Crawls
      /\ DOMAIN granted = 1 .. Len(granted) /\ DOMAIN made = 1 .. Len(made)
  BY ElementOfSeq, LenProperties
<1>3. \A i \in 1 .. Len(granted) : pc'[granted[i]] = "granted"
  BY <1>2 DEF Goes, ToSet
<1>4. \A i \in 1 .. Len(made) : pc'[made[i]] = "new"
  <2> SUFFICES ASSUME NEW i \in 1 .. Len(made)
               PROVE  pc'[made[i]] = "new"
    OBVIOUS
  <2>1. made[i] \in ToSet(made) /\ made[i] \notin ToSet(granted) /\ made[i] /= c
    BY <1>2 DEF ToSet
  <2>2. QED
    BY <1>2, <2>1 DEF Goes
<1>5. SUFFICES ASSUME NEW r \in Requests
               PROVE  /\ Len(ready[r]) \in Nat /\ Len(ready'[r]) \in Nat
                      /\ Left(c, r) \in Nat /\ Left(c, r) <= Len(ready'[r])
                      /\ \A i \in 1 .. Left(c, r) : ready'[r][i] = Old(c, r, i)
                      /\ \A i \in (Left(c, r) + 1) .. Len(ready'[r]) : Joins(c, r, ready'[r][i])
                      /\ \A i, j \in (Left(c, r) + 1) .. Len(ready'[r]) :
                           ready'[r][i] = ready'[r][j] => i = j
                      /\ \A k \in Crawls \ {c} :
                           k[1] = r /\ pc[k] \in {"none", "wait"} /\ pc'[k] \in {"new", "granted"} =>
                             InLine(ready'[r], k)
  BY DEF QueueStep
<1> DEFINE x == IF r = c[1] THEN Tail(ready[r]) ELSE ready[r]
           y == IF r = loop THEN granted ELSE <<>>
           z == IF r = c[1] THEN made ELSE <<>>
<1>6. ready'[r] = (x \o y) \o z
  BY DEF Goes
<1>7. /\ x \in Seq(Crawls) /\ Len(x) = Left(c, r) /\ Len(ready[r]) \in Nat
      /\ \A i \in 1 .. Left(c, r) : x[i] = Old(c, r, i)
  <2>1. ready[r] \in Seq(Crawls)
    BY DEF RestInv
  <2>2. CASE r = c[1]
    <3>1. /\ Tail(ready[r]) \in Seq(Crawls) /\ Len(Tail(ready[r])) = Len(ready[r]) - 1
          /\ \A i \in 1 .. Len(Tail(ready[r])) : Tail(ready[r])[i] = ready[r][i + 1]
      BY <1>1, <2>1, <2>2, HeadTailProperties
    <3>2. QED
      BY <2>1, <2>2, <3>1, LenProperties DEF Left, Old
  <2>3. CASE r /= c[1]
    BY <2>1, <2>3, LenProperties DEF Left, Old
  <2>4. QED
    BY <2>2, <2>3
<1>8. y \in Seq(Crawls) /\ z \in Seq(Crawls)
  BY <1>1
<1>9. /\ \A i \in 1 .. Len(y) : pc[y[i]] = "wait" /\ Joins(c, r, y[i])
      /\ \A i, j \in 1 .. Len(y) : y[i] = y[j] => i = j
  <2>1. CASE r = loop
    BY <1>2, <1>3, <2>1 DEF Joins
  <2>2. CASE r /= loop
    BY <1>1, <2>2
  <2>3. QED
    BY <2>1, <2>2
<1>10. /\ \A i \in 1 .. Len(z) : pc[z[i]] = "none" /\ Joins(c, r, z[i])
       /\ \A i, j \in 1 .. Len(z) : z[i] = z[j] => i = j
  <2>1. CASE r = c[1]
    BY <1>2, <1>4, <2>1 DEF Joins
  <2>2. CASE r /= c[1]
    BY <1>1, <2>2
  <2>3. QED
    BY <2>1, <2>2
<1> HIDE DEF x, y, z
<1>11. Len(x) \in Nat /\ Len(y) \in Nat /\ Len(z) \in Nat
  BY <1>7, <1>8, LenProperties
<1>12. /\ x \o y \in Seq(Crawls) /\ Len(x \o y) = Len(x) + Len(y)
       /\ \A i \in 1 .. Len(x) + Len(y) : (x \o y)[i] = IF i <= Len(x) THEN x[i] ELSE y[i - Len(x)]
  <2>1. x \in Seq(Crawls) /\ y \in Seq(Crawls)
    BY <1>7, <1>8
  <2>2. x \o y \in Seq(Crawls) /\ Len(x \o y) = Len(x) + Len(y)
    BY <2>1, ConcatProperties
  <2>3. \A i \in 1 .. Len(x) + Len(y) : (x \o y)[i] = IF i <= Len(x) THEN x[i] ELSE y[i - Len(x)]
    BY <2>1, ConcatProperties
  <2>4. QED
    BY <2>2, <2>3
<1>13. /\ Len(ready'[r]) = Len(x) + Len(y) + Len(z)
       /\ \A i \in 1 .. Len(x) + Len(y) + Len(z) :
            ready'[r][i] = IF i <= Len(x) + Len(y) THEN (x \o y)[i] ELSE z[i - (Len(x) + Len(y))]
  BY <1>6, <1>8, <1>12, ConcatProperties
<1>14. \A i \in 1 .. Len(x) : ready'[r][i] = x[i]
  BY <1>11, <1>12, <1>13
<1>15. \A i \in (Len(x) + 1) .. Len(ready'[r]) :
         \/ i - Len(x) \in 1 .. Len(y) /\ ready'[r][i] = y[i - Len(x)]
         \/ i - (Len(x) + Len(y)) \in 1 .. Len(z) /\ ready'[r][i] = z[i - (Len(x) + Len(y))]
  BY <1>11, <1>12, <1>13
<1>16. \A i \in (Len(x) + 1) .. Len(ready'[r]) : Joins(c, r, ready'[r][i])
  BY <1>9, <1>10, <1>15
<1>17. ASSUME NEW i \in (Len(x) + 1) .. Len(ready'[r]), NEW j \in (Len(x) + 1) .. Len(ready'[r]),
              ready'[r][i] = ready'[r][j]
       PROVE  i = j
  <2> DEFINE a == Len(x)
             b == Len(x) + Len(y)
             v == ready'[r][i]
  <2>1. a \in Nat /\ b \in Nat
    BY <1>11
  <2>2. \/ i - a \in 1 .. Len(y) /\ v = y[i - a]
        \/ i - b \in 1 .. Len(z) /\ v = z[i - b]
    BY <1>15
  <2>3. \/ j - a \in 1 .. Len(y) /\ v = y[j - a]
        \/ j - b \in 1 .. Len(z) /\ v = z[j - b]
    BY <1>15, <1>17
  <2> HIDE DEF a, b, v
  <2>4. CASE pc[v] = "wait"
    <3>1. i - a \in 1 .. Len(y) /\ j - a \in 1 .. Len(y) /\ y[i - a] = y[j - a]
      BY <1>10, <2>2, <2>3, <2>4
    <3>2. i - a = j - a
      BY <1>9, <3>1
    <3>3. QED
      BY <2>1, <3>2
  <2>5. CASE pc[v] /= "wait"
    <3>1. i - b \in 1 .. Len(z) /\ j - b \in 1 .. Len(z) /\ z[i - b] = z[j - b]
      BY <1>9, <2>2, <2>3, <2>5
    <3>2. i - b = j - b
      BY <1>10, <3>1
    <3>3. QED
      BY <2>1, <3>2
  <2>6. QED
    BY <2>4, <2>5
<1>18. ASSUME NEW k \in Crawls \ {c}, k[1] = r, pc[k] \in {"none", "wait"}, pc'[k] \in {"new", "granted"}
       PROVE  InLine(ready'[r], k)
  <2>1. k \in ToSet(granted) \/ k \in ToSet(made)
    BY <1>18 DEF Goes
  <2>2. \/ r = loop /\ \E i \in 1 .. Len(granted) : granted[i] = k
        \/ r = c[1] /\ \E i \in 1 .. Len(made) : made[i] = k
    BY <1>2, <1>18, <2>1 DEF ToSet
  <2>3. InLine(y, k) \/ InLine(z, k)
    BY <2>2 DEF InLine, y, z
  <2>4. CASE InLine(y, k)
    <3>1. PICK i \in 1 .. Len(y) : y[i] = k
      BY <2>4 DEF InLine
    <3>2. Len(x) + i \in 1 .. Len(ready'[r]) /\ ready'[r][Len(x) + i] = k
      BY <1>11, <1>12, <1>13, <3>1
    <3>3. QED
      BY <3>2 DEF InLine
  <2>5. CASE InLine(z, k)
    <3>1. PICK i \in 1 .. Len(z) : z[i] = k
      BY <2>5 DEF InLine
    <3> DEFINE j == Len(x) + Len(y) + i
    <3>2. /\ j \in 1 .. Len(x) + Len(y) + Len(z) /\ ~(j <= Len(x) + Len(y))
          /\ j - (Len(x) + Len(y)) = i
      BY <1>11, <3>1
    <3> HIDE DEF j
    <3>3. j \in 1 .. Len(ready'[r]) /\ ready'[r][j] = k
      BY <1>13, <3>1, <3>2
    <3>4. QED
      BY <3>3 DEF InLine
  <2>6. QED
    BY <2>3, <2>4, <2>5
<1>19. QED
  BY <1>7, <1>11, <1>13, <1>14, <1>16, <1>17, <1>18

\* The tasks that are woken belong to the loop of the semaphore.
LEMMA HandsQueue ==
  ASSUME Inv, RestInv, QueueInv, NEW c \in Crawls, NEW place, Runs(c, place),
         place \notin {"none", "wait"}, NEW to,
         NEW n \in Nat, NEW s \in Seq(Crawls), Hands(c, to, Domain(c), n, s),
         \A i \in 1 .. Len(s) :
           /\ pc[s[i]] = "none" /\ s[i] /= c /\ s[i][1] = c[1] /\ ~IsTop(s[i])
           /\ \A j \in 1 .. Len(s) : s[i] = s[j] => i = j
  PROVE  QueueStep(c) /\ WaitersOwn'
<1> DEFINE d == Domain(c)
           w == Wakes(d, n)
           g == SubSeq(waiters[d], 1, w)
<1>1. TypeInv /\ WaitInv /\ pc[c] = place
  BY DEF Inv, Runs
<1>2. d \in Domains
  BY <1>1, DomainType
<1>3. waiters[d] \in Seq(Crawls) /\ Len(waiters[d]) \in Nat
  BY <1>1, <1>2, LenProperties DEF TypeInv
<1>4. w \in 0 .. Len(waiters[d]) /\ \A i \in 1 .. w : waiters[d][i] \in Crawls /\ pc[waiters[d][i]] = "wait"
  BY <1>1, <1>2, WokenWait
<1>5. g \in Seq(Crawls) /\ Len(g) = w /\ \A i \in 1 .. w : g[i] = waiters[d][i]
  BY <1>3, <1>4
<1>6. Goes(c, to, g, owner[d], s) /\ UNCHANGED owner
      /\ waiters' = [waiters EXCEPT ![d] = SubSeq(@, w + 1, Len(@))]
  BY DEF Hands
<1> HIDE DEF g, w
<1>7. \A i \in 1 .. Len(g) :
        /\ pc[g[i]] = "wait" /\ g[i] /= c /\ g[i][1] = owner[d]
        /\ \A j \in 1 .. Len(g) : g[i] = g[j] => i = j
  <2> SUFFICES ASSUME NEW i \in 1 .. Len(g)
               PROVE  /\ pc[g[i]] = "wait" /\ g[i] /= c /\ g[i][1] = owner[d]
                      /\ \A j \in 1 .. Len(g) : g[i] = g[j] => i = j
    OBVIOUS
  <2>1. i \in 1 .. w /\ i \in 1 .. Len(waiters[d]) /\ g[i] = waiters[d][i]
    BY <1>3, <1>4, <1>5
  <2>2. pc[g[i]] = "wait" /\ g[i] /= c
    BY <1>1, <1>4, <2>1
  <2>3. g[i][1] = owner[d]
    BY <1>2, <2>1 DEF QueueInv, WaitersOwn
  <2>4. ASSUME NEW j \in 1 .. Len(g), g[i] = g[j]
        PROVE  i = j
    <3>1. j \in 1 .. Len(waiters[d]) /\ waiters[d][j] = waiters[d][i]
      BY <1>3, <1>4, <1>5, <2>1, <2>4
    <3>2. QED
      BY <1>1, <1>2, <2>1, <3>1 DEF WaitInv
  <2>5. QED
    BY <2>2, <2>3, <2>4
<1>8. QueueStep(c)
  BY <1>5, <1>6, <1>7, GoesQueue
<1>9. WaitersOwn'
  <2> SUFFICES ASSUME NEW e \in Domains, NEW i \in 1 .. Len(waiters'[e])
               PROVE  waiters'[e][i][1] = owner[e]
    BY <1>6 DEF WaitersOwn
  <2>1. CASE e /= d
    BY <1>1, <1>6, <2>1 DEF QueueInv, WaitersOwn, TypeInv
  <2>2. CASE e = d
    <3>1. waiters'[d] = SubSeq(waiters[d], w + 1, Len(waiters[d]))
      BY <1>1, <1>2, <1>6, Zenon DEF TypeInv
    <3>2. /\ Len(waiters'[d]) = Len(waiters[d]) - w
          /\ \A j \in 1 .. Len(waiters[d]) - w :
               waiters'[d][j] = waiters[d][w + j] /\ w + j \in 1 .. Len(waiters[d])
      BY <1>3, <1>4, <3>1
    <3>3. QED
      BY <1>2, <2>2, <3>2 DEF QueueInv, WaitersOwn
  <2>3. QED
    BY <2>1, <2>2
<1>10. QED
  BY <1>8, <1>9

\* Every step of a task treats the queue of its loop like this.
LEMMA RunQueue ==
  ASSUME Inv, RestInv, QueueInv, NEW c \in Crawls, Run(c)
  PROVE  QueueStep(c) /\ WaitersOwn'
<1>1. /\ TypeInv /\ WaitersOwn
      /\ <<>> \in Seq(Crawls) /\ Len(<<>>) = 0 /\ \A i \in 1 .. Len(<<>>) : FALSE
  BY EmptySeq DEF Inv, QueueInv
<1>2. pc[c] /= "none" => Domain(c) \in Domains /\ permits[Domain(c)] \in Nat
  BY <1>1, DomainType
<1>3. ASSUME NEW to, NEW place, Runs(c, place), Only(c, to)
      PROVE  QueueStep(c)
  <2>1. Goes(c, to, <<>>, None, <<>>)
    BY <1>3 DEF Only
  <2>2. QED
    BY <1>1, <1>3, <2>1, GoesQueue
<1>4. CASE TurnAway(c) \/ Refuse(c) \/ Acquire(c) \/ Foreign(c) \/ ProxyStarted(c) \/ CrawlerStarted(c) \/ Gathered(c)
  <2>1. (\E to, place : Runs(c, place) /\ Only(c, to)) /\ UNCHANGED <<owner, waiters>>
    BY <1>4 DEF TurnAway, Refuse, Acquire, Foreign, ProxyStarted, CrawlerStarted, Gathered, Spend, Visit, limiterVars
  <2>2. QED
    BY <1>1, <1>3, <2>1 DEF WaitersOwn
<1>5. CASE Await(c)
  <2> DEFINE d == Domain(c)
  <2>1. /\ Runs(c, "new") /\ Only(c, "wait") /\ owner' = [owner EXCEPT ![d] = c[1]]
        /\ owner[d] \in {None, c[1]}
        /\ waiters' = [waiters EXCEPT ![d] = Append(@, c)]
    BY <1>5 DEF Await, Spend, Visit
  <2>2. d \in Domains
    BY <1>2, <2>1 DEF Runs
  <2>3. ASSUME NEW e \in Domains, NEW i \in 1 .. Len(waiters'[e])
        PROVE  waiters'[e][i][1] = owner'[e]
    <3>1. CASE e /= d
      BY <1>1, <2>1, <3>1 DEF WaitersOwn, RestInv, TypeInv
    <3>2. CASE e = d
      <4>1. waiters[d] \in Seq(Crawls) /\ waiters'[d] = Append(waiters[d], c) /\ owner'[d] = c[1]
        BY <1>1, <2>1, <2>2 DEF TypeInv, RestInv
      <4>2. /\ Len(waiters'[d]) = Len(waiters[d]) + 1 /\ Len(waiters[d]) \in Nat
            /\ \A j \in 1 .. Len(waiters[d]) : waiters'[d][j] = waiters[d][j] /\ waiters[d][j] \in Crawls
            /\ waiters'[d][Len(waiters[d]) + 1] = c
        BY <4>1, AppendProperties, LenProperties, ElementOfSeq
      <4>3. \A j \in 1 .. Len(waiters[d]) : waiters[d][j][1] = owner[d] /\ owner[d] /= None
        <5>1. None \notin Requests
          BY CrawlAssumption
        <5>2. QED
          BY <1>1, <2>2, <4>2, <5>1, CrawlsAreTriples DEF WaitersOwn
      <4>4. QED
        BY <2>1, <3>2, <4>1, <4>2, <4>3
    <3>3. QED
      BY <3>1, <3>2
  <2>4. QED
    BY <1>3, <2>1, <2>3 DEF WaitersOwn
<1>6. CASE Granted(c)
  <2>1. Runs(c, "granted") /\ Hands(c, Extracts(c), Domain(c), permits[Domain(c)], <<>>)
    BY <1>6 DEF Granted
  <2>2. permits[Domain(c)] \in Nat
    BY <1>2, <2>1 DEF Runs
  <2>3. QED
    BY <1>1, <2>1, <2>2, HandsQueue
<1>7. CASE Lose(c) \/ Leaf(c)
  <2>1. PICK place \in {"proxy", "crawler", "fetch"} : Runs(c, place)
    BY <1>7 DEF Lose, Leaf
  <2>2. PICK to \in {"lost", "page"} : Hands(c, to, Domain(c), 1, <<>>)
    BY <1>7 DEF Lose, Leaf, Release
  <2>3. QED
    BY <1>1, <2>1, <2>2, HandsQueue
<1>8. ASSUME NEW links \in BoundedSeq(Pages, MaxLinks), Branch(c, links)
      PROVE  QueueStep(c) /\ WaitersOwn'
  <2> DEFINE s == LinkTasks(c, links)
  <2>1. Runs(c, "fetch") /\ IsTop(c) /\ Hands(c, "subs", Domain(c), 1, s) /\ pc[c] = "fetch"
    BY <1>8 DEF Branch, Found, Release, Runs
  <2>2. PICK m \in 0 .. MaxLinks : links \in [1 .. m -> Pages]
    BY DEF BoundedSeq, SeqOf
  <2>3. Len(links) = m /\ m \in Nat /\ c[1] \in Requests /\ c[2] \in 1 .. MaxTops
    BY <2>2, Constants, CrawlsAreTriples
  <2>4. s = [j \in 1 .. m |-> <<c[1], c[2], j>>] /\ 1 .. m \subseteq 1 .. MaxLinks
        /\ 1 .. MaxLinks \subseteq 0 .. MaxLinks
    BY <2>2, <2>3, Constants DEF LinkTasks
  <2>5. \A j \in 1 .. m : s[j] \in Crawls /\ s[j][1] = c[1] /\ s[j][2] = c[2] /\ s[j][3] = j
    BY <2>3, <2>4, CrawlsAreTriples
  <2>6. s \in [1 .. m -> Crawls]
    BY <2>4, <2>5
  <2>7. s \in Seq(Crawls) /\ Len(s) = m
    BY <2>3, <2>6, SeqDef
  <2> HIDE DEF s
  <2>8. \A j \in 1 .. m : s[j] \in SubsOf(c) /\ ~IsTop(s[j]) /\ s[j] /= c
    BY <2>1, <2>3, <2>5 DEF SubsOf, IsTop
  <2>9. \A j \in 1 .. m : pc[s[j]] = "none"
    BY <2>1, <2>8 DEF Inv, SubsInv
  <2>10. QED
    BY <2>1, <2>5, <2>7, <2>8, <2>9, HandsQueue
<1>9. QED
  BY <1>4, <1>5, <1>6, <1>7, <1>8 DEF Run

\* The task of the page that a link belongs to.
Parent(k) == <<k[1], k[2], 0>>

\* A link belongs to one page, which is crawled by a task of the first level.
LEMMA Parents ==
  /\ \A k \in Crawls : ~IsTop(k) =>
       /\ Parent(k) \in Crawls /\ IsTop(Parent(k)) /\ Parent(k)[1] = k[1] /\ k \in SubsOf(Parent(k))
  /\ \A t \in Crawls : \A k \in SubsOf(t) : IsTop(t) => k \in Crawls /\ ~IsTop(k) /\ t = Parent(k)
<1>1. ASSUME NEW k \in Crawls, ~IsTop(k)
      PROVE  /\ Parent(k) \in Crawls /\ IsTop(Parent(k)) /\ Parent(k)[1] = k[1]
             /\ k \in SubsOf(Parent(k))
  <2>1. k[1] \in Requests /\ k[2] \in 1 .. MaxTops /\ 0 \in 0 .. MaxLinks
    BY CrawlsAreTriples, Constants
  <2>2. Parent(k) \in Crawls /\ Parent(k)[1] = k[1] /\ Parent(k)[2] = k[2] /\ Parent(k)[3] = 0
    BY <2>1, CrawlsAreTriples DEF Parent
  <2>3. QED
    BY <1>1, <2>2 DEF IsTop, SubsOf
<1>2. ASSUME NEW t \in Crawls, NEW k \in SubsOf(t), IsTop(t)
      PROVE  k \in Crawls /\ ~IsTop(k) /\ t = Parent(k)
  <2>1. k \in Crawls /\ ~IsTop(k) /\ k[1] = t[1] /\ k[2] = t[2] /\ t[3] = 0
    BY <1>2 DEF SubsOf, IsTop
  <2>2. t = <<t[1], t[2], t[3]>>
    BY CrawlsAreTriples
  <2>3. QED
    BY <2>1, <2>2 DEF Parent
<1>3. QED
  BY <1>1, <1>2

\* The links of a page that is not being fetched stay as far as they are.
LEMMA EndedStays ==
  ASSUME Inv, NEW c \in Crawls, Run(c), NEW t \in Crawls, IsTop(t), SubsEnded(t), pc[t] /= "fetch"
  PROVE  \A k \in SubsOf(t) : pc'[k] \in Ended \union {"none"}
<1>1. SUFFICES ASSUME NEW k \in SubsOf(t)
               PROVE  pc'[k] \in Ended \union {"none"}
  OBVIOUS
<1>2. k \in Crawls /\ pc[k] \in Ended \union {"none"} /\ t = Parent(k)
  BY Parents DEF SubsEnded
<1>3. Shape(c)
  BY RunShape
<1>4. k /= c
  BY <1>2, <1>3 DEF Shape, OwnMove, Ended, Holding
<1>5. ~(IsTop(c) /\ k \in SubsOf(c) /\ pc[c] = "fetch")
  BY <1>2, Parents
<1>6. pc'[k] = pc[k]
  BY <1>2, <1>3, <1>4, <1>5 DEF Shape, OtherMoves, Ended
<1>7. QED
  BY <1>2, <1>6

\* The task that runs is at the head of its queue and nowhere else in it.
LEMMA Head1 ==
  ASSUME RestInv, QueueInv, NEW c \in Crawls, NEW place, Runs(c, place)
  PROVE  /\ c[1] \in Requests /\ Len(ready[c[1]]) \in Nat \ {0} /\ ready[c[1]][1] = c
         /\ \A i \in 1 .. Len(ready[c[1]]) : ready[c[1]][i] = c => i = 1
<1>1. c[1] \in Requests /\ ready[c[1]] \in Seq(Crawls) /\ ready[c[1]] /= <<>>
  BY CrawlsAreTriples DEF RestInv, Runs
<1>2. Len(ready[c[1]]) \in Nat \ {0} /\ ready[c[1]][1] = c
  BY <1>1 DEF Runs
<1>3. 1 \in 1 .. Len(ready[c[1]])
  BY <1>2
<1>4. QED
  BY <1>1, <1>2, <1>3 DEF QueueInv, LineInv

\* Every step of a task is made by one that runs.
LEMMA RunRuns ==
  ASSUME NEW c \in Crawls, Run(c)
  PROVE  \E place : Runs(c, place)
  BY DEF Run, TurnAway, Refuse, Acquire, Await, Foreign, Granted, ProxyStarted, CrawlerStarted,
         Lose, Leaf, Gathered, Branch, Found, Spend, Visit

\* A task that was ready before the step and is after it.
LEMMA OldEntry ==
  ASSUME Inv, RestInv, QueueInv, NEW c \in Crawls, Run(c),
         NEW r \in Requests, NEW i \in 1 .. Left(c, r)
  PROVE  LET b == IF r = c[1] THEN i + 1 ELSE i
             k == ready[r][b]
         IN  /\ b \in 1 .. Len(ready[r]) /\ ready'[r][i] = k
             /\ k \in Crawls /\ k /= c /\ k[1] = r /\ pc'[k] = pc[k]
             /\ pc[k] \in {"new", "subs"} \union Holding
<1> DEFINE b == IF r = c[1] THEN i + 1 ELSE i
           k == ready[r][b]
<1>1. PICK place : Runs(c, place)
  BY RunRuns
<1>2. /\ Len(ready[r]) \in Nat /\ Left(c, r) \in Nat /\ ready'[r][i] = k
  BY RunQueue DEF QueueStep, Old
<1>3. b \in 1 .. Len(ready[r]) /\ (r = c[1] => b /= 1)
  BY <1>2 DEF Left
<1>4. k \in Crawls /\ k[1] = r /\ pc[k] \in {"new", "subs"} \union Holding
  <2>1. ready[r] \in Seq(Crawls)
    BY DEF RestInv
  <2>2. QED
    BY <1>3, <2>1, ElementOfSeq DEF QueueInv, LineInv
<1>5. k /= c
  BY <1>1, <1>3, <1>4, Head1
<1>6. pc'[k] = pc[k]
  BY <1>4, <1>5, RunShape DEF Shape, OtherMoves, Holding
<1>7. QED
  BY <1>2, <1>3, <1>4, <1>5, <1>6

\* The queues keep their order.
LEMMA RunKeepsLine ==
  ASSUME Inv, RestInv, QueueInv, NEW c \in Crawls, Run(c)
  PROVE  LineInv'
<1>1. PICK place : Runs(c, place)
  BY RunRuns
<1>2. /\ c[1] \in Requests /\ Len(ready[c[1]]) \in Nat \ {0} /\ ready[c[1]][1] = c
  BY <1>1, Head1
<1>3. Shape(c)
  BY RunShape
<1>4. ASSUME NEW r \in Requests, NEW i \in 1 .. Len(ready'[r])
      PROVE  LET k == ready'[r][i]
             IN  /\ k[1] = r /\ pc'[k] \in {"new", "subs"} \union Holding
                 /\ \A j \in 1 .. Len(ready'[r]) : ready'[r][j] = k => j = i
                 /\ pc'[k] = "subs" /\ IsTop(k) => \A m \in SubsOf(k) : pc'[m] \in Ended \union {"none"}
                 /\ IsTop(k) /\ pc'[k] = "new" =>
                      \A j \in 1 .. i : IsTop(ready'[r][j]) /\ pc'[ready'[r][j]] = "new"
  <2> DEFINE n == Left(c, r)
             k == ready'[r][i]
             At(j) == IF r = c[1] THEN j + 1 ELSE j
  <2>1. /\ n \in Nat /\ Len(ready'[r]) \in Nat /\ n <= Len(ready'[r])
        /\ \A j \in (n + 1) .. Len(ready'[r]) : Joins(c, r, ready'[r][j])
        /\ \A j1, j2 \in (n + 1) .. Len(ready'[r]) : ready'[r][j1] = ready'[r][j2] => j1 = j2
    BY RunQueue DEF QueueStep
  <2>2. \A j \in 1 .. n :
          /\ At(j) \in 1 .. Len(ready[r]) /\ ready'[r][j] = ready[r][At(j)]
          /\ ready'[r][j] \in Crawls /\ ready'[r][j] /= c /\ ready'[r][j][1] = r
          /\ pc'[ready'[r][j]] = pc[ready'[r][j]]
          /\ pc[ready'[r][j]] \in {"new", "subs"} \union Holding
    BY OldEntry
  <2>3. CASE i \in 1 .. n
    <3>1. k[1] = r /\ pc'[k] \in {"new", "subs"} \union Holding /\ k \in Crawls
      BY <2>2, <2>3
    <3>2. ASSUME NEW j \in 1 .. Len(ready'[r]), ready'[r][j] = k
          PROVE  j = i
      <4>1. CASE j \in 1 .. n
        <5>1. ready[r][At(j)] = ready[r][At(i)] /\ At(j) \in 1 .. Len(ready[r]) /\ At(i) \in 1 .. Len(ready[r])
          BY <2>2, <2>3, <3>2, <4>1
        <5>2. At(j) = At(i)
          BY <5>1 DEF QueueInv, LineInv
        <5>3. QED
          BY <4>1, <2>3, <5>2
      <4>2. CASE j \notin 1 .. n
        <5>1. Joins(c, r, k)
          BY <2>1, <3>2, <4>2
        <5>2. QED
          BY <2>2, <2>3, <5>1 DEF Joins, Holding
      <4>3. QED
        BY <4>1, <4>2
    <3>3. ASSUME pc'[k] = "subs", IsTop(k)
          PROVE  \A m \in SubsOf(k) : pc'[m] \in Ended \union {"none"}
      <4>1. pc[k] = "subs" /\ SubsEnded(k)
        BY <2>2, <2>3, <3>3 DEF QueueInv, LineInv
      <4>2. QED
        BY <3>1, <3>3, <4>1, EndedStays
    <3>4. ASSUME IsTop(k), pc'[k] = "new", NEW j \in 1 .. i
          PROVE  IsTop(ready'[r][j]) /\ pc'[ready'[r][j]] = "new"
      <4>1. j \in 1 .. n /\ At(j) \in 1 .. At(i)
        BY <2>1, <2>3
      <4>2. NewTop(ready[r][At(i)]) /\ At(i) \in 1 .. Len(ready[r])
        BY <2>2, <2>3, <3>4 DEF NewTop
      <4>3. NewTop(ready[r][At(j)])
        BY <4>1, <4>2 DEF QueueInv, LineInv
      <4>4. QED
        BY <2>2, <4>1, <4>3 DEF NewTop
    <3>5. QED
      BY <3>1, <3>2, <3>3, <3>4
  <2>4. CASE i \notin 1 .. n
    <3>1. i \in (n + 1) .. Len(ready'[r]) /\ Joins(c, r, k)
      BY <2>1, <2>4
    <3>2. k[1] = r /\ pc'[k] \in {"new"} \union Holding /\ ~(IsTop(k) /\ pc'[k] = "new")
          /\ pc'[k] /= "subs"
      BY <3>1 DEF Joins, Holding
    <3>3. ASSUME NEW j \in 1 .. Len(ready'[r]), ready'[r][j] = k
          PROVE  j = i
      <4>1. j \notin 1 .. n
        BY <2>2, <3>1, <3>3 DEF Joins, Holding
      <4>2. QED
        BY <2>1, <3>1, <3>3, <4>1
    <3>4. QED
      BY <3>2, <3>3
  <2>5. QED
    BY <2>3, <2>4
<1>5. ASSUME NEW k \in Crawls, IsTop(k), pc'[k] = "new"
      PROVE  \E i \in 1 .. Len(ready'[k[1]]) : ready'[k[1]][i] = k
  <2>1. k /= c /\ pc[k] = "new" /\ k[1] \in Requests
    <3>1. k /= c
      BY <1>3, <1>5 DEF Shape, OwnMove
    <3>2. pc[k] = "new"
      BY <1>3, <1>5, <3>1 DEF Shape, OtherMoves, SubsOf
    <3>3. QED
      BY <3>1, <3>2, CrawlsAreTriples
  <2>2. PICK b \in 1 .. Len(ready[k[1]]) : ready[k[1]][b] = k
    BY <1>5, <2>1 DEF QueueInv, LineInv, NewTop
  <2> DEFINE i == IF k[1] = c[1] THEN b - 1 ELSE b
  <2>3. Len(ready[k[1]]) \in Nat /\ (k[1] = c[1] => b /= 1)
    <3>1. Len(ready[k[1]]) \in Nat
      BY <2>1, RunQueue DEF QueueStep
    <3>2. QED
      BY <1>2, <2>1, <2>2, <3>1
  <2>4. i \in 1 .. Left(c, k[1]) /\ Old(c, k[1], i) = ready[k[1]][b]
    BY <2>2, <2>3 DEF Left, Old
  <2>5. i \in 1 .. Len(ready'[k[1]]) /\ ready'[k[1]][i] = k
    BY <2>1, <2>2, <2>4, RunQueue DEF QueueStep
  <2>6. QED
    BY <2>5
<1>6. QED
  BY <1>4, <1>5 DEF LineInv, NewTop, IsTop, SubsEnded, SubsOf

\* The start of a crawl queues the tasks of its results and nobody else.
LEMMA BeginQueue ==
  ASSUME Inv, RestInv, QueueInv, NEW r \in Requests, NEW pages \in BoundedSeq(Pages, MaxTops),
         Begin(r, pages)
  PROVE  QueueInv'
<1>1. /\ \A k \in Crawls : \/ pc'[k] = pc[k] /\ url'[k] = url[k]
                           \/ /\ IsTop(k) /\ k[1] = r /\ pc[k] = "none" /\ pc'[k] = "new"
      /\ UNCHANGED <<waiters, owner>>
  BY BeginShape DEF limiterVars
<1>2. WaitersOwn'
  BY <1>1 DEF QueueInv, WaitersOwn
<1>3. /\ \A c \in Tops(r) : pc[c] = "none"
      /\ ready' = [ready EXCEPT ![r] = FirstTasks(r, pages)]
      /\ pc' = [c \in Crawls |-> IF c \in ToSet(FirstTasks(r, pages)) THEN "new" ELSE pc[c]]
  BY DEF Begin, Starts
<1>4. PICK m \in 0 .. MaxTops : pages \in [1 .. m -> Pages]
  BY DEF BoundedSeq, SeqOf
<1> DEFINE s == FirstTasks(r, pages)
<1>5. /\ m \in Nat /\ s = [i \in 1 .. m |-> <<r, i, 0>>] /\ Len(s) = m
      /\ \A i \in 1 .. m : s[i] \in Crawls /\ s[i][1] = r /\ s[i][2] = i /\ IsTop(s[i])
  <2>1. Len(pages) = m /\ m \in Nat /\ 0 \in 0 .. MaxLinks /\ 1 .. m \subseteq 1 .. MaxTops
    BY <1>4, Constants
  <2>2. s = [i \in 1 .. m |-> <<r, i, 0>>]
    BY <2>1 DEF FirstTasks
  <2>3. Len(s) = m
    BY <2>1, <2>2
  <2>4. \A i \in 1 .. m : s[i] \in Crawls /\ s[i][1] = r /\ s[i][2] = i /\ s[i][3] = 0
    BY <2>1, <2>2, CrawlsAreTriples
  <2>5. QED
    BY <2>1, <2>2, <2>3, <2>4 DEF IsTop
<1>6. \A i \in 1 .. m : pc'[s[i]] = "new"
  BY <1>3, <1>5 DEF ToSet
<1> HIDE DEF s
<1>7. ready'[r] = s /\ \A q \in Requests : q /= r => ready'[q] = ready[q]
  BY <1>3 DEF RestInv, s
<1>8. \A i \in 1 .. m :
        /\ s[i][1] = r /\ pc'[s[i]] = "new"
        /\ \A j \in 1 .. m : s[j] = s[i] => j = i
        /\ \A j \in 1 .. i : IsTop(s[j]) /\ pc'[s[j]] = "new"
  BY <1>5, <1>6
<1>9. ASSUME NEW q \in Requests, q /= r, NEW i \in 1 .. Len(ready[q])
      PROVE  LET k == ready[q][i]
             IN  /\ k[1] = q /\ pc'[k] \in {"new", "subs"} \union Holding
                 /\ \A j \in 1 .. Len(ready[q]) : ready[q][j] = k => j = i
                 /\ pc'[k] = "subs" /\ IsTop(k) => \A x \in SubsOf(k) : pc'[x] \in Ended \union {"none"}
                 /\ IsTop(k) /\ pc'[k] = "new" =>
                      \A j \in 1 .. i : IsTop(ready[q][j]) /\ pc'[ready[q][j]] = "new"
  <2> DEFINE k == ready[q][i]
  <2>1. \A j \in 1 .. Len(ready[q]) :
          ready[q][j] \in Crawls /\ ready[q][j][1] = q /\ pc'[ready[q][j]] = pc[ready[q][j]]
    <3>1. ready[q] \in Seq(Crawls)
      BY DEF RestInv
    <3>2. \A j \in 1 .. Len(ready[q]) : ready[q][j] \in Crawls /\ ready[q][j][1] = q
      BY <3>1, ElementOfSeq DEF QueueInv, LineInv
    <3>3. QED
      BY <1>1, <1>9, <3>2
  <2>2. pc'[k] = "subs" /\ IsTop(k) => \A x \in SubsOf(k) : pc'[x] \in Ended \union {"none"}
    <3> SUFFICES ASSUME pc'[k] = "subs", IsTop(k), NEW x \in SubsOf(k)
                 PROVE  pc'[x] \in Ended \union {"none"}
      OBVIOUS
    <3>1. pc[x] \in Ended \union {"none"} /\ x \in Crawls /\ x[1] = q
      BY <2>1 DEF QueueInv, LineInv, SubsEnded, SubsOf
    <3>2. QED
      BY <1>1, <1>9, <3>1
  <2>3. IsTop(k) /\ pc'[k] = "new" =>
          \A j \in 1 .. i : IsTop(ready[q][j]) /\ pc'[ready[q][j]] = "new"
    <3> SUFFICES ASSUME IsTop(k), pc'[k] = "new", NEW j \in 1 .. i
                 PROVE  IsTop(ready[q][j]) /\ pc'[ready[q][j]] = "new"
      OBVIOUS
    <3>1. Len(ready[q]) \in Nat
      BY LenProperties DEF RestInv
    <3>2. j \in 1 .. Len(ready[q]) /\ NewTop(k)
      BY <2>1, <3>1 DEF NewTop
    <3>3. NewTop(ready[q][j])
      BY <3>2 DEF QueueInv, LineInv
    <3>4. QED
      BY <2>1, <3>2, <3>3 DEF NewTop
  <2>4. QED
    BY <2>1, <2>2, <2>3 DEF QueueInv, LineInv
<1>10. ASSUME NEW k \in Crawls, IsTop(k), pc'[k] = "new"
       PROVE  \E i \in 1 .. Len(ready'[k[1]]) : ready'[k[1]][i] = k
  <2>1. CASE k[1] = r
    <3>1. pc[k] = "none"
      BY <1>3, <1>10, <2>1 DEF Tops
    <3>2. k \in ToSet(s)
      BY <1>3, <1>10, <3>1 DEF s
    <3>3. PICK i \in 1 .. m : k = s[i]
      BY <1>5, <3>2 DEF ToSet
    <3>4. QED
      BY <1>5, <1>7, <2>1, <3>3
  <2>2. CASE k[1] /= r
    <3>1. pc[k] = "new" /\ k[1] \in Requests
      BY <1>1, <1>10, <2>2, CrawlsAreTriples
    <3>2. QED
      BY <1>7, <1>10, <2>2, <3>1 DEF QueueInv, LineInv, NewTop
  <2>3. QED
    BY <2>1, <2>2
<1>11. LineInv'
  <2>1. ASSUME NEW q \in Requests, NEW i \in 1 .. Len(ready'[q])
        PROVE  /\ ready'[q][i][1] = q
               /\ pc'[ready'[q][i]] \in {"new", "subs"} \union Holding
               /\ \A j \in 1 .. Len(ready'[q]) : ready'[q][j] = ready'[q][i] => j = i
               /\ pc'[ready'[q][i]] = "subs" /\ IsTop(ready'[q][i]) =>
                    \A x \in SubsOf(ready'[q][i]) : pc'[x] \in Ended \union {"none"}
               /\ IsTop(ready'[q][i]) /\ pc'[ready'[q][i]] = "new" =>
                    \A j \in 1 .. i : IsTop(ready'[q][j]) /\ pc'[ready'[q][j]] = "new"
    <3>1. CASE q = r
      BY <1>5, <1>7, <1>8, <2>1, <3>1
    <3>2. CASE q /= r
      BY <1>7, <1>9, <2>1, <3>2
    <3>3. QED
      BY <3>1, <3>2
  <2>2. QED
    BY <1>10, <2>1 DEF LineInv, NewTop, IsTop, SubsEnded, SubsOf
<1>12. QED
  BY <1>2, <1>11 DEF QueueInv

\* A task that is woken was not ready, is no new one, and its links have ended.
LEMMA WakeQueue ==
  ASSUME Inv, RestInv, QueueInv, NEW c \in Crawls, Wake(c)
  PROVE  QueueInv'
<1> DEFINE q == c[1]
           n == Len(ready[q])
<1>1. /\ pc[c] \in {"proxy", "crawler", "fetch", "subs"}
      /\ pc[c] = "subs" => SubsEnded(c)
      /\ c \notin ToSet(ready[q])
      /\ ready' = [ready EXCEPT ![q] = Append(@, c)] /\ UNCHANGED <<url, pc, waiters, owner>>
  BY DEF Wake, limiterVars, SubsEnded
<1>2. q \in Requests /\ ready[q] \in Seq(Crawls)
  BY CrawlsAreTriples DEF RestInv
<1>3. ready'[q] = Append(ready[q], c) /\ \A r \in Requests : r /= q => ready'[r] = ready[r]
  BY <1>1, <1>2 DEF RestInv
<1>4. /\ Len(ready'[q]) = n + 1 /\ n \in Nat
      /\ \A i \in 1 .. n : ready'[q][i] = ready[q][i]
      /\ ready'[q][n + 1] = c
  BY <1>2, <1>3, AppendProperties, LenProperties
<1>5. \A i \in 1 .. n : ready[q][i] /= c
  BY <1>1, <1>2, LenProperties DEF ToSet
<1>6. ASSUME NEW r \in Requests, NEW i \in 1 .. Len(ready'[r])
      PROVE  /\ ready'[r][i][1] = r
             /\ pc[ready'[r][i]] \in {"new", "subs"} \union Holding
             /\ \A j \in 1 .. Len(ready'[r]) : ready'[r][j] = ready'[r][i] => j = i
             /\ pc[ready'[r][i]] = "subs" /\ IsTop(ready'[r][i]) => SubsEnded(ready'[r][i])
             /\ NewTop(ready'[r][i]) => \A j \in 1 .. i : NewTop(ready'[r][j])
  <2>1. CASE r /= q
    BY <1>3, <1>6, <2>1 DEF QueueInv, LineInv
  <2>2. CASE r = q /\ i \in 1 .. n
    <3>1. \A j \in 1 .. i : j \in 1 .. n
      BY <1>4, <2>2
    <3>2. \A j \in 1 .. Len(ready'[q]) : j \in 1 .. n \/ j = n + 1
      BY <1>4
    <3>3. /\ ready[q][i][1] = q /\ pc[ready[q][i]] \in {"new", "subs"} \union Holding
          /\ \A j \in 1 .. n : ready[q][j] = ready[q][i] => j = i
          /\ pc[ready[q][i]] = "subs" /\ IsTop(ready[q][i]) => SubsEnded(ready[q][i])
          /\ NewTop(ready[q][i]) => \A j \in 1 .. i : NewTop(ready[q][j])
      BY <1>2, <2>2 DEF QueueInv, LineInv
    <3>4. ready'[r][i] = ready[q][i] /\ \A j \in 1 .. i : ready'[r][j] = ready[q][j]
      BY <1>4, <2>2, <3>1
    <3>5. \A j \in 1 .. Len(ready'[r]) : ready'[r][j] = ready'[r][i] => j = i
      BY <1>4, <1>5, <2>2, <3>2, <3>3, <3>4
    <3>6. QED
      BY <2>2, <3>3, <3>4, <3>5
  <2>3. CASE r = q /\ i \notin 1 .. n
    <3>1. i = n + 1 /\ ready'[r][i] = c
      BY <1>4, <1>6, <2>3
    <3>2. \A j \in 1 .. Len(ready'[q]) : j \in 1 .. n \/ j = n + 1
      BY <1>4
    <3>3. QED
      BY <1>1, <1>4, <1>5, <2>3, <3>1, <3>2 DEF NewTop, Holding
  <2>4. QED
    BY <2>1, <2>2, <2>3
<1>7. ASSUME NEW k \in Crawls, NewTop(k)
      PROVE  \E i \in 1 .. Len(ready'[k[1]]) : ready'[k[1]][i] = k
  <2>1. k[1] \in Requests
    BY CrawlsAreTriples
  <2>2. PICK i \in 1 .. Len(ready[k[1]]) : ready[k[1]][i] = k
    BY <1>7 DEF QueueInv, LineInv
  <2>3. i \in 1 .. Len(ready'[k[1]]) /\ ready'[k[1]][i] = k
    BY <1>3, <1>4, <2>1, <2>2
  <2>4. QED
    BY <2>3
<1>8. LineInv'
  <2>1. UNCHANGED pc
    BY <1>1
  <2>2. QED
    BY <1>6, <1>7, <2>1, SMTT(60) DEF LineInv, NewTop, IsTop, SubsEnded, SubsOf
<1>9. WaitersOwn'
  BY <1>1 DEF QueueInv, WaitersOwn
<1>10. QED
  BY <1>8, <1>9 DEF QueueInv

\* A step is one of a task, the start of a crawl, the waking of a task, or the end.
LEMMA AllSteps ==
  ASSUME [Next]_vars
  PROVE  \/ \E c \in Crawls : Run(c)
         \/ \E r \in Requests, pages \in BoundedSeq(Pages, MaxTops) : Begin(r, pages)
         \/ \E c \in Crawls : Wake(c)
         \/ \E r \in Requests : Close(r)
         \/ UNCHANGED vars
  BY DEF Next

\* The queues keep their order whatever happens.
LEMMA QueueInvariant == Spec => []QueueInv
<1>1. Init => QueueInv
  <2> SUFFICES ASSUME Init PROVE QueueInv
    OBVIOUS
  <2>1. /\ \A d \in Domains : waiters[d] = <<>>
        /\ \A r \in Requests : ready[r] = <<>>
        /\ \A c \in Crawls : pc[c] = "none"
    BY DEF Init
  <2>2. \A i \in 1 .. Len(<<>>) : FALSE
    OBVIOUS
  <2>3. QED
    BY <2>1, <2>2 DEF QueueInv, WaitersOwn, LineInv, NewTop
<1>2. Inv /\ RestInv /\ QueueInv /\ [Next]_vars => QueueInv'
  <2> SUFFICES ASSUME Inv, RestInv, QueueInv, [Next]_vars PROVE QueueInv'
    OBVIOUS
  <2>1. CASE \E c \in Crawls : Run(c)
    BY <2>1, RunQueue, RunKeepsLine DEF QueueInv
  <2>2. CASE \E r \in Requests, pages \in BoundedSeq(Pages, MaxTops) : Begin(r, pages)
    BY <2>2, BeginQueue
  <2>3. CASE \E c \in Crawls : Wake(c)
    BY <2>3, WakeQueue
  <2>4. CASE (\E r \in Requests : Close(r)) \/ UNCHANGED vars
    <3>1. UNCHANGED <<pc, ready, waiters, owner>>
      BY <2>4 DEF Close, vars, taskVars, limiterVars
    <3>2. QED
      BY <3>1 DEF QueueInv, WaitersOwn, LineInv, NewTop, IsTop, SubsEnded, SubsOf
  <2>5. QED
    BY <2>1, <2>2, <2>3, <2>4, AllSteps
<1>3. QED
  BY <1>1, <1>2, Invariant, RestInvariant, PTL DEF Spec

-----------------------------------------------------------------------------
(* Nobody is stuck.                                                        *)

\* Who was made or woken is ready; only a result has links to wait for.
ReadyInv ==
  /\ \A c \in Crawls : pc[c] \in {"new", "granted"} => InLine(ready[c[1]], c)
  /\ \A c \in Crawls : pc[c] = "subs" => IsTop(c)

\* A result waits for links only after Branch.
LEMMA OnlyResultsBranch ==
  ASSUME Inv, NEW c \in Crawls, Run(c), pc'[c] = "subs"
  PROVE  IsTop(c)
<1>1. TypeInv
  BY DEF Inv
<1>2. ASSUME NEW to \in Pcs \ {"subs"}, Only(c, to)
      PROVE  FALSE
  <2>1. pc' = [pc EXCEPT ![c] = to]
    BY <1>1, <1>2, OnlyShape
  <2>2. QED
    BY <1>1, <1>2, <2>1 DEF TypeInv
<1>3. CASE TurnAway(c) \/ Refuse(c) \/ Acquire(c) \/ Await(c) \/ Foreign(c) \/ ProxyStarted(c)
             \/ CrawlerStarted(c) \/ Gathered(c)
  <2>1. \E to \in Pcs \ {"subs"} : Only(c, to)
    BY <1>3, Places DEF TurnAway, Refuse, Acquire, Await, Foreign, ProxyStarted, CrawlerStarted, Gathered
  <2>2. QED
    BY <1>2, <2>1
<1>4. CASE Granted(c) \/ Lose(c) \/ Leaf(c)
  <2>1. PICK to \in Pcs \ {"subs"} : pc'[c] = to
    BY <1>4, Places DEF Granted, Lose, Leaf, Release, Hands, Goes
  <2>2. QED
    BY <2>1
<1>5. CASE \E links \in BoundedSeq(Pages, MaxLinks) : Branch(c, links)
  BY <1>5 DEF Branch, Found
<1>6. QED
  BY <1>3, <1>4, <1>5 DEF Run

\* The step of a task takes nobody from a line but the task itself.
LEMMA StaysReady ==
  ASSUME Inv, RestInv, QueueInv, NEW c \in Crawls, Run(c),
         NEW k \in Crawls \ {c}, InLine(ready[k[1]], k)
  PROVE  InLine(ready'[k[1]], k)
<1>1. PICK place : Runs(c, place)
  BY RunRuns
<1>2. ready[c[1]][1] = c /\ k[1] \in Requests
  BY <1>1, Head1, CrawlsAreTriples
<1>3. PICK i \in 1 .. Len(ready[k[1]]) : ready[k[1]][i] = k
  BY DEF InLine
<1>4. Len(ready[k[1]]) \in Nat /\ Left(c, k[1]) \in Nat /\ Left(c, k[1]) <= Len(ready'[k[1]])
      /\ Len(ready'[k[1]]) \in Nat
      /\ \A j \in 1 .. Left(c, k[1]) : ready'[k[1]][j] = Old(c, k[1], j)
  BY <1>2, RunQueue DEF QueueStep
<1>5. CASE k[1] = c[1]
  <2>1. i /= 1
    BY <1>2, <1>3, <1>5
  <2>2. i - 1 \in 1 .. Left(c, k[1]) /\ Old(c, k[1], i - 1) = ready[k[1]][i]
    BY <1>3, <1>4, <1>5, <2>1 DEF Left, Old
  <2>3. i - 1 \in 1 .. Len(ready'[k[1]]) /\ ready'[k[1]][i - 1] = k
    BY <1>3, <1>4, <2>2
  <2>4. QED
    BY <2>3 DEF InLine
<1>6. CASE k[1] /= c[1]
  <2>1. i \in 1 .. Left(c, k[1]) /\ Old(c, k[1], i) = ready[k[1]][i]
    BY <1>3, <1>4, <1>6 DEF Left, Old
  <2>2. i \in 1 .. Len(ready'[k[1]]) /\ ready'[k[1]][i] = k
    BY <1>3, <1>4, <2>1
  <2>3. QED
    BY <2>2 DEF InLine
<1>7. QED
  BY <1>5, <1>6

\* The step of a task loses none of those that were ready before, but itself.
LEMMA RunKeepsReady ==
  ASSUME Inv, RestInv, QueueInv, ReadyInv, NEW c \in Crawls, Run(c)
  PROVE  ReadyInv'
<1>1. Shape(c)
  BY RunShape
<1>2. ASSUME NEW k \in Crawls, pc'[k] \in {"new", "granted"}
      PROVE  InLine(ready'[k[1]], k)
  <2>1. k /= c
    BY <1>1, <1>2 DEF Shape, OwnMove
  <2>2. k[1] \in Requests
    BY CrawlsAreTriples
  <2>3. CASE pc[k] = pc'[k]
    BY <1>2, <2>1, <2>3, StaysReady DEF ReadyInv
  <2>4. CASE pc[k] /= pc'[k]
    <3>1. pc[k] \in {"none", "wait"}
      BY <1>1, <2>1, <2>4 DEF Shape, OtherMoves
    <3>2. QED
      BY <1>2, <2>1, <2>2, <3>1, RunQueue DEF QueueStep
  <2>5. QED
    BY <2>3, <2>4
<1>3. ASSUME NEW k \in Crawls, pc'[k] = "subs"
      PROVE  IsTop(k)
  <2>1. CASE k = c
    BY <1>3, <2>1, OnlyResultsBranch
  <2>2. CASE k /= c
    BY <1>1, <1>3, <2>2 DEF Shape, OtherMoves, ReadyInv
  <2>3. QED
    BY <2>1, <2>2
<1>4. QED
  BY <1>2, <1>3 DEF ReadyInv, InLine, IsTop

\* Nor does the start of a crawl, since nothing is ready in its loop.
LEMMA BeginKeepsReady ==
  ASSUME Inv, QueueInv, QueueInv', ReadyInv,
         NEW r \in Requests, NEW pages \in BoundedSeq(Pages, MaxTops), Begin(r, pages)
  PROVE  ReadyInv'
<1>1. ASSUME NEW k \in Crawls, pc'[k] \in {"new", "granted"}
      PROVE  InLine(ready'[k[1]], k)
  <2>1. CASE IsTop(k) /\ pc'[k] = "new"
    BY <2>1 DEF QueueInv, LineInv, NewTop, IsTop, InLine
  <2>2. CASE ~(IsTop(k) /\ pc'[k] = "new")
    <3>1. pc[k] = pc'[k]
      BY <2>2, BeginShape
    <3>2. InLine(ready[k[1]], k)
      BY <1>1, <3>1 DEF ReadyInv
    <3>3. k[1] /= r
      <4> SUFFICES ASSUME k[1] = r PROVE FALSE
        OBVIOUS
      <4>1. \A t \in Crawls : t[1] = r /\ IsTop(t) => pc[t] = "none"
        BY DEF Begin, Starts, Tops
      <4>2. ~IsTop(k)
        BY <1>1, <3>1, <4>1
      <4>3. pc[Parent(k)] = "none" /\ Parent(k) \in Crawls /\ IsTop(Parent(k)) /\ k \in SubsOf(Parent(k))
        BY <4>1, <4>2, Parents
      <4>4. QED
        BY <1>1, <3>1, <4>3 DEF Inv, SubsInv
    <3>4. k[1] \in Requests
      BY CrawlsAreTriples
    <3>5. ready'[k[1]] = ready[k[1]]
      BY <3>3, <3>4 DEF Begin, Starts
    <3>6. QED
      BY <3>2, <3>5
  <2>3. QED
    BY <2>1, <2>2
<1>2. \A k \in Crawls : pc'[k] = "subs" => IsTop(k)
  BY BeginShape DEF ReadyInv
<1>3. QED
  BY <1>1, <1>2 DEF ReadyInv, InLine, IsTop

\* What was made or woken stays ready.
LEMMA ReadyInvariant == Spec => []ReadyInv
<1>1. Init => ReadyInv
  BY DEF Init, ReadyInv
<1>2. Inv /\ RestInv /\ QueueInv /\ QueueInv' /\ ReadyInv /\ [Next]_vars => ReadyInv'
  <2> SUFFICES ASSUME Inv, RestInv, QueueInv, QueueInv', ReadyInv, [Next]_vars PROVE ReadyInv'
    OBVIOUS
  <2>1. CASE \E c \in Crawls : Run(c)
    BY <2>1, RunKeepsReady
  <2>2. CASE \E r \in Requests, pages \in BoundedSeq(Pages, MaxTops) : Begin(r, pages)
    BY <2>2, BeginKeepsReady
  <2>3. ASSUME NEW c \in Crawls, Wake(c)
        PROVE  ReadyInv'
    <3>1. c[1] \in Requests /\ ready[c[1]] \in Seq(Crawls)
      BY CrawlsAreTriples DEF RestInv
    <3>2. ready' = [ready EXCEPT ![c[1]] = Append(@, c)] /\ UNCHANGED pc
      BY <2>3 DEF Wake
    <3>3. ready'[c[1]] = Append(ready[c[1]], c)
          /\ \A k \in Crawls : k[1] /= c[1] => ready'[k[1]] = ready[k[1]]
      BY <3>1, <3>2, CrawlsAreTriples DEF RestInv
    <3>4. /\ \A i \in 1 .. Len(ready[c[1]]) : i \in 1 .. Len(ready'[c[1]])
          /\ \A i \in 1 .. Len(ready[c[1]]) : ready'[c[1]][i] = ready[c[1]][i]
      BY <3>1, <3>3, AppendProperties, LenProperties
    <3>5. \A k \in Crawls : InLine(ready[k[1]], k) => InLine(ready'[k[1]], k)
      BY <3>3, <3>4 DEF InLine
    <3>6. QED
      BY <3>2, <3>5 DEF ReadyInv, InLine, IsTop
  <2>4. CASE (\E r \in Requests : Close(r)) \/ UNCHANGED vars
    <3>1. UNCHANGED <<pc, ready>>
      BY <2>4 DEF Close, vars, taskVars
    <3>2. QED
      BY <3>1 DEF ReadyInv, InLine, IsTop
  <2>5. QED
    BY <2>1, <2>2, <2>3, <2>4, AllSteps
<1>3. QED
  BY <1>1, <1>2, Invariant, RestInvariant, QueueInvariant, PTL DEF Spec

\* The conditions of Run, Wake and Close: the loop has this task to run, what it
\* waits for can happen, all tasks of the request have ended.
CanRun(c) == \E place \in {"new", "granted", "proxy", "crawler", "fetch", "subs"} : Runs(c, place)
CanWake(c) ==
  /\ pc[c] \in {"proxy", "crawler", "fetch"} \/ (pc[c] = "subs" /\ SubsEnded(c))
  /\ ~InLine(ready[c[1]], c)
CanClose(r) == Begun(r) /\ ~closed[r] /\ \A c \in Tops(r) : pc[c] \in Ended \union {"none"}

\* The head of a loop that has anything to run can run.
LEMMA LoopsRun ==
  ASSUME RestInv, QueueInv, NEW k \in Crawls, InLine(ready[k[1]], k)
  PROVE  \E c \in Crawls : CanRun(c)
<1>1. PICK i \in 1 .. Len(ready[k[1]]) : ready[k[1]][i] = k
  BY DEF InLine
<1>2. k[1] \in Requests /\ ready[k[1]] \in Seq(Crawls)
  BY CrawlsAreTriples DEF RestInv
<1>3. Len(ready[k[1]]) \in Nat /\ 1 \in 1 .. Len(ready[k[1]])
  BY <1>1, <1>2, LenProperties
<1>4. ready[k[1]] /= <<>> /\ ready[k[1]][1] \in Crawls /\ Head(ready[k[1]]) = ready[k[1]][1]
  BY <1>2, <1>3, ElementOfSeq
<1>5. ready[k[1]][1][1] = k[1] /\ pc[ready[k[1]][1]] \in {"new", "subs"} \union Holding
  BY <1>2, <1>3 DEF QueueInv, LineInv
<1>6. CanRun(ready[k[1]][1])
  BY <1>4, <1>5 DEF CanRun, Runs, Holding
<1>7. QED
  BY <1>4, <1>6

\* Who holds a permit can be woken, or its loop has something to run.
LEMMA HoldersMove ==
  ASSUME RestInv, QueueInv, ReadyInv, NEW k \in Crawls, pc[k] \in Holding \union {"new"}
  PROVE  \E c \in Crawls : CanRun(c) \/ CanWake(c)
<1>1. CASE InLine(ready[k[1]], k)
  BY <1>1, LoopsRun
<1>2. CASE ~InLine(ready[k[1]], k)
  BY <1>2 DEF ReadyInv, CanWake, Holding
<1>3. QED
  BY <1>1, <1>2

\* So can somebody, when a task waits for a permit.
LEMMA WaitersMove ==
  ASSUME Inv, RestInv, QueueInv, ReadyInv, MovingInv, PermitSum,
         NEW k \in Crawls, pc[k] = "wait"
  PROVE  \E c \in Crawls : CanRun(c) \/ CanWake(c)
<1> DEFINE d == Domain(k)
<1>1. d \in Domains /\ permits[d] \in Nat
  BY DomainType DEF Inv
<1>2. waiters[d] /= <<>>
  <2>1. \A i \in 1 .. Len(<<>>) : FALSE
    OBVIOUS
  <2>2. QED
    BY <2>1 DEF MovingInv, InLine
<1>3. \E h \in Crawls : pc[h] \in Holding
  <2>1. CASE permits[d] > 0
    BY <1>1, <1>2, <2>1 DEF MovingInv, WokenFor, Holding
  <2>2. CASE permits[d] = 0
    <3>1. Cardinality(Holders(d)) /= 0
      BY <1>1, <2>2, Constants, HoldersFinite DEF PermitSum
    <3>2. Holders(d) /= {}
      BY <3>1, FS_EmptySet
    <3>3. QED
      BY <3>2 DEF Holders
  <2>3. QED
    BY <1>1, <2>1, <2>2
<1>4. QED
  BY <1>3, HoldersMove

(***************************************************************************)
(* While route() waits for its crawls, some task of some request can go    *)
(* on, or they have all ended and it can close the crawler: no permits and *)
(* queues, of whichever requests, leave everybody waiting for one another. *)
(***************************************************************************)
NobodyStuck ==
  \A r \in Requests : Begun(r) /\ ~closed[r] =>
    CanClose(r) \/ \E c \in Crawls : CanRun(c) \/ CanWake(c)

THEOREM CrawlsAreNotStuck == Spec => []NobodyStuck
<1>1. Inv /\ RestInv /\ QueueInv /\ ReadyInv /\ MovingInv /\ PermitSum => NobodyStuck
  <2> SUFFICES ASSUME Inv, RestInv, QueueInv, ReadyInv, MovingInv, PermitSum,
                      NEW r \in Requests, Begun(r), ~closed[r], ~CanClose(r)
               PROVE  \E c \in Crawls : CanRun(c) \/ CanWake(c)
    BY DEF NobodyStuck
  <2>1. PICK t \in Crawls : pc[t] \notin Ended \union {"none"} /\ IsTop(t)
    BY DEF CanClose, Tops
  <2>2. ASSUME NEW k \in Crawls, pc[k] \in Pcs \ (Ended \union {"none", "subs"})
        PROVE  \E c \in Crawls : CanRun(c) \/ CanWake(c)
    <3>1. pc[k] \in Holding \union {"new"} \/ pc[k] = "wait"
      BY <2>2 DEF Pcs
    <3>2. QED
      BY <3>1, HoldersMove, WaitersMove
  <2>3. CASE pc[t] = "subs" /\ SubsEnded(t)
    BY <2>1, <2>3, LoopsRun DEF CanWake
  <2>4. CASE pc[t] = "subs" /\ ~SubsEnded(t)
    <3>1. PICK k \in SubsOf(t) : pc[k] \notin Ended \union {"none"}
      BY <2>4 DEF SubsEnded
    <3>2. k \in Crawls /\ ~IsTop(k)
      BY DEF SubsOf
    <3>3. pc[k] \in Pcs \ (Ended \union {"none", "subs"})
      BY <3>1, <3>2 DEF Inv, TypeInv, ReadyInv
    <3>4. QED
      BY <2>2, <3>2, <3>3
  <2>5. CASE pc[t] /= "subs"
    BY <2>1, <2>2, <2>5 DEF Inv, TypeInv
  <2>6. QED
    BY <2>3, <2>4, <2>5
<1>2. QED
  BY <1>1, Invariant, RestInvariant, QueueInvariant, ReadyInvariant, Moving, PermitsAddUp, PTL

-----------------------------------------------------------------------------
(* The steps run out.                                                      *)

\* How many places a task has still before it.
Rank(p) ==
  CASE p = "none" -> 8 [] p = "new" -> 7 [] p = "wait" -> 6 [] p = "granted" -> 5
    [] p = "proxy" -> 4 [] p = "crawler" -> 3 [] p = "fetch" -> 2 [] p = "subs" -> 1
    [] OTHER -> 0

\* It has to become ready and to run at each of them.
StepsLeft(c) == 2 * Rank(pc[c]) - (IF InLine(ready[c[1]], c) THEN 1 ELSE 0)

\* The steps that the tasks have before them, and the crawlers to be closed.
Todo == {t \in Crawls \X (0 .. 15) : t[2] < StepsLeft(t[1])}
Open == {r \in Requests : ~closed[r]}

LEMMA Ranks ==
  /\ \A p : Rank(p) \in 0 .. 8
  /\ \A c : StepsLeft(c) \in Int /\ StepsLeft(c) \in {2 * Rank(pc[c]), 2 * Rank(pc[c]) - 1}
  BY DEF Rank, StepsLeft

\* Every step of a task takes it further.
LEMMA RunGoesOn ==
  ASSUME Inv, NEW c \in Crawls, Run(c)
  PROVE  Rank(pc'[c]) < Rank(pc[c])
<1>1. TypeInv /\ Shape(c)
  BY RunShape DEF Inv
<1>2. CASE pc[c] \notin {"proxy", "crawler", "fetch"}
  BY <1>1, <1>2 DEF Shape, OwnMove, Holding, Rank
<1>3. CASE ProxyStarted(c) \/ CrawlerStarted(c)
  <2>1. \E to \in {"crawler", "fetch"} :
          /\ Only(c, to)
          /\ pc[c] = "proxy" \/ (pc[c] = "crawler" /\ to = "fetch")
    BY <1>3 DEF ProxyStarted, CrawlerStarted, Runs
  <2>2. PICK to \in {"crawler", "fetch"} :
          /\ Only(c, to)
          /\ pc[c] = "proxy" \/ (pc[c] = "crawler" /\ to = "fetch")
    BY <2>1
  <2>3. pc'[c] = to
    BY <1>1, <2>2, OnlyShape, Places DEF TypeInv
  <2>4. QED
    BY <2>2, <2>3 DEF Rank
<1>4. CASE Lose(c) \/ Leaf(c) \/ \E links \in BoundedSeq(Pages, MaxLinks) : Branch(c, links)
  <2>1. pc[c] \in {"proxy", "crawler", "fetch"} /\ (pc'[c] \in {"lost", "page"} \/ (pc'[c] = "subs" /\ pc[c] = "fetch"))
    BY <1>4 DEF Lose, Leaf, Branch, Found, Runs, Release, Hands, Goes
  <2>2. QED
    BY <2>1 DEF Rank
<1>5. QED
  BY <1>2, <1>3, <1>4 DEF Run, TurnAway, Refuse, Acquire, Await, Foreign, Granted, Gathered,
                          Spend, Visit, Runs

\* A task that goes further has fewer steps before it, and one that stays has no
\* more as long as it stays ready.
LEMMA Fewer ==
  /\ \A c \in Crawls : Rank(pc'[c]) < Rank(pc[c]) => StepsLeft(c)' < StepsLeft(c)
  /\ \A c \in Crawls : pc'[c] = pc[c] /\ (InLine(ready[c[1]], c) => InLine(ready'[c[1]], c)) =>
       StepsLeft(c)' <= StepsLeft(c)
<1>1. ASSUME NEW c \in Crawls, Rank(pc'[c]) < Rank(pc[c])
      PROVE  StepsLeft(c)' < StepsLeft(c)
  <2>1. Rank(pc'[c]) \in 0 .. 8 /\ Rank(pc[c]) \in 0 .. 8
    BY Ranks
  <2>2. StepsLeft(c) >= 2 * Rank(pc[c]) - 1
    BY <2>1 DEF StepsLeft
  <2>3. StepsLeft(c)' = 2 * Rank(pc'[c]) - (IF InLine(ready'[c[1]], c) THEN 1 ELSE 0)
    BY DEF StepsLeft, InLine, Rank
  <2>4. StepsLeft(c)' <= 2 * Rank(pc'[c])
    BY <2>1, <2>3
  <2>5. StepsLeft(c) \in Int /\ StepsLeft(c)' \in Int
    BY <2>1, <2>3 DEF StepsLeft
  <2>6. QED
    BY <1>1, <2>1, <2>2, <2>4, <2>5
<1>2. ASSUME NEW c \in Crawls, pc'[c] = pc[c], InLine(ready[c[1]], c) => InLine(ready'[c[1]], c)
      PROVE  StepsLeft(c)' <= StepsLeft(c)
  <2>1. Rank(pc[c]) \in 0 .. 8
    BY Ranks
  <2>2. StepsLeft(c)' = 2 * Rank(pc'[c]) - (IF InLine(ready'[c[1]], c) THEN 1 ELSE 0)
    BY DEF StepsLeft, InLine, Rank
  <2>3. QED
    BY <1>2, <2>1, <2>2 DEF StepsLeft
<1>3. QED
  BY <1>1, <1>2

\* The steps left are a number.
LEMMA StepsType ==
  \A c \in Crawls : StepsLeft(c) \in Int /\ StepsLeft(c)' \in Int
<1>1. TAKE c \in Crawls
<1>2. StepsLeft(c)' = 2 * Rank(pc'[c]) - (IF InLine(ready'[c[1]], c) THEN 1 ELSE 0)
  BY DEF StepsLeft, InLine, Rank
<1>3. QED
  BY <1>2, Ranks

\* Fewer steps are fewer elements of Todo.
LEMMA TodoShrinks ==
  ASSUME \A k \in Crawls : StepsLeft(k)' <= StepsLeft(k),
         \A k \in Crawls : StepsLeft(k)' \in Int,
         NEW c \in Crawls, StepsLeft(c)' < StepsLeft(c), Rank(pc[c]) > 0
  PROVE  Todo' \subseteq Todo /\ Todo' /= Todo
<1> DEFINE n == IF StepsLeft(c)' < 0 THEN 0 ELSE StepsLeft(c)'
<1>1. \A k \in Crawls : StepsLeft(k) \in Int
  BY Ranks
<1>2. Rank(pc[c]) \in 1 .. 8 /\ StepsLeft(c) \in {2 * Rank(pc[c]), 2 * Rank(pc[c]) - 1}
  BY Ranks
<1>3. StepsLeft(c) \in 1 .. 16
  BY <1>2
<1>4. n \in 0 .. 15 /\ n < StepsLeft(c) /\ ~(n < StepsLeft(c)')
  BY <1>3
<1>5. Todo' = {t \in Crawls \X (0 .. 15) : t[2] < StepsLeft(t[1])'}
  BY DEF Todo
<1>6. Todo' \subseteq Todo
  <2> SUFFICES ASSUME NEW k \in Crawls, NEW m \in 0 .. 15, m < StepsLeft(k)'
               PROVE  m < StepsLeft(k)
    BY <1>5 DEF Todo
  <2>1. QED
    BY <1>1
<1> HIDE DEF n
<1>7. <<c, n>> \in Todo /\ <<c, n>> \notin Todo'
  BY <1>4, <1>5 DEF Todo
<1>8. QED
  BY <1>6, <1>7

(***************************************************************************)
(* Every step, of whichever request, takes something from the steps that   *)
(* the tasks have before them or from the crawlers that are to be closed,  *)
(* and none adds to them: a crawl cannot go on for ever, since these are   *)
(* finitely many.                                                          *)
(***************************************************************************)
StepsAreSpent ==
  /\ Todo' \subseteq Todo /\ Open' \subseteq Open
  /\ Todo' /= Todo \/ Open' /= Open

LEMMA RunSpends ==
  ASSUME Inv, RestInv, QueueInv, NEW c \in Crawls, Run(c)
  PROVE  StepsAreSpent
<1>1. Shape(c) /\ Rank(pc'[c]) < Rank(pc[c])
  BY RunShape, RunGoesOn
<1>2. ASSUME NEW k \in Crawls \ {c}
      PROVE  StepsLeft(k)' <= StepsLeft(k)
  <2>1. CASE pc'[k] = pc[k]
    BY <2>1, Fewer, StaysReady
  <2>2. CASE pc'[k] /= pc[k]
    <3>1. Rank(pc'[k]) < Rank(pc[k])
      BY <1>1, <2>2 DEF Shape, OtherMoves, Rank
    <3>2. StepsLeft(k)' < StepsLeft(k)
      BY <3>1, Fewer
    <3>3. QED
      BY <3>2, StepsType
  <2>3. QED
    BY <2>1, <2>2
<1>3. StepsLeft(c)' < StepsLeft(c)
  BY <1>1, Fewer
<1>4. \A k \in Crawls : StepsLeft(k)' <= StepsLeft(k)
  BY <1>2, <1>3, StepsType
<1>5. Rank(pc[c]) > 0
  BY <1>1, Ranks
<1>6. Todo' \subseteq Todo /\ Todo' /= Todo
  BY <1>3, <1>4, <1>5, StepsType, TodoShrinks
<1>7. UNCHANGED closed
  BY DEF Run, TurnAway, Refuse, Acquire, Await, Foreign, Granted, ProxyStarted,
         CrawlerStarted, Lose, Leaf, Gathered, Branch, Found, Mark, crawlerVars
<1>8. QED
  BY <1>6, <1>7 DEF StepsAreSpent, Open

LEMMA BeginSpends ==
  ASSUME Inv, RestInv, QueueInv,
         NEW r \in Requests, NEW pages \in BoundedSeq(Pages, MaxTops), Begin(r, pages)
  PROVE  StepsAreSpent
<1>1. ASSUME NEW k \in Crawls
      PROVE  /\ StepsLeft(k)' <= StepsLeft(k)
             /\ pc'[k] /= pc[k] => Rank(pc[k]) > 0 /\ StepsLeft(k)' < StepsLeft(k)
  <2>1. CASE pc'[k] /= pc[k]
    <3>1. Rank(pc'[k]) < Rank(pc[k]) /\ Rank(pc[k]) > 0
      BY <2>1, BeginShape DEF Rank
    <3>2. QED
      BY <3>1, Fewer, StepsType
  <2>2. CASE pc'[k] = pc[k]
    <3>1. k[1] \in Requests /\ (k[1] /= r => ready'[k[1]] = ready[k[1]])
      BY CrawlsAreTriples DEF Begin, Starts
    <3>2. ASSUME k[1] = r
          PROVE  ~InLine(ready[k[1]], k)
      <4> SUFFICES ASSUME InLine(ready[k[1]], k) PROVE FALSE
        OBVIOUS
      <4>1. pc[k] \in {"new", "subs"} \union Holding
        BY <3>1 DEF QueueInv, LineInv, InLine
      <4>2. \A t \in Crawls : t[1] = r /\ IsTop(t) => pc[t] = "none"
        BY DEF Begin, Starts, Tops
      <4>3. ~IsTop(k)
        BY <3>2, <4>1, <4>2 DEF Holding
      <4>4. pc[Parent(k)] = "none" /\ Parent(k) \in Crawls /\ IsTop(Parent(k)) /\ k \in SubsOf(Parent(k))
        BY <3>2, <4>2, <4>3, Parents
      <4>5. QED
        BY <4>1, <4>4 DEF Inv, SubsInv, Holding
    <3>3. InLine(ready[k[1]], k) => InLine(ready'[k[1]], k)
      BY <3>1, <3>2
    <3>4. QED
      BY <2>2, <3>3, Fewer
  <2>3. QED
    BY <2>1, <2>2
<1>2. PICK c \in Crawls : pc'[c] /= pc[c]
  <2>1. \E m \in 0 .. MaxTops : pages \in [1 .. m -> Pages]
    BY DEF BoundedSeq, SeqOf
  <2>2. pages \in Seq(Pages) /\ Len(pages) \in 1 .. MaxTops
    BY <2>1, Constants, SeqDef DEF Begin, Starts
  <2> DEFINE c == <<r, 1, 0>>
  <2>3. c \in Crawls /\ c[1] = r /\ c[3] = 0
    BY <2>2, Constants, CrawlsAreTriples
  <2>4. c \in ToSet(FirstTasks(r, pages))
    BY <2>2 DEF FirstTasks, ToSet
  <2>5. pc[c] = "none" /\ pc'[c] = "new"
    <3> HIDE DEF c
    <3> QED
      BY <2>3, <2>4 DEF Begin, Starts, Tops, IsTop
  <2>6. QED
    BY <2>3, <2>5
<1>3. Todo' \subseteq Todo /\ Todo' /= Todo
  BY <1>1, <1>2, StepsType, TodoShrinks
<1>4. UNCHANGED closed
  BY DEF Begin, Starts, crawlerVars
<1>5. QED
  BY <1>3, <1>4 DEF StepsAreSpent, Open

LEMMA WakeSpends ==
  ASSUME Inv, RestInv, QueueInv, NEW c \in Crawls, Wake(c)
  PROVE  StepsAreSpent
<1>1. c[1] \in Requests /\ ready[c[1]] \in Seq(Crawls)
  BY CrawlsAreTriples DEF RestInv
<1>2. /\ ready' = [ready EXCEPT ![c[1]] = Append(@, c)] /\ UNCHANGED <<pc, closed>>
      /\ pc[c] \in {"proxy", "crawler", "fetch", "subs"} /\ c \notin ToSet(ready[c[1]])
  BY DEF Wake, crawlerVars
<1>3. ready'[c[1]] = Append(ready[c[1]], c)
      /\ \A k \in Crawls : k[1] /= c[1] => ready'[k[1]] = ready[k[1]]
  BY <1>1, <1>2, CrawlsAreTriples DEF RestInv
<1>4. /\ Len(ready[c[1]]) \in Nat /\ Len(ready'[c[1]]) = Len(ready[c[1]]) + 1
      /\ \A i \in 1 .. Len(ready[c[1]]) : ready'[c[1]][i] = ready[c[1]][i]
      /\ ready'[c[1]][Len(ready[c[1]]) + 1] = c
  BY <1>1, <1>3, AppendProperties, LenProperties
<1>5. \A k \in Crawls : InLine(ready[k[1]], k) => InLine(ready'[k[1]], k)
  <2>1. \A i \in 1 .. Len(ready[c[1]]) : i \in 1 .. Len(ready'[c[1]])
    BY <1>4
  <2>2. QED
    BY <1>3, <1>4, <2>1 DEF InLine
<1>6. ~InLine(ready[c[1]], c)
  BY <1>1, <1>2, LenProperties DEF InLine, ToSet
<1>7. InLine(ready'[c[1]], c)
  <2>1. Len(ready[c[1]]) + 1 \in 1 .. Len(ready'[c[1]])
    BY <1>4
  <2>2. QED
    BY <1>4, <2>1 DEF InLine
<1>8. \A k \in Crawls : StepsLeft(k)' <= StepsLeft(k)
  BY <1>2, <1>5, Fewer
<1>9. StepsLeft(c)' < StepsLeft(c)
  <2>1. StepsLeft(c)' = 2 * Rank(pc'[c]) - (IF InLine(ready'[c[1]], c) THEN 1 ELSE 0)
    BY DEF StepsLeft, InLine, Rank
  <2>2. Rank(pc[c]) \in 0 .. 8
    BY Ranks
  <2>3. QED
    BY <1>2, <1>6, <1>7, <2>1, <2>2 DEF StepsLeft
<1>10. Rank(pc[c]) > 0
  BY <1>2 DEF Rank
<1>11. QED
  BY <1>2, <1>8, <1>9, <1>10, StepsType, TodoShrinks DEF StepsAreSpent, Open

LEMMA CloseSpends ==
  ASSUME RestInv, NEW r \in Requests, Close(r)
  PROVE  StepsAreSpent
<1>1. UNCHANGED <<pc, ready>> /\ closed' = [closed EXCEPT ![r] = TRUE] /\ ~closed[r]
  BY DEF Close, taskVars
<1>2. Todo' = Todo
  BY <1>1 DEF Todo, StepsLeft, InLine, Rank
<1>3. Open' \subseteq Open /\ r \in Open /\ r \notin Open'
  BY <1>1 DEF Open, RestInv
<1>4. QED
  BY <1>2, <1>3 DEF StepsAreSpent

THEOREM CrawlsAdvance == Spec => [][StepsAreSpent]_vars
<1>1. Inv /\ RestInv /\ QueueInv /\ [Next]_vars => [StepsAreSpent]_vars
  BY RunSpends, BeginSpends, WakeSpends, CloseSpends, AllSteps
<1>2. QED
  BY <1>1, Invariant, RestInvariant, QueueInvariant, PTL DEF Spec

\* What is spent is finite, so that a crawl has finitely many steps.
THEOREM StepsAreFinite == IsFiniteSet(Todo) /\ IsFiniteSet(Open)
<1>1. IsFiniteSet(0 .. 15)
  <2>1. 0 \in Int /\ 15 \in Int
    OBVIOUS
  <2>2. QED
    BY <2>1, FS_Interval
<1>2. IsFiniteSet(Crawls \X (0 .. 15))
  BY <1>1, CrawlsFinite, FS_Product
<1>3. IsFiniteSet(Todo)
  BY <1>2, FS_Subset DEF Todo
<1>4. IsFiniteSet(Open)
  BY Constants, FS_Subset DEF Open
<1>5. QED
  BY <1>3, <1>4

-----------------------------------------------------------------------------
(* The end of the crawler.                                                 *)

\* A crawl of the first level ends after its links, and the crawler after all.
EndInv ==
  /\ \A c \in Crawls : IsTop(c) /\ pc[c] \in Ended => SubsEnded(c)
  /\ \A r \in Requests : closed[r] =>
       /\ Begun(r)
       /\ \A c \in Tops(r) : pc[c] \in Ended \union {"none"}

\* The task that ends with its page has waited for its links.
LEMMA RunKeepsEnd ==
  ASSUME Inv, RestInv, QueueInv, EndInv, NEW c \in Crawls, Run(c)
  PROVE  EndInv'
<1>1. Shape(c) /\ UNCHANGED closed
  BY RunShape DEF Run, TurnAway, Refuse, Acquire, Await, Foreign, Granted, ProxyStarted,
         CrawlerStarted, Lose, Leaf, Gathered, Branch, Found, Mark, crawlerVars
<1>2. ASSUME NEW t \in Crawls, IsTop(t), pc[t] \in Ended
      PROVE  pc'[t] = pc[t]
  BY <1>1, <1>2 DEF Shape, OwnMove, OtherMoves, Ended, Holding
<1>3. ASSUME NEW t \in Crawls, IsTop(t), pc'[t] \in Ended
      PROVE  \A k \in SubsOf(t) : pc'[k] \in Ended \union {"none"}
  <2>1. CASE pc[t] \in Ended
    BY <1>3, <2>1, EndedStays DEF EndInv, Ended
  <2>2. CASE pc[t] \notin Ended
    <3>1. t = c /\ pc[c] \in {"new", "subs"} \union Holding
      BY <1>1, <1>3, <2>2 DEF Shape, OwnMove, OtherMoves, Ended
    <3>2. SubsEnded(t)
      <4>1. CASE pc[c] = "subs"
        <5>1. PICK place : Runs(c, place)
          BY RunRuns
        <5>2. c[1] \in Requests /\ 1 \in 1 .. Len(ready[c[1]]) /\ ready[c[1]][1] = c
          BY <5>1, Head1
        <5>3. QED
          BY <1>3, <3>1, <4>1, <5>2 DEF QueueInv, LineInv
      <4>2. CASE pc[c] /= "subs"
        BY <1>3, <3>1, <4>2 DEF Inv, SubsInv, SubsEnded, Holding
      <4>3. QED
        BY <4>1, <4>2
    <3>3. ASSUME NEW k \in SubsOf(t)
          PROVE  pc'[k] \in Ended \union {"none"}
      <4>1. k \in Crawls /\ k /= c /\ pc[k] \in Ended \union {"none"} /\ t = Parent(k)
        BY <1>3, <3>1, <3>2, Parents DEF SubsEnded
      <4>2. pc'[c] /= "subs"
        BY <1>3, <3>1 DEF Ended
      <4>3. QED
        BY <1>1, <4>1, <4>2 DEF Shape, OtherMoves, Ended
    <3>4. QED
      BY <3>3
  <2>3. QED
    BY <2>1, <2>2
<1>4. ASSUME NEW r \in Requests, closed[r]
      PROVE  /\ \E t \in Tops(r) : pc'[t] /= "none"
             /\ \A t \in Tops(r) : pc'[t] \in Ended \union {"none"}
  <2>1. \A t \in Tops(r) : t \in Crawls /\ IsTop(t) /\ pc[t] \in Ended \union {"none"}
    BY <1>4 DEF EndInv, Tops
  <2>2. \A t \in Tops(r) : pc'[t] = pc[t]
    <3>1. \A t \in Tops(r) : t /= c
      BY <1>1, <2>1 DEF Shape, OwnMove, Ended, Holding
    <3>2. QED
      BY <1>1, <2>1, <3>1 DEF Shape, OtherMoves, SubsOf, Ended
  <2>3. QED
    BY <1>4, <2>1, <2>2 DEF EndInv, Begun
<1>5. QED
  BY <1>1, <1>3, <1>4 DEF EndInv, SubsEnded, SubsOf, IsTop, Begun, Tops

(***************************************************************************)
(* However the tasks of a request end, none of them is under way when      *)
(* route() closes the crawler, and none begins after that.                 *)
(***************************************************************************)
THEOREM ClosedCrawlerIsUnused == Spec => []ClosedUnused
<1>1. Init => EndInv
  <2> SUFFICES ASSUME Init PROVE EndInv
    OBVIOUS
  <2>1. (\A r \in Requests : ~closed[r]) /\ \A c \in Crawls : pc[c] = "none"
    BY DEF Init
  <2>2. QED
    BY <2>1 DEF EndInv, Ended
<1>2. Inv /\ RestInv /\ QueueInv /\ EndInv /\ [Next]_vars => EndInv'
  <2> SUFFICES ASSUME Inv, RestInv, QueueInv, EndInv, [Next]_vars PROVE EndInv'
    OBVIOUS
  <2>1. CASE \E c \in Crawls : Run(c)
    BY <2>1, RunKeepsEnd
  <2>2. ASSUME NEW r \in Requests, NEW pages \in BoundedSeq(Pages, MaxTops), Begin(r, pages)
        PROVE  EndInv'
    <3>1. /\ \A k \in Crawls : pc'[k] = pc[k] \/ (IsTop(k) /\ k[1] = r /\ pc'[k] = "new")
          /\ UNCHANGED closed
      BY <2>2, BeginShape DEF crawlerVars
    <3>2. \A t \in Tops(r) : pc[t] = "none"
      BY <2>2 DEF Begin, Starts
    <3>3. ASSUME NEW c \in Crawls, IsTop(c), pc'[c] \in Ended
          PROVE  \A k \in SubsOf(c) : pc'[k] \in Ended \union {"none"}
      <4>1. pc[c] \in Ended
        BY <3>1, <3>3 DEF Ended
      <4>2. \A k \in SubsOf(c) : k \in Crawls /\ ~IsTop(k)
        BY DEF SubsOf
      <4>3. QED
        BY <3>1, <3>3, <4>1, <4>2 DEF EndInv, SubsEnded
    <3>4. ASSUME NEW q \in Requests, closed[q]
          PROVE  q /= r /\ \A t \in Tops(q) : pc'[t] = pc[t]
      <4>1. q /= r
        BY <3>2, <3>4 DEF EndInv, Begun
      <4>2. QED
        BY <3>1, <4>1 DEF Tops
    <3>5. QED
      BY <3>1, <3>3, <3>4 DEF EndInv, SubsEnded, SubsOf, IsTop, Begun, Tops
  <2>3. CASE (\E c \in Crawls : Wake(c)) \/ UNCHANGED vars
    <3>1. UNCHANGED <<pc, closed>>
      BY <2>3 DEF Wake, vars, taskVars, crawlerVars
    <3>2. QED
      BY <3>1 DEF EndInv, SubsEnded, SubsOf, IsTop, Begun, Tops
  <2>4. ASSUME NEW r \in Requests, Close(r)
        PROVE  EndInv'
    <3>1. /\ UNCHANGED pc /\ Begun(r) /\ \A c \in Tops(r) : pc[c] \in Ended \union {"none"}
          /\ \A q \in Requests : q /= r => closed'[q] = closed[q]
      BY <2>4 DEF Close, taskVars, RestInv
    <3>2. QED
      BY <3>1 DEF EndInv, SubsEnded, SubsOf, IsTop, Begun, Tops
  <2>5. QED
    BY <2>1, <2>2, <2>3, <2>4, AllSteps
<1>3. Inv /\ EndInv => ClosedUnused
  <2> SUFFICES ASSUME Inv, EndInv, NEW r \in Requests, closed[r], NEW c \in Crawls, c[1] = r
               PROVE  pc[c] \in Ended \union {"none"}
    BY DEF ClosedUnused
  <2>1. CASE IsTop(c)
    BY <2>1 DEF EndInv, Tops
  <2>2. CASE ~IsTop(c)
    <3>1. Parent(c) \in Crawls /\ IsTop(Parent(c)) /\ Parent(c) \in Tops(r) /\ c \in SubsOf(Parent(c))
      BY <2>2, Parents DEF Tops
    <3>2. CASE pc[Parent(c)] \in Ended
      BY <3>1, <3>2 DEF EndInv, SubsEnded
    <3>3. CASE pc[Parent(c)] = "none"
      BY <3>1, <3>3 DEF Inv, SubsInv
    <3>4. QED
      BY <3>1, <3>2, <3>3 DEF EndInv
  <2>3. QED
    BY <2>1, <2>2
<1>4. QED
  BY <1>1, <1>2, <1>3, Invariant, RestInvariant, QueueInvariant, PTL DEF Spec

-----------------------------------------------------------------------------
(* The results come before the links.                                      *)

NoLinks(r) == \A k \in Crawls : k[1] = r /\ ~IsTop(k) => pc[k] = "none"

\* As long as a result has not run no link was made, so that only other results
\* can have marked a page, and these have other pages.
FirstInv ==
  /\ \A c \in Crawls : pc[c] = "turned" => ~IsTop(c)
  /\ \A c, k \in Crawls :
       /\ IsTop(c) /\ IsTop(k) /\ c[1] = k[1] /\ url[c] = url[k]
       /\ pc[c] /= "none" /\ pc[k] /= "none"
       => c = k
  /\ \A c \in Crawls : NewTop(c) => NoLinks(c[1])
  /\ \A r \in Requests : NoLinks(r) =>
       \A p \in visited[r] : \E t \in Tops(r) : pc[t] \notin {"none", "new"} /\ url[t] = p

\* The first task of a loop is one of a result as long as one of these is new.
LEMMA ResultsRun ==
  ASSUME RestInv, QueueInv, NEW c \in Crawls, Run(c), NEW t \in Crawls, t[1] = c[1], NewTop(t)
  PROVE  NewTop(c)
<1>1. PICK place : Runs(c, place)
  BY RunRuns
<1>2. c[1] \in Requests /\ ready[c[1]][1] = c /\ Len(ready[c[1]]) \in Nat \ {0}
  BY <1>1, Head1
<1>3. PICK i \in 1 .. Len(ready[c[1]]) : ready[c[1]][i] = t
  BY DEF QueueInv, LineInv
<1>4. \A j \in 1 .. i : NewTop(ready[c[1]][j])
  BY <1>2, <1>3 DEF QueueInv, LineInv
<1>5. 1 \in 1 .. i
  BY <1>2, <1>3
<1>6. QED
  BY <1>2, <1>4, <1>5

\* A task is turned away only by the tests of the budget and the visited pages.
LEMMA TurnedNotFresh ==
  ASSUME Inv, NEW c \in Crawls, Run(c), pc'[c] = "turned"
  PROVE  pc[c] = "new" /\ ~Fresh(c)
<1>1. ASSUME NEW to \in Pcs, Only(c, to)
      PROVE  pc'[c] = to
  BY <1>1, OnlyShape DEF Inv, TypeInv
<1>2. CASE TurnAway(c)
  BY <1>2 DEF TurnAway, Runs
<1>3. CASE Refuse(c) \/ Acquire(c) \/ Await(c) \/ Foreign(c) \/ ProxyStarted(c) \/ CrawlerStarted(c) \/ Gathered(c)
  <2>1. PICK to \in Pcs \ {"turned"} : Only(c, to)
    BY <1>3, Places DEF Refuse, Acquire, Await, Foreign, ProxyStarted, CrawlerStarted, Gathered
  <2>2. QED
    BY <1>1, <2>1
<1>4. CASE Granted(c)
  BY <1>4, Places DEF Granted, Hands, Goes
<1>5. CASE Lose(c) \/ Leaf(c) \/ \E links \in BoundedSeq(Pages, MaxLinks) : Branch(c, links)
  BY <1>5 DEF Lose, Leaf, Branch, Release, Hands, Goes
<1>6. QED
  BY <1>2, <1>3, <1>4, <1>5 DEF Run

\* A request has at most MaxTops results.
LEMMA FewTops ==
  ASSUME NEW r \in Requests
  PROVE  IsFiniteSet(Tops(r)) /\ Cardinality(Tops(r)) <= MaxTops /\ Cardinality(Tops(r)) \in Nat
<1> DEFINE f == [i \in 1 .. MaxTops |-> <<r, i, 0>>]
<1>1. MaxTops \in Nat /\ 0 \in 0 .. MaxLinks /\ 1 \in Int /\ MaxTops \in Int
  BY Constants
<1>2. IsFiniteSet(1 .. MaxTops) /\ Cardinality(1 .. MaxTops) = MaxTops
  BY <1>1, FS_Interval
<1>3. \A i \in 1 .. MaxTops : f[i] \in Tops(r)
  BY <1>1, CrawlsAreTriples DEF Tops, IsTop
<1>4. \A c \in Tops(r) : \E i \in 1 .. MaxTops : f[i] = c
  <2> SUFFICES ASSUME NEW c \in Tops(r) PROVE \E i \in 1 .. MaxTops : f[i] = c
    OBVIOUS
  <2>1. c[2] \in 1 .. MaxTops /\ c = <<r, c[2], 0>>
    BY CrawlsAreTriples DEF Tops, IsTop
  <2>2. QED
    BY <2>1
<1>5. f \in Surjection(1 .. MaxTops, Tops(r))
  BY <1>3, <1>4 DEF Surjection
<1>6. QED
  BY <1>2, <1>5, FS_Surjection, FS_CardinalityType

\* A result that has not run yet finds budget, and its page unmarked.
LEMMA ResultIsFresh ==
  ASSUME Inv, RestInv, PagesInv, FirstInv, NEW c \in Crawls, NewTop(c)
  PROVE  Fresh(c)
<1> DEFINE r == c[1]
<1>1. r \in Requests /\ NoLinks(r) /\ c \in Tops(r) /\ pc[c] = "new" /\ IsTop(c)
  BY CrawlsAreTriples DEF FirstInv, NewTop, Tops
<1>2. url[c] \notin visited[r]
  <2> SUFFICES ASSUME url[c] \in visited[r] PROVE FALSE
    OBVIOUS
  <2>1. PICK t \in Tops(r) : pc[t] \notin {"none", "new"} /\ url[t] = url[c]
    BY <1>1 DEF FirstInv
  <2>2. t \in Crawls /\ IsTop(t) /\ t[1] = r /\ t /= c
    BY <1>1, <2>1 DEF Tops
  <2>3. QED
    BY <1>1, <2>1, <2>2 DEF FirstInv
<1>3. budget[r] < MaxBudget
  <2>1. Admitted(r) \in SUBSET (Tops(r) \ {c})
    BY <1>1 DEF Admitted, Tops, NoLinks
  <2>2. IsFiniteSet(Tops(r) \ {c}) /\ Cardinality(Tops(r) \ {c}) = Cardinality(Tops(r)) - 1
    BY <1>1, FewTops, FS_RemoveElement
  <2>3. Cardinality(Admitted(r)) <= Cardinality(Tops(r) \ {c})
    BY <2>1, <2>2, FS_Subset
  <2>4. budget[r] = Cardinality(Admitted(r)) /\ Cardinality(Admitted(r)) \in Nat
    BY <1>1, FewCrawls, FS_CardinalityType DEF PagesInv
  <2>5. MaxTops \in Nat /\ MaxBudget \in Nat /\ MaxTops <= MaxBudget
    BY CrawlAssumption
  <2>6. QED
    BY <1>1, <2>2, <2>3, <2>4, <2>5, FewTops
<1>4. QED
  BY <1>2, <1>3 DEF Fresh

\* No step of a task breaks it.
LEMMA RunKeepsFirst ==
  ASSUME Inv, RestInv, PagesInv, QueueInv, FirstInv, NEW c \in Crawls, Run(c)
  PROVE  FirstInv'
<1>1. Shape(c) /\ c[1] \in Requests /\ TypeInv
  BY RunShape, CrawlsAreTriples DEF Inv
<1>2. pc[c] \notin {"none", "wait"} /\ pc'[c] \notin {"none", "new"} /\ url'[c] = url[c]
  BY <1>1 DEF Shape, OwnMove, Holding
<1>3. ASSUME NEW k \in Crawls, IsTop(k), k /= c
      PROVE  /\ url'[k] = url[k] /\ pc'[k] \in {pc[k], "granted"}
             /\ pc'[k] = "granted" => pc[k] \in {"wait", "granted"}
  BY <1>1, <1>3 DEF Shape, OtherMoves, SubsOf
<1>4. ASSUME NEW k \in Crawls, pc'[k] = "turned"
      PROVE  ~IsTop(k)
  <2>1. CASE k = c
    <3>1. pc[c] = "new" /\ ~Fresh(c)
      BY <1>4, <2>1, TurnedNotFresh
    <3>2. QED
      BY <2>1, <3>1, ResultIsFresh DEF NewTop
  <2>2. CASE k /= c
    BY <1>3, <1>4, <2>2 DEF FirstInv
  <2>3. QED
    BY <2>1, <2>2
<1>5. ASSUME NEW j \in Crawls, NEW k \in Crawls, IsTop(j), IsTop(k), j[1] = k[1],
             url'[j] = url'[k], pc'[j] /= "none", pc'[k] /= "none"
      PROVE  j = k
  <2>1. url'[j] = url[j] /\ pc[j] /= "none" /\ url'[k] = url[k] /\ pc[k] /= "none"
    BY <1>2, <1>3, <1>5
  <2>2. QED
    BY <1>5, <2>1 DEF FirstInv
<1>6. ASSUME NEW t \in Crawls, IsTop(t), pc'[t] = "new", NEW k \in Crawls, k[1] = t[1], ~IsTop(k)
      PROVE  pc'[k] = "none"
  <2>1. t /= c /\ NewTop(t)
    BY <1>2, <1>3, <1>6 DEF NewTop
  <2>2. pc[k] = "none" /\ k /= c
    BY <1>2, <1>6, <2>1 DEF FirstInv, NoLinks
  <2>3. ~(k \in SubsOf(c) /\ pc[c] = "fetch")
    <3> SUFFICES ASSUME k \in SubsOf(c), pc[c] = "fetch" PROVE FALSE
      OBVIOUS
    <3>1. t[1] = c[1]
      BY <1>6 DEF SubsOf
    <3>2. QED
      BY <2>1, <3>1, ResultsRun DEF NewTop
  <2>4. QED
    BY <1>1, <2>2, <2>3 DEF Shape, OtherMoves
<1>7. ASSUME NEW r \in Requests, \A k \in Crawls : k[1] = r /\ ~IsTop(k) => pc'[k] = "none",
             NEW p \in visited'[r]
      PROVE  \E t \in Tops(r) : pc'[t] \notin {"none", "new"} /\ url'[t] = p
  <2>1. CASE p \in visited[r]
    <3>1. NoLinks(r)
      BY <1>7, PageKept DEF NoLinks
    <3>2. PICK t \in Tops(r) : pc[t] \notin {"none", "new"} /\ url[t] = p
      BY <2>1, <3>1 DEF FirstInv
    <3>3. pc'[t] \notin {"none", "new"} /\ url'[t] = p
      BY <1>2, <1>3, <3>2 DEF Tops
    <3>4. QED
      BY <3>3
  <2>2. CASE p \notin visited[r]
    <3>1. r = c[1] /\ p = url[c]
      <4>1. visited' = visited \/ visited' = [visited EXCEPT ![c[1]] = @ \union {url[c]}]
        BY <1>1 DEF Shape, OwnMove, sharedVars
      <4>2. visited \in [Requests -> SUBSET Pages]
        BY <1>1 DEF TypeInv
      <4>3. QED
        BY <1>7, <2>2, <4>1, <4>2
    <3>2. IsTop(c)
      BY <1>2, <1>7, <3>1
    <3>3. QED
      BY <1>2, <3>1, <3>2 DEF Tops
  <2>3. QED
    BY <2>1, <2>2
<1>8. QED
  BY <1>4, <1>5, <1>6, <1>7 DEF FirstInv, NewTop, NoLinks, IsTop, Tops

\* The start of a crawl finds no marked page, and gives the results different ones.
LEMMA BeginKeepsFirst ==
  ASSUME Inv, FirstInv, NEW r \in Requests, NEW pages \in BoundedSeq(Pages, MaxTops),
         Begin(r, pages)
  PROVE  FirstInv'
<1>1. /\ \A k \in Crawls : \/ pc'[k] = pc[k] /\ url'[k] = url[k]
                           \/ IsTop(k) /\ k[1] = r /\ pc[k] = "none" /\ pc'[k] = "new"
      /\ UNCHANGED visited
  BY BeginShape DEF sharedVars
<1>2. /\ \A t \in Tops(r) : pc[t] = "none"
      /\ IsInjective(pages)
      /\ url' = [c \in Crawls |-> IF c \in ToSet(FirstTasks(r, pages)) THEN pages[c[2]] ELSE url[c]]
      /\ pc' = [c \in Crawls |-> IF c \in ToSet(FirstTasks(r, pages)) THEN "new" ELSE pc[c]]
  BY DEF Begin, Starts
<1>3. NoLinks(r)
  <2> SUFFICES ASSUME NEW k \in Crawls, k[1] = r, ~IsTop(k) PROVE pc[k] = "none"
    BY DEF NoLinks
  <2>1. Parent(k) \in Tops(r) /\ k \in SubsOf(Parent(k)) /\ Parent(k) \in Crawls /\ IsTop(Parent(k))
    BY Parents DEF Tops
  <2>2. QED
    BY <1>2, <2>1 DEF Inv, SubsInv
<1>4. visited[r] = {}
  BY <1>2, <1>3 DEF FirstInv
<1>5. ASSUME NEW k \in Crawls, IsTop(k), k[1] = r, pc'[k] /= "none"
      PROVE  k = <<r, k[2], 0>> /\ k[2] \in DOMAIN pages /\ url'[k] = pages[k[2]]
  <2>1. pc[k] = "none"
    BY <1>2, <1>5 DEF Tops
  <2>2. k \in ToSet(FirstTasks(r, pages))
    BY <1>2, <1>5, <2>1
  <2>3. PICK m \in 0 .. MaxTops : pages \in [1 .. m -> Pages]
    BY DEF BoundedSeq, SeqOf
  <2>4. m \in Nat /\ Len(pages) = m /\ DOMAIN pages = 1 .. m
    BY <2>3, Constants
  <2>5. PICK i \in 1 .. m : k = <<r, i, 0>>
    BY <2>2, <2>4 DEF ToSet, FirstTasks
  <2>6. k[2] = i
    BY <2>5
  <2>7. QED
    BY <1>2, <2>2, <2>4, <2>5, <2>6
<1>6. ASSUME NEW j \in Crawls, NEW k \in Crawls, IsTop(j), IsTop(k), j[1] = k[1],
             url'[j] = url'[k], pc'[j] /= "none", pc'[k] /= "none"
      PROVE  j = k
  <2>1. CASE j[1] = r
    <3>1. /\ j = <<r, j[2], 0>> /\ j[2] \in DOMAIN pages /\ url'[j] = pages[j[2]]
          /\ k = <<r, k[2], 0>> /\ k[2] \in DOMAIN pages /\ url'[k] = pages[k[2]]
      BY <1>5, <1>6, <2>1
    <3>2. j[2] = k[2]
      BY <1>2, <1>6, <3>1 DEF IsInjective
    <3>3. QED
      BY <3>1, <3>2
  <2>2. CASE j[1] /= r
    <3>1. pc'[j] = pc[j] /\ url'[j] = url[j] /\ pc'[k] = pc[k] /\ url'[k] = url[k]
      BY <1>1, <1>6, <2>2
    <3>2. QED
      BY <1>6, <3>1 DEF FirstInv
  <2>3. QED
    BY <2>1, <2>2
<1>7. ASSUME NEW t \in Crawls, IsTop(t), pc'[t] = "new", NEW k \in Crawls, k[1] = t[1], ~IsTop(k)
      PROVE  pc'[k] = "none"
  <2>1. pc'[k] = pc[k]
    BY <1>1, <1>7
  <2>2. CASE t[1] = r
    BY <1>3, <1>7, <2>1, <2>2 DEF NoLinks
  <2>3. CASE t[1] /= r
    BY <1>1, <1>7, <2>1, <2>3 DEF FirstInv, NewTop, NoLinks
  <2>4. QED
    BY <2>2, <2>3
<1>8. ASSUME NEW q \in Requests, \A k \in Crawls : k[1] = q /\ ~IsTop(k) => pc'[k] = "none",
             NEW p \in visited'[q]
      PROVE  \E t \in Tops(q) : pc'[t] \notin {"none", "new"} /\ url'[t] = p
  <2>1. q /= r /\ p \in visited[q]
    BY <1>1, <1>4, <1>8
  <2>2. \A k \in Crawls : k[1] = q => pc'[k] = pc[k] /\ url'[k] = url[k]
    BY <1>1, <2>1
  <2>3. NoLinks(q)
    BY <1>8, <2>2 DEF NoLinks
  <2>4. PICK t \in Tops(q) : pc[t] \notin {"none", "new"} /\ url[t] = p
    BY <2>1, <2>3 DEF FirstInv
  <2>5. QED
    BY <2>2, <2>4 DEF Tops
<1>9. \A k \in Crawls : pc'[k] = "turned" => ~IsTop(k)
  BY <1>1 DEF FirstInv
<1>10. QED
  BY <1>6, <1>7, <1>8, <1>9 DEF FirstInv, NewTop, NoLinks, IsTop, Tops

(***************************************************************************)
(* Whatever links the pages have, each of the best results is crawled as   *)
(* one of the first level: the order of the loop runs all of them before   *)
(* the first link, and they fit into the budget.                           *)
(***************************************************************************)
THEOREM ResultsAreFirst == Spec => []ResultsFirst
<1>1. Init => FirstInv
  <2> SUFFICES ASSUME Init PROVE FirstInv
    OBVIOUS
  <2>1. (\A r \in Requests : visited[r] = {}) /\ \A c \in Crawls : pc[c] = "none"
    BY DEF Init
  <2>2. QED
    BY <2>1 DEF FirstInv, NewTop
<1>2. Inv /\ RestInv /\ PagesInv /\ QueueInv /\ FirstInv /\ [Next]_vars => FirstInv'
  <2> SUFFICES ASSUME Inv, RestInv, PagesInv, QueueInv, FirstInv, [Next]_vars PROVE FirstInv'
    OBVIOUS
  <2>1. CASE \E c \in Crawls : Run(c)
    BY <2>1, RunKeepsFirst
  <2>2. CASE \E r \in Requests, pages \in BoundedSeq(Pages, MaxTops) : Begin(r, pages)
    BY <2>2, BeginKeepsFirst
  <2>3. CASE UNCHANGED <<url, pc, visited, budget, permits, waiters>>
    BY <2>3 DEF FirstInv, NewTop, NoLinks, IsTop, Tops
  <2>4. QED
    BY <2>1, <2>2, <2>3, StepKinds
<1>3. FirstInv => ResultsFirst
  BY DEF FirstInv, ResultsFirst
<1>4. QED
  BY <1>1, <1>2, <1>3, Invariant, RestInvariant, PagesInvariant, QueueInvariant, PTL DEF Spec
=============================================================================
