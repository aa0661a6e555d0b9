--------------------------- MODULE SearchPipeline ---------------------------
(***************************************************************************)
(* The metasearch pipeline of Blend (blend_core/pipeline): a search asks   *)
(* its engines, one thread per engine, waits for them until its deadline,  *)
(* closes its result pool and scores what was collected.  Searches run in  *)
(* parallel and share, per network, the status that suspends an engine     *)
(* after an error.                                                         *)
(*                                                                         *)
(* Three kinds of actor interleave: the thread of a search (Begin ...      *)
(* Finish), the threads of the engines it asked (Reply ... Conclude), and  *)
(* the clock.  A step is the code between two accesses to shared state;    *)
(* BlendResults.close and BlendResults.extend take no lock, so the test of *)
(* _closed and the insertion it guards are two steps.                      *)
(***************************************************************************)
EXTENDS Integers, FiniteSets

CONSTANTS
  Searches,           \* the searches; each one is one HTTP request
  Engines,            \* names of the configured engines
  Networks,           \* network objects, the keys of SUSPENDED_STATUS
  NetworkOf,          \* the network of each engine
  Offline,            \* engines of type "offline" (no HTTP, never suspended)
  LateInit,           \* engines registered by a thread, after their init()
  ShowsErrors,        \* engines with display_error_messages
  EngineTimeout,      \* engine.timeout
  None,               \* Python's None
  MaxRequestTimeout,  \* settings outgoing.max_request_timeout, or None
  QueryLimits,        \* the values timeout_limit of a query may have
  BanTimeOnFail,      \* settings search.ban_time_on_fail
  MaxBanTime,         \* settings search.max_ban_time_on_fail
  DeniedBanTime,      \* suspended_time of an access-denied exception
  LastStart,          \* BOUND: no search starts later than this ...
  Horizon             \* BOUND: ... and the clock stops here

ASSUME NetworksAssumption == NetworkOf \in [Engines -> Networks]
ASSUME EnginesAssumption ==
  /\ Offline \subseteq Engines
  /\ LateInit \subseteq Engines
  /\ ShowsErrors \subseteq Engines
  /\ None \notin Engines
ASSUME TimesAssumption ==
  /\ EngineTimeout \in [Engines -> Nat]
  /\ QueryLimits \union {MaxRequestTimeout} \subseteq Nat \union {None}
  /\ None \notin Nat
  /\ {BanTimeOnFail, MaxBanTime, DeniedBanTime, LastStart, Horizon} \subseteq Nat

VARIABLES
  now,         \* default_timer(), in abstract units
  registered,  \* PROCESSORS: the engines that can be asked
  banUntil,    \* SuspendedStatus.suspend_end_time of each network, 0 is none
  banReason,   \* SuspendedStatus.suspend_reason of each network, "none" is ''
  spc,         \* where the thread of a search is
  todo,        \* engines of the query _get_requests has not looked at
  requests,    \* engines a request was prepared for
  cur,         \* the engine the search is busy with, or None
  joining,     \* threads of the snapshot still to be joined
  query,       \* BlendQuery.timeout_limit
  start,       \* Search.start_time
  limit,       \* default_timeout while it is collected, then actual_timeout
  wake,        \* when the running th.join(remaining_time) gives up
  closed,      \* BlendResults._closed
  results,     \* main_results_map, by the engine that gave the result
  counted,     \* the results the iteration of close() started on
  scored,      \* the results close() gave a score
  unresp,      \* BlendResults.unresponsive_engines
  timings,     \* BlendResults.timings, by engine
  tpc,         \* where the thread of an engine is
  reply,       \* what the engine's search came to
  gaveUp,      \* the thread's _timeout flag
  sent, successful, errors   \* the metrics counters of each engine

clockVars  == <<now, registered>>
banVars    == <<banUntil, banReason>>
planVars   == <<todo, requests, query, start, limit>>
joinVars   == <<cur, joining, wake>>
searchVars == <<spc, planVars, joinVars>>
scoreVars  == <<closed, counted, scored>>
poolVars   == <<scoreVars, results, unresp, timings>>
threadVars == <<tpc, reply, gaveUp>>
metricVars == <<sent, successful, errors>>
shared     == <<clockVars, banVars, metricVars>>
outside    == <<shared, poolVars, threadVars>>
vars == <<outside, searchVars>>

Threads == Searches \X Engines

\* The exceptions OnlineProcessor.blend_search suspends on, and how an engine's
\* search can come out; "late" is the answer of a thread nobody waits for.
Suspending == {"error", "denied"}
Failures   == Suspending \union {"crash"}
Replies    == {"none", "results", "nothing", "invalid", "late"} \union Failures

SearchPcs == {"idle", "filter", "skip", "send", "join", "wait", "giveup",
              "post", "iterate", "score", "done", "crashed"}
ThreadPcs == {"none", "run", "check", "extend", "merge", "time", "timed",
              "report", "reporting", "conclude", "dead"}

Messages == Failures \union {"timeout", "none"}
Entries  == [engine: Engines, error: Messages, suspended: BOOLEAN]

\* The error_message handle_exception makes of a reply.
Message(r) == IF r = "late" THEN "timeout" ELSE r

Lesser(a, b)  == IF a <= b THEN a ELSE b
Greater(a, b) == IF a >= b THEN a ELSE b

\* MUTANT of ActualTimeout: the query's limit is used even if it has none.
QueryTimeout(default, q) ==
  IF None \in {q, MaxRequestTimeout} THEN q ELSE Lesser(q, MaxRequestTimeout)

\* The four cases of _get_requests: without a maximum a query can only shorten
\* the default, with one it may also extend it up to the maximum.
ActualTimeout(default, q) ==
  LET max == MaxRequestTimeout
  IN  IF max = None
      THEN IF q = None THEN default ELSE Lesser(default, q)
      ELSE IF q = None THEN Lesser(default, max) ELSE Lesser(q, max)

\* suspended_time of an exception: its own, or the configured one.
BanTime(r) == IF r = "denied" THEN DeniedBanTime ELSE Lesser(MaxBanTime, BanTimeOnFail)

Suspended(n) == banUntil[n] >= now

\* MUTANT of WithEntry: only engines that hide their errors are listed.
WithHiddenEntry(s, e, error, suspended) ==
  IF e \notin ShowsErrors
  THEN [unresp EXCEPT ![s] = @ \union {[engine |-> e, error |-> error, suspended |-> suspended]}]
  ELSE unresp

\* BlendResults.add_unresponsive_engine, once it is past the test of _closed.
WithEntry(s, e, error, suspended) ==
  IF e \in ShowsErrors
  THEN [unresp EXCEPT ![s] = @ \union {[engine |-> e, error |-> error, suspended |-> suspended]}]
  ELSE unresp

Init ==
  /\ now = 1
  /\ registered = Engines \ LateInit
  /\ banUntil = [n \in Networks |-> 0]
  /\ banReason = [n \in Networks |-> "none"]
  /\ spc = [s \in Searches |-> "idle"]
  /\ todo = [s \in Searches |-> {}]
  /\ requests = [s \in Searches |-> {}]
  /\ cur = [s \in Searches |-> None]
  /\ joining = [s \in Searches |-> {}]
  /\ query = [s \in Searches |-> None]
  /\ start = [s \in Searches |-> 0]
  /\ limit = [s \in Searches |-> 0]
  /\ wake = [s \in Searches |-> 0]
  /\ closed = [s \in Searches |-> FALSE]
  /\ results = [s \in Searches |-> {}]
  /\ counted = [s \in Searches |-> {}]
  /\ scored = [s \in Searches |-> {}]
  /\ unresp = [s \in Searches |-> {}]
  /\ timings = [s \in Searches |-> {}]
  /\ tpc = [t \in Threads |-> "none"]
  /\ reply = [t \in Threads |-> "none"]
  /\ gaveUp = [t \in Threads |-> FALSE]
  /\ sent = [e \in Engines |-> 0]
  /\ successful = [e \in Engines |-> 0]
  /\ errors = [e \in Engines |-> 0]

SearchMoves(s, from, to)    == spc[s] = from /\ spc' = [spc EXCEPT ![s] = to]
ThreadMoves(s, e, from, to) == tpc[<<s, e>>] = from /\ tpc' = [tpc EXCEPT ![<<s, e>>] = to]

-----------------------------------------------------------------------------
(* The clock.                                                              *)

\* A search waits in a join while the thread is alive and there is time left.
Waiting(s) == spc[s] = "wait" /\ now < wake[s] /\ tpc[<<s, cur[s]>>] /= "dead"

\* The join loop does nothing but wait: no time passes between its steps.
Tick ==
  /\ now < Horizon
  /\ \A s \in Searches : spc[s] \in {"join", "wait", "giveup"} => Waiting(s)
  /\ now' = now + 1
  /\ UNCHANGED <<searchVars, poolVars, threadVars, banVars, metricVars,
                  registered>>

\* The thread of EngineProcessor.initialize ends with a successful init().
Register(e) ==
  /\ e \notin registered
  /\ registered' = registered \union {e}
  /\ UNCHANGED <<searchVars, poolVars, threadVars, banVars, metricVars, now>>

-----------------------------------------------------------------------------
(* The thread of a search: SearchWithPlugins.blend_search.                 *)

\* search_standard starts on the engines es of the query.
Begin(s) ==
  /\ SearchMoves(s, "idle", "filter")
  /\ now <= LastStart
  /\ \E es \in SUBSET Engines, q \in QueryLimits :
       /\ todo' = [todo EXCEPT ![s] = es]
       /\ query' = [query EXCEPT ![s] = q]
  /\ start' = [start EXCEPT ![s] = now]
  /\ UNCHANGED <<outside, joinVars, requests, limit>>

\* A plugin's pre_search vetoes it, a bang redirects it, or an answerer answers.
BeginWithoutEngines(s) ==
  /\ SearchMoves(s, "idle", "post")
  /\ UNCHANGED <<outside, planVars, joinVars>>

\* _get_requests leaves an engine out: it is not registered, or get_params finds
\* that it does not support the query.
PassOver(s, e) ==
  /\ spc[s] = "filter"
  /\ e \in todo[s]
  /\ e \in registered => ~Suspended(NetworkOf[e])
  /\ todo' = [todo EXCEPT ![s] = @ \ {e}]
  /\ UNCHANGED <<outside, joinVars, spc, requests, query, start, limit>>

\* extend_container_if_suspended finds the engine suspended ...
FindSuspended(s, e) ==
  /\ SearchMoves(s, "filter", "skip")
  /\ e \in todo[s] \intersect registered
  /\ Suspended(NetworkOf[e])
  /\ todo' = [todo EXCEPT ![s] = @ \ {e}]
  /\ cur' = [cur EXCEPT ![s] = e]
  /\ UNCHANGED <<outside, requests, joining, query, start, limit, wake>>

\* ... and reads the reason, without the lock that suspend and resume take.
ReportSuspended(s) ==
  /\ SearchMoves(s, "skip", "filter")
  /\ unresp' = WithEntry(s, cur[s], banReason[NetworkOf[cur[s]]], TRUE)
  /\ cur' = [cur EXCEPT ![s] = None]
  /\ UNCHANGED <<shared, planVars, threadVars, scoreVars, joining, wake,
                  results, timings>>

\* The engine is neither suspended nor unfit: a request is prepared for it.
Prepare(s, e) ==
  /\ spc[s] = "filter"
  /\ e \in todo[s] \intersect registered
  /\ ~Suspended(NetworkOf[e])
  /\ todo' = [todo EXCEPT ![s] = @ \ {e}]
  /\ requests' = [requests EXCEPT ![s] = @ \union {e}]
  /\ sent' = [sent EXCEPT ![e] = @ + 1]
  /\ limit' = [limit EXCEPT ![s] = Greater(@, EngineTimeout[e])]
  /\ UNCHANGED <<poolVars, clockVars, joinVars, threadVars, banVars, spc, query,
                  start, successful, errors>>

\* The end of _get_requests; without requests search_standard returns at once.
SetTimeout(s) ==
  /\ SearchMoves(s, "filter", IF requests[s] = {} THEN "post" ELSE "send")
  /\ todo[s] = {}
  /\ limit' = [limit EXCEPT ![s] = ActualTimeout(@, query[s])]
  /\ UNCHANGED <<outside, joinVars, todo, requests, query, start>>

\* search_multiple_requests starts a thread with _timeout = False.
StartThread(s, e) ==
  /\ spc[s] = "send"
  /\ e \in requests[s]
  /\ ThreadMoves(s, e, "none", "run")
  /\ UNCHANGED <<shared, searchVars, poolVars, reply, gaveUp>>

\* threading.enumerate() lists the threads of the search that are alive.
Enumerate(s) ==
  /\ SearchMoves(s, "send", "join")
  /\ \A e \in requests[s] : tpc[<<s, e>>] /= "none"
  /\ joining' = [joining EXCEPT ![s] = {e \in requests[s] : tpc[<<s, e>>] /= "dead"}]
  /\ UNCHANGED <<outside, planVars, cur, wake>>

\* remaining_time of the join loop; its MUTANTs give every join the full
\* timeout, or none.
FullTimeout(s) == limit[s]
NoTimeout(s)   == Horizon
Remaining(s)   == Greater(0, limit[s] - (now - start[s]))

\* th.join(remaining_time) of the next thread: what is left of actual_timeout.
Join(s, e) ==
  /\ SearchMoves(s, "join", "wait")
  /\ e \in joining[s]
  /\ joining' = [joining EXCEPT ![s] = @ \ {e}]
  /\ cur' = [cur EXCEPT ![s] = e]
  /\ wake' = [wake EXCEPT ![s] = now + Remaining(s)]
  /\ UNCHANGED <<outside, planVars>>

\* MUTANT of Joined: a join that times out is taken for one that succeeded.
JoinedUnchecked(s) ==
  /\ SearchMoves(s, "wait", "join")
  /\ tpc[<<s, cur[s]>>] = "dead" \/ now >= wake[s]
  /\ cur' = [cur EXCEPT ![s] = None]
  /\ UNCHANGED <<outside, planVars, joining, wake>>

\* join returns and th.is_alive() is false.
Joined(s) ==
  /\ SearchMoves(s, "wait", "join")
  /\ tpc[<<s, cur[s]>>] = "dead"
  /\ cur' = [cur EXCEPT ![s] = None]
  /\ UNCHANGED <<outside, planVars, joining, wake>>

\* join times out and th.is_alive() is true ...
StillAlive(s) ==
  /\ SearchMoves(s, "wait", "giveup")
  /\ now >= wake[s]
  /\ tpc[<<s, cur[s]>>] /= "dead"
  /\ UNCHANGED <<outside, planVars, joinVars>>

\* ... so the thread is told that nobody waits for it (it may be dead by now).
GiveUp(s) ==
  /\ SearchMoves(s, "giveup", "join")
  /\ gaveUp' = [gaveUp EXCEPT ![<<s, cur[s]>>] = TRUE]
  /\ unresp' = WithEntry(s, cur[s], "timeout", FALSE)
  /\ cur' = [cur EXCEPT ![s] = None]
  /\ UNCHANGED <<shared, planVars, scoreVars, joining, wake, results, timings,
                  tpc, reply>>

\* MUTANT of EndJoin: the join loop is left with threads unjoined.
EndJoinEarly(s) ==
  /\ SearchMoves(s, "join", "post")
  /\ UNCHANGED <<outside, planVars, joinVars>>

EndJoin(s) ==
  /\ SearchMoves(s, "join", "post")
  /\ joining[s] = {}
  /\ UNCHANGED <<outside, planVars, joinVars>>

\* BlendResults.close() raises _closed without the lock (post_search before it
\* adds answers only, which take no part in scoring) ...
Close(s) ==
  /\ SearchMoves(s, "post", "iterate")
  /\ closed' = [closed EXCEPT ![s] = TRUE]
  /\ UNCHANGED <<shared, planVars, joinVars, threadVars, results, counted,
                  scored, unresp, timings>>

\* ... and starts to iterate over the results it finds.
Iterate(s) ==
  /\ SearchMoves(s, "iterate", "score")
  /\ counted' = [counted EXCEPT ![s] = results[s]]
  /\ UNCHANGED <<shared, planVars, joinVars, threadVars, closed, results,
                  scored, unresp, timings>>

Score(s, e) ==
  /\ spc[s] = "score"
  /\ results[s] = counted[s]
  /\ e \in counted[s] \ scored[s]
  /\ scored' = [scored EXCEPT ![s] = @ \union {e}]
  /\ UNCHANGED <<shared, searchVars, threadVars, closed, results, counted,
                  unresp, timings>>

Finish(s) ==
  /\ SearchMoves(s, "score", "done")
  /\ results[s] = counted[s]
  /\ scored[s] = counted[s]
  /\ UNCHANGED <<outside, planVars, joinVars>>

\* A dict that grows under its iterator raises RuntimeError at the next item,
\* and the search fails.
Crash(s) ==
  /\ SearchMoves(s, "score", "crashed")
  /\ results[s] /= counted[s]
  /\ UNCHANGED <<outside, planVars, joinVars>>

-----------------------------------------------------------------------------
(* The thread of an engine: OnlineProcessor and OfflineProcessor           *)
(* .blend_search, EngineProcessor.extend_container and .handle_exception.  *)

\* The replies of an engine's search, and where each one is handled: an answer
\* by extend_container, an exception by handle_exception, the ValueError of an
\* offline engine by nobody.
CanReply(e) ==
  {"results", "nothing", "crash"} \union
  (IF e \in Offline THEN {"invalid"} ELSE Suspending)

Handler(r) ==
  IF r \in Failures THEN "report" ELSE IF r = "invalid" THEN "dead" ELSE "check"

Reply(s, e) ==
  /\ tpc[<<s, e>>] = "run"
  /\ \E r \in CanReply(e) :
       /\ reply' = [reply EXCEPT ![<<s, e>>] = r]
       /\ tpc' = [tpc EXCEPT ![<<s, e>>] = Handler(r)]
  /\ UNCHANGED <<shared, searchVars, poolVars, gaveUp>>

\* extend_container asks whether the search still waits; if not, the answer is
\* reported as a timeout.
CheckInTime(s, e) ==
  /\ tpc[<<s, e>>] = "check"
  /\ IF gaveUp[<<s, e>>]
     THEN /\ reply' = [reply EXCEPT ![<<s, e>>] = "late"]
          /\ tpc' = [tpc EXCEPT ![<<s, e>>] = "report"]
     ELSE /\ tpc' = [tpc EXCEPT ![<<s, e>>] = IF reply[<<s, e>>] = "results" THEN "extend"
                                                                     ELSE "conclude"]
          /\ UNCHANGED reply
  /\ UNCHANGED <<shared, searchVars, poolVars, gaveUp>>

\* BlendResults.extend tests _closed, once and without the lock ...
Extend(s, e) ==
  /\ ThreadMoves(s, e, "extend", IF closed[s] THEN "time" ELSE "merge")
  /\ UNCHANGED <<shared, searchVars, poolVars, reply, gaveUp>>

\* ... and _merge_main_result inserts.
Merge(s, e) ==
  /\ ThreadMoves(s, e, "merge", "time")
  /\ results' = [results EXCEPT ![s] = @ \union {e}]
  /\ UNCHANGED <<shared, searchVars, scoreVars, unresp, timings, reply, gaveUp>>

\* A result of an unknown type raises, after some results or before any.
MergeFails(s, e) ==
  /\ ThreadMoves(s, e, "merge", "report")
  /\ results' \in {results, [results EXCEPT ![s] = @ \union {e}]}
  /\ reply' = [reply EXCEPT ![<<s, e>>] = "crash"]
  /\ UNCHANGED <<shared, searchVars, scoreVars, unresp, timings, gaveUp>>

\* add_timing holds the lock, which close() does not take: test and append.
TestTiming(s, e) ==
  /\ ThreadMoves(s, e, "time", IF closed[s] THEN "conclude" ELSE "timed")
  /\ UNCHANGED <<shared, searchVars, poolVars, reply, gaveUp>>

AddTiming(s, e) ==
  /\ ThreadMoves(s, e, "timed", "conclude")
  /\ timings' = [timings EXCEPT ![s] = @ \union {e}]
  /\ UNCHANGED <<shared, searchVars, scoreVars, results, unresp, reply, gaveUp>>

\* add_unresponsive_engine of handle_exception: test and add, as above.
TestReport(s, e) ==
  /\ ThreadMoves(s, e, "report", IF closed[s] THEN "conclude" ELSE "reporting")
  /\ UNCHANGED <<shared, searchVars, poolVars, reply, gaveUp>>

AddReport(s, e) ==
  /\ ThreadMoves(s, e, "reporting", "conclude")
  /\ unresp' = WithEntry(s, e, Message(reply[<<s, e>>]), FALSE)
  /\ UNCHANGED <<shared, searchVars, scoreVars, results, timings, reply,
                  gaveUp>>

\* MUTANT of Resume: a declined request counts as a success.
ResumeCountingAll(s, e) ==
  /\ ThreadMoves(s, e, "conclude", "dead")
  /\ reply[<<s, e>>] \in {"results", "nothing"}
  /\ successful' = [successful EXCEPT ![e] = @ + 1]
  /\ banUntil' = [banUntil EXCEPT ![NetworkOf[e]] = 0]
  /\ banReason' = [banReason EXCEPT ![NetworkOf[e]] = "none"]
  /\ UNCHANGED <<searchVars, poolVars, clockVars, reply, gaveUp, sent, errors>>

\* An answer is counted, if there was one, and lifts the ban of the network.
Resume(s, e) ==
  /\ ThreadMoves(s, e, "conclude", "dead")
  /\ reply[<<s, e>>] \in {"results", "nothing"}
  /\ successful' = IF reply[<<s, e>>] = "results"
                   THEN [successful EXCEPT ![e] = @ + 1] ELSE successful
  /\ banUntil' = [banUntil EXCEPT ![NetworkOf[e]] = 0]
  /\ banReason' = [banReason EXCEPT ![NetworkOf[e]] = "none"]
  /\ UNCHANGED <<searchVars, poolVars, clockVars, reply, gaveUp, sent, errors>>

\* MUTANT of Suspend: resume() is called for a late answer too.
SuspendOrResume(s, e) ==
  /\ ThreadMoves(s, e, "conclude", "dead")
  /\ reply[<<s, e>>] \in Failures \union {"late"}
  /\ errors' = [errors EXCEPT ![e] = @ + 1]
  /\ banUntil' = [banUntil EXCEPT ![NetworkOf[e]] =
                    CASE reply[<<s, e>>] \in Suspending -> now + BanTime(reply[<<s, e>>])
                      [] reply[<<s, e>>] = "late"       -> 0
                      [] OTHER                      -> @]
  /\ UNCHANGED <<searchVars, poolVars, clockVars, banReason, reply, gaveUp,
                  sent, successful>>

\* An exception is counted, and bans the network if it is one to suspend on.
Suspend(s, e) ==
  /\ ThreadMoves(s, e, "conclude", "dead")
  /\ reply[<<s, e>>] \in Failures \union {"late"}
  /\ errors' = [errors EXCEPT ![e] = @ + 1]
  /\ IF reply[<<s, e>>] \in Suspending
     THEN /\ banUntil' = [banUntil EXCEPT ![NetworkOf[e]] = now + BanTime(reply[<<s, e>>])]
          /\ banReason' = [banReason EXCEPT ![NetworkOf[e]] = reply[<<s, e>>]]
     ELSE UNCHANGED banVars
  /\ UNCHANGED <<searchVars, poolVars, clockVars, reply, gaveUp, sent,
                  successful>>

-----------------------------------------------------------------------------
SearchStep(s) ==
  \/ Begin(s) \/ BeginWithoutEngines(s)
  \/ \E e \in Engines : PassOver(s, e) \/ FindSuspended(s, e) \/ Prepare(s, e)
  \/ ReportSuspended(s) \/ SetTimeout(s)
  \/ \E e \in Engines : StartThread(s, e) \/ Join(s, e)
  \/ Enumerate(s) \/ Joined(s) \/ StillAlive(s) \/ GiveUp(s) \/ EndJoin(s)
  \/ Close(s) \/ Iterate(s) \/ Finish(s) \/ Crash(s)
  \/ \E e \in Engines : Score(s, e)

ThreadStep(s, e) ==
  \/ Reply(s, e) \/ CheckInTime(s, e) \/ Extend(s, e)
  \/ Merge(s, e) \/ MergeFails(s, e)
  \/ TestTiming(s, e) \/ AddTiming(s, e)
  \/ TestReport(s, e) \/ AddReport(s, e)
  \/ Resume(s, e) \/ Suspend(s, e)

Next ==
  \/ Tick
  \/ \E e \in Engines : Register(e)
  \/ \E s \in Searches : SearchStep(s)
  \/ \E s \in Searches, e \in Engines : ThreadStep(s, e)

Spec == Init /\ [][Next]_vars

\* The thread of a search is scheduled and time passes.  Nothing is assumed of
\* the engines: a thread may hang in its request for ever.
Fairness == WF_vars(Tick) /\ \A s \in Searches : WF_vars(SearchStep(s))

FairSpec == Spec /\ Fairness

-----------------------------------------------------------------------------
(* Properties.                                                             *)

TypeOK ==
  /\ now \in Nat
  /\ registered \subseteq Engines
  /\ banUntil \in [Networks -> Nat]
  /\ banReason \in [Networks -> Suspending \union {"none"}]
  /\ spc \in [Searches -> SearchPcs]
  /\ todo \in [Searches -> SUBSET Engines]
  /\ requests \in [Searches -> SUBSET Engines]
  /\ cur \in [Searches -> Engines \union {None}]
  /\ joining \in [Searches -> SUBSET Engines]
  /\ query \in [Searches -> Nat \union {None}]
  /\ start \in [Searches -> Nat]
  /\ limit \in [Searches -> Nat]
  /\ wake \in [Searches -> Nat]
  /\ closed \in [Searches -> BOOLEAN]
  /\ results \in [Searches -> SUBSET Engines]
  /\ counted \in [Searches -> SUBSET Engines]
  /\ scored \in [Searches -> SUBSET Engines]
  /\ unresp \in [Searches -> SUBSET Entries]
  /\ timings \in [Searches -> SUBSET Engines]
  /\ tpc \in [Threads -> ThreadPcs]
  /\ reply \in [Threads -> Replies]
  /\ gaveUp \in [Threads -> BOOLEAN]
  /\ sent \in [Engines -> Nat]
  /\ successful \in [Engines -> Nat]
  /\ errors \in [Engines -> Nat]

\* The search is past its join loop.
Collected(s) == spc[s] \in {"post", "iterate", "score", "done", "crashed"}

\* When a search stops waiting, each engine it asked is either finished or
\* given up, and the user is told of the one given up: no engine goes missing
\* because the list of threads, the join and the report disagree.
EveryEngineAccounted ==
  \A s \in Searches : Collected(s) =>
    \A e \in requests[s] :
      \/ tpc[<<s, e>>] = "dead"
      \/ /\ gaveUp[<<s, e>>]
         /\ e \in ShowsErrors =>
              [engine |-> e, error |-> "timeout", suspended |-> FALSE] \in unresp[s]

\* Results of an engine the search waited for reach the response: whatever the
\* other threads do, they are in the pool, have a score and a timing.
InTimeResultsKept ==
  \A s \in Searches, e \in Engines :
    spc[s] = "done" /\ reply[<<s, e>>] = "results" /\ ~gaveUp[<<s, e>>] =>
      e \in results[s] \intersect scored[s] \intersect timings[s]

\* Scoring fails only when an engine the search gave up slipped its results in:
\* a search that loses no engine to the deadline does not fail.
CrashNeedsLateResult ==
  \A s \in Searches : spc[s] = "crashed" =>
    \E e \in results[s] \ counted[s] : gaveUp[<<s, e>>]

\* The metrics balance: every request counted as sent is, once its thread is
\* dead, counted as a success or as an error exactly once, or was declined.
OutcomeCountedOnce ==
  \A e \in Engines :
    LET asked    == {s \in Searches : e \in requests[s]}
        open     == {s \in asked : tpc[<<s, e>>] /= "dead"}
        declined == {s \in asked \ open : reply[<<s, e>>] \in {"nothing", "invalid"}}
    IN  sent[e] = successful[e] + errors[e] + Cardinality(open) + Cardinality(declined)

\* Only an answer that was in time when it arrived lifts a ban before it ends:
\* neither an error nor the answer of a thread that was given up does.
BanLiftedByAnswerOnly ==
  [][\A n \in Networks : Suspended(n) /\ banUntil'[n] = 0 =>
       \E s \in Searches, e \in Engines :
         /\ NetworkOf[e] = n
         /\ tpc[<<s, e>>] /= "dead" /\ tpc'[<<s, e>>] = "dead"
         /\ reply[<<s, e>>] \in {"results", "nothing"}]_vars

\* The clock never passes the deadline of a search that still waits: the joins
\* of its threads share one timeout, they do not add up.
DeadlineKept ==
  [][\A s \in Searches : now' > now /\ spc[s] = "wait" =>
       now' <= start[s] + limit[s]]_vars

\* The search as its contract sees it.
PhaseOf(pc) ==
  IF pc \in {"idle", "filter", "skip"} THEN "preparing"
  ELSE IF pc \in {"send", "join", "wait", "giveup"} THEN "collecting"
  ELSE IF pc \in {"post", "iterate", "score"} THEN "closing"
  ELSE IF pc = "done" THEN "answered" ELSE "failed"

Contract == INSTANCE SearchContract WITH
  phase   <- [s \in Searches |-> PhaseOf(spc[s])],
  asked   <- [s \in Searches |-> IF PhaseOf(spc[s]) = "preparing" THEN {} ELSE requests[s]],
  settled <- [s \in Searches |-> {e \in Engines : tpc[<<s, e>>] = "dead"}],
  late    <- [s \in Searches |-> {e \in Engines : gaveUp[<<s, e>>]}]

\* The threads, the joins and the clock together keep the promise of
\* SearchContract: no search closes over an engine that neither settled nor was
\* written off, and none fails without having written one off.
ImplementsContract == Contract!ContractSpec

\* A closed pool is what the response was made from: "container is closed,
\* ignoring results" (extend), "call to add_timing after close" (add_timing).
ClosedPoolFrozen ==
  [][\A s \in Searches : closed[s] => results'[s] = results[s]]_vars

\* Every search ends, even if its engines never answer.
SearchReturns ==
  \A s \in Searches : spc[s] = "filter" ~> spc[s] \in {"done", "crashed"}
=============================================================================
