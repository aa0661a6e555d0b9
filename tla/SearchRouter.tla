---------------------------- MODULE SearchRouter ----------------------------
(***************************************************************************)
(* One request through the router: asyncio.run(router.route(...)) of       *)
(* app.api_search.  The router asks its providers concurrently, cuts them  *)
(* off at a deadline, and in mode "fast" asks all of them once more, with  *)
(* a larger deadline, if there was no result.  Some providers (blend_core, *)
(* google) hand their work to a thread of the executor of the event loop:  *)
(* cancelling such a task leaves the thread running, and asyncio.run joins *)
(* the threads of the executor before it returns the payload.              *)
(***************************************************************************)
EXTENDS Integers, FiniteSets

CONSTANTS
  Providers,    \* those the ProviderManager may choose
  InExecutor,   \* those that search in a thread of the executor
  FastBudget,   \* 4.0 s
  DeepBudget,   \* 25.0 s
  MinRetry,     \* 8.0 s
  Horizon       \* BOUND: the clock stops here

ASSUME RouterAssumption ==
  /\ InExecutor \subseteq Providers
  /\ {FastBudget, DeepBudget, MinRetry, Horizon} \subseteq Nat

Attempts == {1, 2}
Modes    == {"fast", "deep", "other"}
Asks     == Attempts \X Providers

VARIABLES
  now,        \* time since the request came, in abstract units
  pc,         \* "idle", "batch", "crawl", "exit" (of asyncio.run) or "done"
  mode,       \* blend_mode of the request
  asked,      \* the provider_batch
  attempt,    \* 0, 1, or 2 for the retry
  deadline,   \* when asyncio.wait of the batch times out
  task,       \* what became of the task of a provider in an attempt
  worker,     \* the thread behind it: "none", "run" or "done"
  results,    \* the asks whose results are in all_results
  errors,     \* the asks that are in errors
  routed,     \* when route returned
  answered    \* when asyncio.run did

loopVars == <<pc, mode, asked, attempt, deadline, results, errors, routed, answered>>
vars == <<now, loopVars, task, worker>>

\* What a task comes to: a list of results, one that normalize() fails on, an
\* empty one, or an exception.
Answers == {"some", "malformed", "empty", "error"}

Budget(m)   == IF m = "fast" THEN FastBudget ELSE DeepBudget
RetryBudget == IF 2 * FastBudget >= MinRetry THEN 2 * FastBudget ELSE MinRetry

Of(a, answers) == {p \in asked : task[<<a, p>>] \in answers}

Init ==
  /\ now = 0
  /\ pc = "idle"
  /\ mode = "fast"
  /\ asked = {}
  /\ attempt = 0
  /\ deadline = 0
  /\ task = [k \in Asks |-> "none"]
  /\ worker = [k \in Asks |-> "none"]
  /\ results = {}
  /\ errors = {}
  /\ routed = 0
  /\ answered = 0

\* MUTANT of Launch: the tasks of the first batch are not cancelled.
LaunchOver(a, ps, budget) ==
  /\ attempt' = a
  /\ deadline' = now + budget
  /\ task' = [k \in Asks |-> IF k[1] = a /\ k[2] \in ps THEN "run" ELSE task[k]]
  /\ worker' = [k \in Asks |-> IF k[1] = a /\ k[2] \in ps \intersect InExecutor THEN "run"
                               ELSE worker[k]]

\* _run_provider_batch creates the tasks and starts to wait.
Launch(a, ps, budget) ==
  /\ attempt' = a
  /\ deadline' = now + budget
  /\ task' = [k \in Asks |-> IF k[1] = a /\ k[2] \in ps THEN "run"
                             ELSE IF task[k] = "run" THEN "cancelled" ELSE task[k]]
  /\ worker' = [k \in Asks |-> IF k[1] = a /\ k[2] \in ps \intersect InExecutor THEN "run"
                               ELSE worker[k]]

Start(m, ps) ==
  /\ pc = "idle"
  /\ ps /= {}
  /\ pc' = "batch"
  /\ mode' = m
  /\ asked' = ps
  /\ Launch(1, ps, Budget(m))
  /\ UNCHANGED <<now, results, errors, routed, answered>>

\* A provider answers while its batch is waited for.
Answer(p) ==
  LET k == <<attempt, p>>
  IN  /\ pc = "batch"
      /\ p \in asked
      /\ task[k] = "run"
      /\ \E r \in Answers : task' = [task EXCEPT ![k] = r]
      /\ worker' = [worker EXCEPT ![k] = IF @ = "run" THEN "done" ELSE @]
      /\ UNCHANGED <<now, loopVars>>

\* A thread ends that nobody waits for any more.
WorkerEnds(k) ==
  /\ worker[k] = "run"
  /\ task[k] /= "run"
  /\ worker' = [worker EXCEPT ![k] = "done"]
  /\ UNCHANGED <<now, loopVars, task>>

\* MUTANT of Collected: a batch is waited for as long as one of it runs.
CollectedWhenDone == pc = "batch" /\ Of(attempt, {"run"}) = {}

\* asyncio.wait returns: everything is done, or the deadline is over.
Collected == pc = "batch" /\ (now >= deadline \/ Of(attempt, {"run"}) = {})

\* The errors so far and those of the batch; its MUTANT forgets the former.
ErrorsOfLast == {<<attempt, p>> : p \in Of(attempt, {"error", "malformed"})}
ErrorsWithBatch == errors \union {<<attempt, p>> : p \in Of(attempt, {"error", "malformed"})}

\* Fast mode and no result at all: the whole batch once more.
Retry ==
  /\ Collected
  /\ mode = "fast" /\ attempt = 1
  /\ Of(1, {"some"}) = {}
  /\ errors' = ErrorsWithBatch
  /\ Launch(2, asked, RetryBudget)
  /\ UNCHANGED <<now, pc, mode, asked, results, routed, answered>>

\* MUTANT of Conclude: fast mode returns what the first batch has.
ConcludeNoRetry ==
  /\ Collected
  /\ results' = {<<attempt, p>> : p \in Of(attempt, {"some"})}
  /\ errors' = ErrorsWithBatch
  /\ task' = [k \in Asks |-> IF task[k] = "run" THEN "cancelled" ELSE task[k]]
  /\ pc' = IF mode = "deep" THEN "crawl" ELSE "exit"
  /\ routed' = now
  /\ UNCHANGED <<now, mode, asked, attempt, deadline, worker, answered>>

\* The results are merged and ranked (which loses none), the rest is cancelled.
Conclude ==
  /\ Collected
  /\ mode = "fast" /\ attempt = 1 => Of(1, {"some"}) /= {}
  /\ results' = {<<attempt, p>> : p \in Of(attempt, {"some"})}
  /\ errors' = ErrorsWithBatch
  /\ task' = [k \in Asks |-> IF task[k] = "run" THEN "cancelled" ELSE task[k]]
  /\ pc' = IF mode = "deep" THEN "crawl" ELSE "exit"
  /\ routed' = now
  /\ UNCHANGED <<now, mode, asked, attempt, deadline, worker, answered>>

\* The deep crawl of the best results, which ends in its own time.
Crawled ==
  /\ pc = "crawl"
  /\ pc' = "exit"
  /\ routed' = now
  /\ UNCHANGED <<now, mode, asked, attempt, deadline, task, worker, results, errors, answered>>

\* MUTANT of Exit: a task left running is waited for as well.
ExitWhenAllDone ==
  /\ pc = "exit"
  /\ \A k \in Asks : worker[k] /= "run" /\ task[k] /= "cancelled"
  /\ pc' = "done"
  /\ answered' = now
  /\ UNCHANGED <<now, mode, asked, attempt, deadline, task, worker, results, errors, routed>>

\* shutdown_default_executor: asyncio.run returns when all the threads ended.
Exit ==
  /\ pc = "exit"
  /\ \A k \in Asks : worker[k] /= "run"
  /\ pc' = "done"
  /\ answered' = now
  /\ UNCHANGED <<now, mode, asked, attempt, deadline, task, worker, results, errors, routed>>

\* The clock runs with the request; the loop only waits: for a task, for the
\* crawl or for a thread.
Tick ==
  /\ now < Horizon
  /\ pc \in {"batch", "crawl", "exit"}
  /\ ~Collected
  /\ pc = "exit" => \E k \in Asks : worker[k] = "run"
  /\ now' = now + 1
  /\ UNCHANGED <<loopVars, task, worker>>

LoopStep == Retry \/ Conclude \/ Crawled \/ Exit

Next ==
  \/ \E m \in Modes, ps \in SUBSET Providers : Start(m, ps)
  \/ \E p \in Providers : Answer(p)
  \/ \E k \in Asks : WorkerEnds(k)
  \/ LoopStep \/ Tick

Spec == Init /\ [][Next]_vars

\* The loop runs, time passes, and a thread of the executor ends some time: what
\* it runs is Search.blend_search, which returns (SearchPipeline, SearchReturns).
FairSpec ==
  Spec /\ WF_vars(Tick) /\ WF_vars(LoopStep) /\ \A k \in Asks : WF_vars(WorkerEnds(k))

-----------------------------------------------------------------------------
(* Properties.                                                             *)

TypeOK ==
  /\ now \in Nat
  /\ pc \in {"idle", "batch", "crawl", "exit", "done"}
  /\ mode \in Modes
  /\ asked \subseteq Providers
  /\ attempt \in Attempts \union {0}
  /\ deadline \in Nat
  /\ task \in [Asks -> Answers \union {"none", "run", "cancelled"}]
  /\ worker \in [Asks -> {"none", "run", "done"}]
  /\ results \subseteq Asks
  /\ errors \subseteq Asks
  /\ routed \in Nat
  /\ answered \in Nat
  /\ \A k \in Asks : task[k] = "run" => pc = "batch" /\ k[1] = attempt

\* The payload has the results of every provider that answered in the batch it
\* was made from, no earlier batch had any, and each failure of any batch is
\* among the errors: only an empty answer or the deadline silences a provider.
EveryAnswerUsed ==
  pc \in {"exit", "done"} =>
    /\ \A k \in Asks : task[k] = "some" <=> k \in results
    /\ \A k \in Asks : task[k] \in {"error", "malformed"} <=> k \in errors

\* An empty answer in fast mode is given only after a second try.
EmptyOnlyAfterRetry ==
  pc \in {"exit", "done"} /\ mode = "fast" /\ results = {} => attempt = 2

\* What the comment of route calls the latency budget, with that of the retry.
LatencyBudget == FastBudget + (IF attempt = 2 THEN RetryBudget ELSE 0)

\* route keeps the budget, whatever its providers do: it waits for nobody longer.
RoutedInBudget == pc \in {"exit", "done"} /\ mode = "fast" => routed <= LatencyBudget

\* "Execute providers with a LATENCY BUDGET" (search_router.py): the request is
\* answered within it.
AnsweredInBudget == pc = "done" /\ mode = "fast" => answered <= LatencyBudget

\* The request is answered once it was made.
RequestAnswered == pc = "batch" ~> pc = "done"
=============================================================================
