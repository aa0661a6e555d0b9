------------------------ MODULE SearchRouter_proofs ------------------------
(***************************************************************************)
(* Proofs about SearchRouter, for any providers and any budgets: the       *)
(* payload leaves out no answer, route keeps its latency budget, only a    *)
(* second batch may come to nothing in fast mode, and the response is late *)
(* only for threads of providers that were cut off.                        *)
(***************************************************************************)
EXTENDS SearchRouter, TLAPS

Failed == {"error", "malformed"}

\* Tasks belong to the providers asked and the attempts made so far.
TaskInv ==
  /\ asked \subseteq Providers
  /\ task \in [Asks -> Answers \union {"none", "run", "cancelled"}]
  /\ attempt \in Attempts \union {0}
  /\ pc \in {"idle", "batch", "crawl", "exit", "done"}
  /\ pc = "idle" <=> attempt = 0
  /\ \A k \in Asks : task[k] /= "none" => k[1] <= attempt /\ k[2] \in asked

\* While a batch is waited for, errors has the failures of the batches before
\* and there was no result in them; then everything is in the payload.
AnswersInv ==
  /\ pc \in {"idle", "batch"} =>
       /\ results = {}
       /\ errors = {k \in Asks : k[1] < attempt /\ task[k] \in Failed}
       /\ \A k \in Asks : k[1] < attempt => task[k] /= "some"
  /\ pc \in {"crawl", "exit", "done"} =>
       /\ results = {k \in Asks : task[k] = "some"}
       /\ errors = {k \in Asks : task[k] \in Failed}

AInv == TaskInv /\ AnswersInv

\* An ask is a pair of an attempt and a provider.
LEMMA AsksArePairs ==
  \A k \in Asks : k = <<k[1], k[2]>> /\ k[1] \in {1, 2} /\ k[2] \in Providers
  BY DEF Asks, Attempts

\* Every attempt and provider make an ask.
LEMMA Pairs ==
  \A a \in {1, 2}, p \in Providers :
    <<a, p>> \in Asks /\ <<a, p>>[1] = a /\ <<a, p>>[2] = p
  BY DEF Asks, Attempts

\* What the batch that is collected adds to what was there before it.
LEMMA BatchFailures ==
  ASSUME AInv, pc = "batch"
  PROVE  ErrorsWithBatch = {k \in Asks : k[1] <= attempt /\ task[k] \in Failed}
<1>1. attempt \in {1, 2} /\ asked \subseteq Providers
  BY DEF AInv, TaskInv, Attempts
<1>2. ASSUME NEW k \in ErrorsWithBatch
      PROVE  k \in Asks /\ k[1] <= attempt /\ task[k] \in Failed
  <2>1. CASE k \in errors
    BY <1>1, <2>1, AsksArePairs DEF AInv, AnswersInv
  <2>2. CASE k \notin errors
    <3>1. PICK p \in asked : k = <<attempt, p>> /\ task[<<attempt, p>>] \in {"error", "malformed"}
      BY <1>2, <2>2 DEF ErrorsWithBatch, Of
    <3>2. QED
      BY <1>1, <3>1, Pairs DEF Failed
  <2>3. QED
    BY <2>1, <2>2
<1>3. ASSUME NEW k \in Asks, k[1] <= attempt, task[k] \in Failed
      PROVE  k \in ErrorsWithBatch
  <2>1. CASE k[1] < attempt
    BY <1>3, <2>1 DEF AInv, AnswersInv, ErrorsWithBatch
  <2>2. CASE k[1] = attempt
    <3>1. k = <<attempt, k[2]>> /\ k[2] \in asked
      BY <1>3, <2>2, AsksArePairs DEF AInv, TaskInv, Failed
    <3>2. QED
      BY <1>3, <3>1 DEF ErrorsWithBatch, Of, Failed
  <2>3. QED
    BY <1>1, <1>3, <2>1, <2>2, AsksArePairs
<1>4. QED
  BY <1>2, <1>3

\* What was collected is what the waited batches answered.
LEMMA AnswersInvariant == Spec => []AInv
<1>1. Init => AInv
  BY AsksArePairs DEF Init, AInv, TaskInv, AnswersInv, Attempts
<1>2. AInv /\ [Next]_vars => AInv'
  <2> SUFFICES ASSUME AInv, [Next]_vars
               PROVE  AInv'
    OBVIOUS
  <2>1. ASSUME NEW m \in Modes, NEW ps \in SUBSET Providers, Start(m, ps)
        PROVE  AInv'
    <3>1. \A k \in Asks : task[k] = "none"
      BY <2>1, AsksArePairs DEF Start, AInv, TaskInv
    <3>2. TaskInv'
      BY <2>1, <3>1, AsksArePairs DEF Start, Launch, AInv, TaskInv, Attempts
    <3>3. AnswersInv'
      BY <2>1, <3>1, AsksArePairs DEF Start, Launch, AInv, TaskInv, AnswersInv, Failed
    <3>4. QED
      BY <3>2, <3>3 DEF AInv
  <2>2. ASSUME NEW p \in Providers, Answer(p)
        PROVE  AInv'
    <3>1. attempt \in {1, 2} /\ <<attempt, p>> \in Asks /\ <<attempt, p>>[1] = attempt
      BY <2>2, Pairs DEF Answer, AInv, TaskInv, Attempts
    <3>2. PICK r \in Answers : task' = [task EXCEPT ![<<attempt, p>>] = r]
      BY <2>2 DEF Answer
    <3>3. \A k \in Asks : k[1] < attempt => task'[k] = task[k]
      BY <3>1, <3>2 DEF AInv, TaskInv
    <3>4. /\ pc = "batch" /\ p \in asked
          /\ UNCHANGED <<pc, asked, attempt, results, errors>>
      BY <2>2 DEF Answer, loopVars
    <3>5. TaskInv'
      BY <3>1, <3>2, <3>4, Pairs DEF AInv, TaskInv
    <3>6. AnswersInv'
      BY <3>3, <3>4 DEF AInv, AnswersInv
    <3>7. QED
      BY <3>5, <3>6 DEF AInv
  <2>3. CASE Retry
    <3>1. /\ pc = "batch" /\ attempt = 1 /\ attempt' = 2
          /\ UNCHANGED <<pc, asked, results>>
          /\ errors' = ErrorsWithBatch /\ asked \subseteq Providers
      BY <2>3 DEF Retry, Collected, Launch, AInv, TaskInv
    <3>2. \A k \in Asks :
            task'[k] = IF k[1] = 2 /\ k[2] \in asked THEN "run"
                       ELSE IF task[k] = "run" THEN "cancelled" ELSE task[k]
      BY <2>3 DEF Retry, Launch
    <3>3. \A k \in Asks : k[1] = 1 => task[k] /= "some"
      <4>1. \A p \in asked : task[<<1, p>>] /= "some"
        BY <2>3 DEF Retry, Of
      <4>2. QED
        BY <4>1, AsksArePairs DEF AInv, TaskInv
    <3>4. TaskInv'
      BY <2>3, <3>1, <3>2, AsksArePairs DEF Retry, Launch, AInv, TaskInv, Attempts
    <3>5. errors' = {k \in Asks : k[1] < 2 /\ task'[k] \in Failed}
      BY <3>1, <3>2, BatchFailures, AsksArePairs DEF Failed
    <3>6. AnswersInv'
      BY <3>1, <3>2, <3>3, <3>5, AsksArePairs DEF AInv, AnswersInv
    <3>7. QED
      BY <3>4, <3>6 DEF AInv
  <2>4. CASE Conclude
    <3>1. /\ pc = "batch" /\ pc' \in {"crawl", "exit"} /\ UNCHANGED <<asked, attempt>>
          /\ errors' = ErrorsWithBatch
          /\ results' = {<<attempt, p>> : p \in Of(attempt, {"some"})}
          /\ task' = [k \in Asks |-> IF task[k] = "run" THEN "cancelled" ELSE task[k]]
      BY <2>4 DEF Conclude, Collected
    <3>2. attempt \in {1, 2} /\ asked \subseteq Providers
      BY <3>1 DEF AInv, TaskInv, Attempts
    <3>3. TaskInv'
      BY <3>1, <3>2 DEF AInv, TaskInv
    <3>4. errors' = {k \in Asks : task'[k] \in Failed}
      BY <3>1, BatchFailures DEF AInv, TaskInv, Failed
    <3>5. results' = {k \in Asks : task'[k] = "some"}
      <4>1. ASSUME NEW k \in results'
            PROVE  k \in Asks /\ task'[k] = "some"
        <5>1. PICK p \in asked : k = <<attempt, p>> /\ task[<<attempt, p>>] = "some"
          BY <3>1, <4>1 DEF Of
        <5>2. QED
          BY <3>1, <3>2, <5>1, Pairs
      <4>2. ASSUME NEW k \in Asks, task'[k] = "some"
            PROVE  k \in results'
        <5>1. task[k] = "some" /\ k[1] = attempt /\ k[2] \in asked
          BY <3>1, <3>2, <4>2, AsksArePairs DEF AInv, TaskInv, AnswersInv
        <5>2. k = <<attempt, k[2]>>
          BY <5>1, AsksArePairs
        <5>3. QED
          BY <3>1, <5>1, <5>2 DEF Of
      <4>3. QED
        BY <4>1, <4>2
    <3>6. QED
      BY <3>1, <3>3, <3>4, <3>5 DEF AInv, AnswersInv
  <2>5. CASE Crawled \/ Exit
    BY <2>5 DEF Crawled, Exit, AInv, TaskInv, AnswersInv
  <2>6. CASE Tick \/ UNCHANGED vars \/ \E k \in Asks : WorkerEnds(k)
    BY <2>6 DEF Tick, WorkerEnds, vars, loopVars, AInv, TaskInv, AnswersInv
  <2>7. QED
    BY <2>1, <2>2, <2>3, <2>4, <2>5, <2>6 DEF Next, LoopStep
<1>3. QED
  BY <1>1, <1>2, PTL DEF Spec

(***************************************************************************)
(* The payload has the results of every provider that answered in time,    *)
(* and the failures of all the others that failed, in either attempt.      *)
(***************************************************************************)
THEOREM AnswersUsed == Spec => []EveryAnswerUsed
<1>1. AInv => EveryAnswerUsed
  BY DEF AInv, AnswersInv, EveryAnswerUsed, Failed
<1>2. QED
  BY <1>1, AnswersInvariant, PTL

-----------------------------------------------------------------------------
(* The latency budget.                                                     *)

\* The deadline of a batch is within the budget and the clock within it.
BudgetInv ==
  /\ now \in Nat /\ deadline \in Nat /\ routed \in Nat
  /\ pc = "idle" => now = 0
  /\ pc = "batch" => now <= deadline /\ attempt \in Attempts
  /\ pc /= "idle" /\ mode = "fast" => deadline <= LatencyBudget
  /\ pc = "crawl" => mode = "deep"
  /\ pc \in {"exit", "done"} /\ mode = "fast" => routed <= LatencyBudget

\* The budgets of the two attempts are the numbers the constants give.
LEMMA Budgets ==
  /\ RetryBudget \in Nat /\ \A m \in Modes : Budget(m) \in Nat
  /\ Budget("fast") = FastBudget /\ FastBudget \in Nat
  BY RouterAssumption DEF RetryBudget, Budget

(***************************************************************************)
(* route returns within its budget and that of the retry it made, however  *)
(* slow its providers are.                                                 *)
(***************************************************************************)
THEOREM BudgetKept == Spec => []RoutedInBudget
<1>1. Init => BudgetInv
  BY DEF Init, BudgetInv
<1>2. BudgetInv /\ [Next]_vars => BudgetInv'
  <2> SUFFICES ASSUME BudgetInv, [Next]_vars
               PROVE  BudgetInv'
    OBVIOUS
  <2> USE DEF BudgetInv, LatencyBudget, Attempts
  <2>1. ASSUME NEW m \in Modes, NEW ps \in SUBSET Providers, Start(m, ps)
        PROVE  BudgetInv'
    <3>1. now' = 0 /\ deadline' = Budget(m) /\ mode' = m /\ attempt' = 1 /\ pc' = "batch"
          /\ routed' = routed
      BY <2>1, Budgets DEF Start, Launch
    <3>2. QED
      BY <3>1, Budgets
  <2>2. CASE Retry
    <3>1. /\ now' = now /\ deadline' = now + RetryBudget /\ mode' = mode /\ attempt' = 2
          /\ pc' = "batch" /\ pc = "batch" /\ routed' = routed /\ mode = "fast" /\ attempt = 1
      BY <2>2 DEF Retry, Launch, Collected
    <3>2. QED
      BY <3>1, Budgets
  <2>3. CASE Conclude
    <3>1. /\ pc = "batch" /\ routed' = now /\ UNCHANGED <<now, mode, attempt, deadline>>
          /\ pc' = IF mode = "deep" THEN "crawl" ELSE "exit"
      BY <2>3 DEF Conclude, Collected
    <3>2. mode = "fast" => now <= LatencyBudget
      BY <3>1, Budgets
    <3>3. QED
      BY <3>1, <3>2
  <2>4. CASE Crawled
    BY <2>4 DEF Crawled
  <2>5. CASE Exit
    BY <2>5 DEF Exit
  <2>6. CASE Tick
    <3>1. /\ now' = now + 1 /\ UNCHANGED <<pc, mode, attempt, deadline, routed>>
          /\ pc /= "idle" /\ (pc = "batch" => now < deadline)
      BY <2>6 DEF Tick, Collected, loopVars
    <3>2. QED
      BY <3>1
  <2>7. ASSUME NEW p \in Providers, Answer(p)
        PROVE  BudgetInv'
    BY <2>7 DEF Answer, loopVars
  <2>8. CASE UNCHANGED vars \/ \E k \in Asks : WorkerEnds(k)
    BY <2>8 DEF WorkerEnds, vars, loopVars
  <2>9. QED
    BY <2>1, <2>2, <2>3, <2>4, <2>5, <2>6, <2>7, <2>8 DEF Next, LoopStep
<1>3. BudgetInv => RoutedInBudget
  BY DEF BudgetInv, RoutedInBudget
<1>4. QED
  BY <1>1, <1>2, <1>3, PTL DEF Spec

-----------------------------------------------------------------------------
(* Types and empty answers.                                                *)

\* The asks of the waited batch that came to one of the answers are asks.
LEMMA BatchAsks ==
  ASSUME AInv, pc = "batch", NEW R
  PROVE  /\ attempt \in {1, 2}
         /\ {<<attempt, p>> : p \in Of(attempt, R)} \subseteq Asks
<1>1. attempt \in {1, 2} /\ asked \subseteq Providers
  BY DEF AInv, TaskInv, Attempts
<1>2. QED
  BY <1>1, Pairs DEF Of

\* Every variable of a request keeps its type, and a task runs only in the batch
\* that is waited for: those of the first are cancelled before the second starts.
THEOREM TypeCorrect == Spec => []TypeOK
<1>1. Init => TypeOK
  BY DEF Init, TypeOK, Modes, Answers
<1>2. TypeOK /\ AInv /\ [Next]_vars => TypeOK'
  <2> SUFFICES ASSUME TypeOK, AInv, [Next]_vars
               PROVE  TypeOK'
    OBVIOUS
  <2>1. ASSUME NEW a \in Attempts, NEW ps \in SUBSET Providers, NEW b \in Nat, Launch(a, ps, b)
        PROVE  /\ attempt' \in Attempts /\ deadline' \in Nat
               /\ task' \in [Asks -> Answers \union {"none", "run", "cancelled"}]
               /\ worker' \in [Asks -> {"none", "run", "done"}]
               /\ \A k \in Asks : task'[k] = "run" => k[1] = attempt'
    BY <2>1 DEF Launch, TypeOK
  <2>2. ASSUME NEW m \in Modes, NEW ps \in SUBSET Providers, Start(m, ps)
        PROVE  TypeOK'
    <3>1. 1 \in Attempts /\ Budget(m) \in Nat
      BY Budgets DEF Attempts
    <3>2. Launch(1, ps, Budget(m)) /\ pc' = "batch" /\ mode' = m /\ asked' = ps
          /\ UNCHANGED <<now, results, errors, routed, answered>>
      BY <2>2 DEF Start
    <3>3. QED
      BY <2>1, <3>1, <3>2 DEF TypeOK
  <2>3. ASSUME NEW p \in Providers, Answer(p)
        PROVE  TypeOK'
    <3>1. PICK r \in Answers : task' = [task EXCEPT ![<<attempt, p>>] = r]
      BY <2>3 DEF Answer
    <3>2. \A k \in Asks : task'[k] = "run" => task[k] = "run"
      BY <3>1 DEF TypeOK, Answers
    <3>3. worker' \in [Asks -> {"none", "run", "done"}]
      BY <2>3 DEF Answer, TypeOK
    <3>4. UNCHANGED <<now, loopVars>>
      BY <2>3 DEF Answer
    <3>5. QED
      BY <3>1, <3>2, <3>3, <3>4 DEF TypeOK, loopVars
  <2>4. CASE Retry
    <3>1. 2 \in Attempts /\ RetryBudget \in Nat /\ asked \in SUBSET Providers
      BY Budgets DEF Attempts, TypeOK
    <3>2. Launch(2, asked, RetryBudget) /\ pc = "batch" /\ errors' = ErrorsWithBatch
          /\ UNCHANGED <<now, pc, mode, asked, results, routed, answered>>
      BY <2>4 DEF Retry, Collected
    <3>3. errors' \subseteq Asks
      BY <3>2, BatchFailures
    <3>4. QED
      BY <2>1, <3>1, <3>2, <3>3 DEF TypeOK
  <2>5. CASE Conclude
    <3>1. /\ pc = "batch" /\ pc' \in {"crawl", "exit"}
          /\ errors' = ErrorsWithBatch /\ routed' = now
          /\ results' = {<<attempt, p>> : p \in Of(attempt, {"some"})}
          /\ task' = [k \in Asks |-> IF task[k] = "run" THEN "cancelled" ELSE task[k]]
          /\ UNCHANGED <<now, mode, asked, attempt, deadline, worker, answered>>
      BY <2>5 DEF Conclude, Collected
    <3>2. errors' \subseteq Asks /\ results' \subseteq Asks
      BY <3>1, BatchFailures, BatchAsks
    <3>3. QED
      BY <3>1, <3>2 DEF TypeOK
  <2>6. CASE Crawled \/ Exit
    BY <2>6 DEF Crawled, Exit, TypeOK
  <2>7. CASE Tick \/ UNCHANGED vars
    BY <2>7 DEF Tick, TypeOK, vars, loopVars
  <2>8. ASSUME NEW k \in Asks, WorkerEnds(k)
        PROVE  TypeOK'
    BY <2>8 DEF WorkerEnds, TypeOK, loopVars
  <2>9. QED
    BY <2>2, <2>3, <2>4, <2>5, <2>6, <2>7, <2>8 DEF Next, LoopStep
<1>3. QED
  BY <1>1, <1>2, AnswersInvariant, PTL DEF Spec

\* Once the loop has its results, none of them in fast mode means two batches.
EmptyInv ==
  pc \in {"crawl", "exit", "done"} /\ mode = "fast" /\ results = {} => attempt = 2

(***************************************************************************)
(* An empty answer in fast mode was tried for twice, whatever the first    *)
(* batch came to: errors, the deadline or empty lists.                     *)
(***************************************************************************)
THEOREM EmptyIsRetried == Spec => []EmptyOnlyAfterRetry
<1>1. Init => EmptyInv
  BY DEF Init, EmptyInv
<1>2. EmptyInv /\ AInv /\ [Next]_vars => EmptyInv'
  <2> SUFFICES ASSUME EmptyInv, AInv, [Next]_vars
               PROVE  EmptyInv'
    OBVIOUS
  <2>1. CASE Conclude
    <3>1. /\ pc = "batch" /\ UNCHANGED <<mode, attempt>>
          /\ results' = {<<attempt, p>> : p \in Of(attempt, {"some"})}
          /\ mode = "fast" /\ attempt = 1 => Of(1, {"some"}) /= {}
      BY <2>1 DEF Conclude, Collected
    <3>2. attempt \in {1, 2}
      BY <3>1, BatchAsks
    <3>3. QED
      BY <3>1, <3>2 DEF EmptyInv
  <2>2. CASE Crawled \/ Exit
    BY <2>2 DEF Crawled, Exit, EmptyInv
  <2>3. CASE Retry \/ \E m \in Modes, ps \in SUBSET Providers : Start(m, ps)
    BY <2>3 DEF Retry, Start, Collected, EmptyInv
  <2>4. CASE \E p \in Providers : Answer(p)
    BY <2>4 DEF Answer, loopVars, EmptyInv
  <2>5. CASE Tick \/ UNCHANGED vars \/ \E k \in Asks : WorkerEnds(k)
    BY <2>5 DEF Tick, WorkerEnds, vars, loopVars, EmptyInv
  <2>6. QED
    BY <2>1, <2>2, <2>3, <2>4, <2>5 DEF Next, LoopStep
<1>3. EmptyInv => EmptyOnlyAfterRetry
  BY DEF EmptyInv, EmptyOnlyAfterRetry
<1>4. QED
  BY <1>1, <1>2, <1>3, AnswersInvariant, PTL DEF Spec

-----------------------------------------------------------------------------
(* Threads that outlive their tasks.                                       *)

\* A thread of the executor runs for a task that was begun and did not answer.
WorkerInv ==
  /\ worker \in [Asks -> {"none", "run", "done"}]
  /\ \A k \in Asks : worker[k] /= "none" => task[k] /= "none"
  /\ \A k \in Asks : worker[k] = "run" =>
       k[2] \in InExecutor /\ task[k] \in {"run", "cancelled"}

CutOff == {k \in Asks : k[2] \in InExecutor /\ task[k] = "cancelled"}

\* asyncio.run returns later than route did only for a thread of the executor
\* whose task was cancelled: without one the request is answered when route
\* returns (search_router.py, _run_provider_batch; app.py, api_search).
LateNeedsCutOff ==
  /\ pc = "exit" /\ now > routed => CutOff /= {}
  /\ pc = "done" /\ answered > routed => CutOff /= {}

LateInv == LateNeedsCutOff /\ (pc = "exit" => routed <= now)

LEMMA WorkersInvariant == Spec => []WorkerInv
<1>1. Init => WorkerInv
  BY DEF Init, WorkerInv
<1>2. ASSUME TypeOK, AInv, WorkerInv, [Next]_vars PROVE WorkerInv'
  <2>1. ASSUME NEW a \in Attempts, NEW ps \in SUBSET Providers, NEW b \in Nat, Launch(a, ps, b)
        PROVE  WorkerInv'
    BY <1>2, <2>1 DEF Launch, WorkerInv, TypeOK
  <2>2. CASE \E m \in Modes, ps \in SUBSET Providers : Start(m, ps)
    <3>1. PICK m \in Modes, ps \in SUBSET Providers : Start(m, ps)
      BY <2>2
    <3>2. 1 \in Attempts /\ Budget(m) \in Nat
      BY Budgets DEF Attempts
    <3>3. QED
      BY <2>1, <3>1, <3>2 DEF Start
  <2>3. CASE Retry
    <3>1. 2 \in Attempts /\ RetryBudget \in Nat /\ asked \in SUBSET Providers
      BY <1>2, Budgets DEF Attempts, TypeOK
    <3>2. QED
      BY <2>1, <2>3, <3>1 DEF Retry
  <2>4. ASSUME NEW p \in Providers, Answer(p)
        PROVE  WorkerInv'
    <3>1. PICK r \in Answers : task' = [task EXCEPT ![<<attempt, p>>] = r]
      BY <2>4 DEF Answer
    <3>2. /\ worker' = [worker EXCEPT ![<<attempt, p>>] = IF @ = "run" THEN "done" ELSE @]
          /\ r /= "none"
      BY <2>4, <3>1 DEF Answer, Answers
    <3>3. QED
      BY <1>2, <3>1, <3>2 DEF WorkerInv, TypeOK
  <2>5. CASE Conclude
    <3>1. /\ task' = [k \in Asks |-> IF task[k] = "run" THEN "cancelled" ELSE task[k]]
          /\ worker' = worker
      BY <2>5 DEF Conclude
    <3>2. QED
      BY <1>2, <3>1 DEF WorkerInv
  <2>6. CASE Crawled \/ Exit \/ Tick \/ UNCHANGED vars
    BY <1>2, <2>6 DEF Crawled, Exit, Tick, vars, WorkerInv
  <2>7. CASE \E k \in Asks : WorkerEnds(k)
    BY <1>2, <2>7 DEF WorkerEnds, WorkerInv
  <2>8. QED
    BY <1>2, <2>2, <2>3, <2>4, <2>5, <2>6, <2>7 DEF Next, LoopStep
<1>3. QED
  BY <1>1, <1>2, TypeCorrect, AnswersInvariant, PTL DEF Spec

\* Who still runs when the loop is left runs for a task that was cut off.
LEMMA WorkersAreCutOff ==
  ASSUME TypeOK, WorkerInv, pc /= "batch", NEW k \in Asks, worker[k] = "run"
  PROVE  k \in CutOff
  BY DEF TypeOK, WorkerInv, CutOff

(***************************************************************************)
(* The response leaves after route returned only if a task of a provider   *)
(* that works in a thread was cut off, by the deadline of a batch or by    *)
(* the retry.                                                              *)
(***************************************************************************)
THEOREM LateIsCutOff == Spec => []LateNeedsCutOff
<1>1. Init => LateInv
  BY DEF Init, LateInv, LateNeedsCutOff
<1>2. ASSUME TypeOK, WorkerInv, LateInv, [Next]_vars
      PROVE  LateInv'
  <2> USE <1>2 DEF LateInv
  <2>1. now \in Nat /\ routed \in Nat /\ answered \in Nat
    BY DEF TypeOK
  <2>2. CASE Conclude \/ Crawled
    <3>1. routed' = now /\ now' = now /\ pc' \in {"crawl", "exit"}
      BY <2>2 DEF Conclude, Crawled
    <3>2. QED
      BY <2>1, <3>1 DEF LateNeedsCutOff
  <2>3. CASE Exit
    BY <2>1, <2>3 DEF Exit, LateNeedsCutOff, CutOff
  <2>4. CASE Tick
    <3>1. now' = now + 1 /\ UNCHANGED <<pc, task, routed, answered>>
      BY <2>4 DEF Tick, loopVars
    <3>2. pc = "exit" => CutOff /= {}
      <4>1. SUFFICES ASSUME pc = "exit" PROVE CutOff /= {}
        OBVIOUS
      <4>2. PICK k \in Asks : worker[k] = "run"
        BY <2>4, <4>1 DEF Tick
      <4>3. QED
        BY <4>1, <4>2, WorkersAreCutOff
    <3>3. QED
      BY <2>1, <3>1, <3>2 DEF LateNeedsCutOff, CutOff
  <2>5. CASE Retry \/ \E m \in Modes, ps \in SUBSET Providers : Start(m, ps)
    BY <2>5 DEF Retry, Start, Collected, LateNeedsCutOff
  <2>6. CASE \E p \in Providers : Answer(p)
    BY <2>6 DEF Answer, loopVars, LateNeedsCutOff
  <2>7. CASE UNCHANGED vars \/ \E k \in Asks : WorkerEnds(k)
    BY <2>7 DEF WorkerEnds, vars, loopVars, LateNeedsCutOff, CutOff
  <2>8. QED
    BY <2>2, <2>3, <2>4, <2>5, <2>6, <2>7 DEF Next, LoopStep
<1>3. LateInv => LateNeedsCutOff
  BY DEF LateInv
<1>4. QED
  BY <1>1, <1>2, <1>3, TypeCorrect, WorkersInvariant, PTL DEF Spec

-----------------------------------------------------------------------------
(* The request ends.                                                       *)

\* asyncio.run waits for nobody but a thread whose task was cut off, which may
\* end by itself.
ExitWaits ==
  pc = "exit" => \/ \A k \in Asks : worker[k] /= "run"
                 \/ \E k \in CutOff : worker[k] = "run"

\* What the loop and a thread have before them.
LoopRank ==
  CASE pc = "idle"  -> 5
    [] pc = "batch" -> IF attempt = 1 THEN 4 ELSE 3
    [] pc = "crawl" -> 2
    [] pc = "exit"  -> 1
    [] pc = "done"  -> 0
WorkerRank(k) ==
  CASE worker[k] = "none" -> 2
    [] worker[k] = "run"  -> 1
    [] worker[k] = "done" -> 0

\* The loop gets further with each of its steps, and no thread runs again: a
\* request is retried once at the most.
RequestSpends ==
  /\ LoopRank' <= LoopRank /\ (LoopStep => LoopRank' < LoopRank)
  /\ \A k \in Asks : /\ WorkerRank(k)' <= WorkerRank(k)
                     /\ WorkerEnds(k) => WorkerRank(k)' < WorkerRank(k)

\* The attempt that begins has no threads yet.
LEMMA LaunchSpends ==
  ASSUME TypeOK, AInv, WorkerInv, NEW a \in Attempts, a > attempt,
         NEW ps \in SUBSET Providers, NEW b \in Nat, Launch(a, ps, b), NEW k \in Asks
  PROVE  WorkerRank(k)' <= WorkerRank(k)
<1>1. CASE k[1] = a /\ k[2] \in ps \intersect InExecutor
  <2>1. attempt \in {0, 1, 2} /\ a \in {1, 2}
    BY DEF TypeOK, Attempts
  <2>2. task[k] = "none"
    BY <1>1, <2>1 DEF AInv, TaskInv
  <2>3. worker[k] = "none" /\ worker'[k] = "run"
    BY <1>1, <2>2 DEF WorkerInv, Launch
  <2>4. QED
    BY <2>3 DEF WorkerRank
<1>2. CASE ~(k[1] = a /\ k[2] \in ps \intersect InExecutor)
  <2>1. worker'[k] = worker[k] /\ worker[k] \in {"none", "run", "done"}
    BY <1>2 DEF Launch, WorkerInv
  <2>2. QED
    BY <2>1 DEF WorkerRank
<1>3. QED
  BY <1>1, <1>2

(***************************************************************************)
(* A request whose batches have ended returns, or waits for a thread that  *)
(* was cut off and no longer for its task.                                 *)
(***************************************************************************)
THEOREM ExitIsNotStuck == Spec => []ExitWaits
<1>1. TypeOK /\ WorkerInv => ExitWaits
  BY WorkersAreCutOff DEF ExitWaits
<1>2. QED
  BY <1>1, TypeCorrect, WorkersInvariant, PTL

(***************************************************************************)
(* The steps of a request run out: at most five of the loop, and one end   *)
(* for each thread of each attempt.                                        *)
(***************************************************************************)
THEOREM RequestsAdvance == Spec => [][RequestSpends]_vars
<1>1. ASSUME TypeOK, AInv, WorkerInv, Next PROVE RequestSpends
  <2> USE <1>1
  <2>1. ASSUME worker' = worker, NEW k \in Asks
        PROVE  WorkerRank(k)' <= WorkerRank(k)
    BY <2>1 DEF WorkerRank, WorkerInv
  <2>2. ASSUME LoopStep
        PROVE  /\ LoopRank' < LoopRank /\ LoopRank' <= LoopRank
               /\ \A k \in Asks : WorkerRank(k)' <= WorkerRank(k)
    <3>1. CASE Retry
      <4>1. /\ pc = "batch" /\ pc' = "batch" /\ attempt = 1 /\ attempt' = 2
            /\ Launch(2, asked, RetryBudget)
        BY <3>1 DEF Retry, Collected, Launch
      <4>2. 2 \in Attempts /\ RetryBudget \in Nat /\ asked \in SUBSET Providers /\ 2 > attempt
        BY <4>1, Budgets DEF Attempts, TypeOK
      <4>3. QED
        BY <4>1, <4>2, LaunchSpends DEF LoopRank
    <3>2. CASE Conclude \/ Crawled \/ Exit
      <4>1. /\ worker' = worker
            /\ \/ pc = "batch" /\ pc' \in {"crawl", "exit"}
               \/ pc = "crawl" /\ pc' = "exit"
               \/ pc = "exit" /\ pc' = "done"
        BY <3>2 DEF Conclude, Crawled, Exit, Collected
      <4>2. LoopRank' < LoopRank /\ LoopRank' <= LoopRank
        BY <4>1 DEF LoopRank
      <4>3. QED
        BY <2>1, <4>1, <4>2
    <3>3. QED
      BY <2>2, <3>1, <3>2 DEF LoopStep
  <2>3. ASSUME NEW m \in Modes, NEW ps \in SUBSET Providers, Start(m, ps)
        PROVE  /\ LoopRank' <= LoopRank
               /\ \A k \in Asks : WorkerRank(k)' <= WorkerRank(k)
    <3>1. pc = "idle" /\ pc' = "batch" /\ Launch(1, ps, Budget(m)) /\ attempt' = 1
      BY <2>3 DEF Start, Launch
    <3>2. attempt = 0
      BY <3>1 DEF AInv, TaskInv
    <3>3. 1 \in Attempts /\ Budget(m) \in Nat /\ 1 > attempt
      BY <3>2, Budgets DEF Attempts
    <3>4. QED
      BY <3>1, <3>3, LaunchSpends DEF LoopRank
  <2>4. ASSUME UNCHANGED <<pc, attempt>> PROVE LoopRank' <= LoopRank
    BY <2>4 DEF LoopRank, TypeOK
  <2>5. ASSUME NEW x \in Asks, worker[x] = "run", worker' = [worker EXCEPT ![x] = "done"]
        PROVE  /\ \A k \in Asks : WorkerRank(k)' <= WorkerRank(k)
               /\ WorkerRank(x)' < WorkerRank(x)
    BY <2>5 DEF WorkerRank, WorkerInv
  <2>6. ASSUME NEW p \in Providers, Answer(p)
        PROVE  /\ LoopRank' <= LoopRank
               /\ \A k \in Asks : WorkerRank(k)' <= WorkerRank(k)
    <3>1. attempt \in {1, 2} /\ <<attempt, p>> \in Asks
      BY <2>6, Pairs DEF Answer, AInv, TaskInv, Attempts
    <3>2. \/ worker' = worker
          \/ /\ worker[<<attempt, p>>] = "run"
             /\ worker' = [worker EXCEPT ![<<attempt, p>>] = "done"]
      BY <2>6, <3>1 DEF Answer, WorkerInv
    <3>3. LoopRank' <= LoopRank
      BY <2>4, <2>6 DEF Answer, loopVars
    <3>4. QED
      BY <2>1, <2>5, <3>1, <3>2, <3>3
  <2>7. ASSUME NEW x \in Asks, WorkerEnds(x)
        PROVE  /\ LoopRank' <= LoopRank
               /\ \A k \in Asks : WorkerRank(k)' <= WorkerRank(k)
               /\ WorkerRank(x)' < WorkerRank(x)
    BY <2>4, <2>5, <2>7 DEF WorkerEnds, loopVars
  <2>8. \A k \in Asks : WorkerEnds(k) => WorkerRank(k)' < WorkerRank(k)
    BY <2>7
  <2>9. LoopStep => LoopRank' < LoopRank
    BY <2>2
  <2>10. LoopRank' <= LoopRank /\ \A k \in Asks : WorkerRank(k)' <= WorkerRank(k)
    <3>1. CASE Tick
      BY <2>1, <2>4, <3>1 DEF Tick, loopVars
    <3>2. QED
      BY <2>2, <2>3, <2>6, <2>7, <3>1 DEF Next
  <2>11. QED
    BY <2>8, <2>9, <2>10 DEF RequestSpends
<1>2. QED
  BY <1>1, TypeCorrect, AnswersInvariant, WorkersInvariant, PTL DEF Spec
=============================================================================
