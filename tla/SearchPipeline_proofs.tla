----------------------- MODULE SearchPipeline_proofs -----------------------
(***************************************************************************)
(* Proofs about SearchPipeline, for any number of searches and engines,    *)
(* any timeouts and any clock bound.                                       *)
(*                                                                         *)
(* The invariants say, from the thread up: what reply an engine thread     *)
(* carries at each point (ReplyInv); that threads run only for engines the *)
(* search asked (AskedInv); that the join loop loses none of them          *)
(* (JoinInv), which is what the contract of a search rests on; that the    *)
(* pool is closed only after that loop (ClosedInv); and hence that only an *)
(* engine that was given up can insert after the scoring began (LateInv),  *)
(* while the results of the others are all in the pool (KeptInv).          *)
(*                                                                         *)
(* These also give the refinement of SearchContract.  Two more invariants  *)
(* stand by themselves: the clock is past zero, so that a ban is never     *)
(* taken for none (ClockRuns), and the counters balance (BalanceInv).      *)
(*                                                                         *)
(* Of the return of a search, the proofs have all but the fairness: the    *)
(* steps of a search run out, and it can always take one unless it waits   *)
(* for a thread that lives, before its deadline.                           *)
(***************************************************************************)
EXTENDS SearchPipeline, FiniteSetTheorems, TLAPS

-----------------------------------------------------------------------------
(* Lemmas about the operators.                                             *)

\* The assumption on the constants, as a fact that proofs can cite.
LEMMA ConstantTypes ==
  /\ QueryLimits \subseteq Nat \union {None}
  /\ EngineTimeout \in [Engines -> Nat]
  /\ NetworkOf \in [Engines -> Networks]
  BY TimesAssumption, NetworksAssumption

\* Whatever timeouts the engines and the query ask for, the limit is a number.
LEMMA ActualTimeoutType ==
  ASSUME NEW d \in Nat, NEW q \in Nat \union {None}
  PROVE  ActualTimeout(d, q) \in Nat
<1>1. MaxRequestTimeout \in Nat \union {None}
  BY TimesAssumption
<1>2. QED
  BY <1>1, TimesAssumption DEF ActualTimeout, Lesser

\* Every reason that suspends an engine suspends it for a number of ticks.
LEMMA BanTimeType == \A r \in Suspending : BanTime(r) \in Nat
  BY TimesAssumption DEF BanTime, Lesser, Suspending

\* A report added to the unresponsive set leaves a set of reports.
LEMMA WithEntryType ==
  ASSUME TypeOK, NEW s \in Searches, NEW e \in Engines,
         NEW m \in Messages, NEW b \in BOOLEAN
  PROVE  WithEntry(s, e, m, b) \in [Searches -> SUBSET Entries]
<1>1. [engine |-> e, error |-> m, suspended |-> b] \in Entries
  BY DEF Entries
<1>2. QED
  BY <1>1 DEF TypeOK, WithEntry

\* Reports are only added, and the one that was asked for is there.
LEMMA WithEntryGrows ==
  ASSUME TypeOK, NEW s \in Searches, NEW e \in Engines,
         NEW m \in Messages, NEW b \in BOOLEAN
  PROVE  /\ \A s1 \in Searches : unresp[s1] \subseteq WithEntry(s, e, m, b)[s1]
         /\ e \in ShowsErrors =>
              [engine |-> e, error |-> m, suspended |-> b] \in WithEntry(s, e, m, b)[s]
  BY DEF TypeOK, WithEntry

-----------------------------------------------------------------------------
(* Type correctness.                                                       *)

\* cur names an engine while one is being handled.
CurInv ==
  \A s \in Searches : spc[s] \in {"skip", "wait", "giveup"} => cur[s] \in Engines

\* The reply a thread carries fits the place it is at.
ReplyInv ==
  \A t \in Threads :
    /\ tpc[t] \in {"none", "run"} => reply[t] = "none"
    /\ tpc[t] = "check" => reply[t] \in {"results", "nothing"}
    /\ tpc[t] \in {"extend", "merge", "time", "timed"} => reply[t] = "results"
    /\ tpc[t] \in {"report", "reporting"} => reply[t] \in Failures \union {"late"}

TInv == TypeOK /\ CurInv /\ ReplyInv

(***************************************************************************)
(* Every variable keeps its type: the timeouts stay numbers although the   *)
(* limits may be None, and no thread reports a reply it never had.         *)
(***************************************************************************)
THEOREM TypeCorrect == Spec => [](TypeOK /\ CurInv /\ ReplyInv)
<1> USE DEF SearchMoves, ThreadMoves, SearchPcs, ThreadPcs, Replies, Messages,
        Failures, Suspending, TypeOK, CurInv, ReplyInv, vars, outside, shared,
        clockVars, banVars, metricVars, searchVars, planVars, joinVars, poolVars,
        scoreVars, threadVars
<1>1. Init => TInv
  BY EnginesAssumption DEF Init, TInv
<1>2. TInv /\ [Next]_vars => TInv'
  <2> SUFFICES ASSUME TInv, [Next]_vars
               PROVE  TInv'
    OBVIOUS
  <2> USE DEF TInv
  <2>1. CASE Tick
    BY <2>1 DEF Tick
  <2>2. ASSUME NEW e \in Engines, Register(e)
        PROVE  TInv'
    BY <2>2 DEF Register
  <2>3. ASSUME NEW s \in Searches, SearchStep(s)
        PROVE  TInv'
    <3>1. CASE Begin(s)
      BY <3>1, ConstantTypes DEF Begin
    <3>2. CASE BeginWithoutEngines(s)
      BY <3>2 DEF BeginWithoutEngines
    <3>3. CASE ReportSuspended(s)
      BY <3>3, WithEntryType, ConstantTypes DEF ReportSuspended
    <3>4. CASE SetTimeout(s)
      BY <3>4, ActualTimeoutType DEF SetTimeout
    <3>5. CASE Enumerate(s)
      BY <3>5 DEF Enumerate
    <3>6. CASE Joined(s)
      BY <3>6 DEF Joined
    <3>7. CASE StillAlive(s)
      BY <3>7 DEF StillAlive
    <3>8. CASE GiveUp(s)
      BY <3>8, WithEntryType DEF GiveUp
    <3>9. CASE EndJoin(s)
      BY <3>9 DEF EndJoin
    <3>10. CASE Close(s)
      BY <3>10 DEF Close
    <3>11. CASE Iterate(s)
      BY <3>11 DEF Iterate
    <3>12. CASE Finish(s)
      BY <3>12 DEF Finish
    <3>13. CASE Crash(s)
      BY <3>13 DEF Crash
    <3>14. ASSUME NEW e \in Engines, PassOver(s, e)
          PROVE  TInv'
      BY <3>14 DEF PassOver
    <3>15. ASSUME NEW e \in Engines, FindSuspended(s, e)
          PROVE  TInv'
      BY <3>15 DEF FindSuspended
    <3>16. ASSUME NEW e \in Engines, Prepare(s, e)
          PROVE  TInv'
      <4>1. EngineTimeout[e] \in Nat /\ limit[s] \in Nat /\ Greater(limit[s], EngineTimeout[e]) \in Nat
        BY ConstantTypes DEF Greater
      <4>2. limit' \in [Searches -> Nat] /\ sent' \in [Engines -> Nat]
        BY <3>16, <4>1 DEF Prepare
      <4>3. requests' \in [Searches -> SUBSET Engines] /\ todo' \in [Searches -> SUBSET Engines]
        BY <3>16 DEF Prepare
      <4>4. TypeOK'
        BY <3>16, <4>2, <4>3 DEF Prepare
      <4>5. QED
        BY <3>16, <4>4 DEF Prepare
    <3>17. ASSUME NEW e \in Engines, StartThread(s, e)
          PROVE  TInv'
      BY <3>17 DEF StartThread
    <3>18. ASSUME NEW e \in Engines, Join(s, e)
          PROVE  TInv'
      BY <3>18 DEF Join, Remaining, Greater
    <3>19. ASSUME NEW e \in Engines, Score(s, e)
          PROVE  TInv'
      BY <3>19 DEF Score
    <3>20. QED
      BY <2>3, <3>1, <3>2, <3>3, <3>4, <3>5, <3>6, <3>7, <3>8, <3>9, <3>10,
         <3>11, <3>12, <3>13, <3>14, <3>15, <3>16, <3>17, <3>18, <3>19 DEF SearchStep
  <2>4. ASSUME NEW s \in Searches, NEW e \in Engines, ThreadStep(s, e)
        PROVE  TInv'
    <3> <<s, e>> \in Threads
      BY DEF Threads
    <3>1. CASE Reply(s, e)
      BY <3>1 DEF Reply, CanReply, Handler
    <3>2. CASE CheckInTime(s, e)
      <4>1. CASE gaveUp[<<s, e>>]
        <5>1. /\ reply' = [reply EXCEPT ![<<s, e>>] = "late"]
              /\ tpc' = [tpc EXCEPT ![<<s, e>>] = "report"]
              /\ UNCHANGED <<shared, searchVars, poolVars, gaveUp>>
          BY <3>2, <4>1 DEF CheckInTime
        <5>2. TypeOK' /\ CurInv'
          BY <5>1
        <5>3. ReplyInv'
          BY <5>1
        <5>4. QED
          BY <5>2, <5>3
      <4>2. CASE ~gaveUp[<<s, e>>] /\ reply[<<s, e>>] = "results"
        BY <3>2, <4>2 DEF CheckInTime
      <4>3. CASE ~gaveUp[<<s, e>>] /\ reply[<<s, e>>] /= "results"
        BY <3>2, <4>3 DEF CheckInTime
      <4>4. QED
        BY <4>1, <4>2, <4>3
    <3>3. CASE Extend(s, e)
      BY <3>3 DEF Extend
    <3>4. CASE Merge(s, e)
      BY <3>4 DEF Merge
    <3>5. CASE MergeFails(s, e)
      <4>1. results' \in [Searches -> SUBSET Engines]
        <5>1. [results EXCEPT ![s] = @ \union {e}] \in [Searches -> SUBSET Engines]
          OBVIOUS
        <5>2. results' \in {results, [results EXCEPT ![s] = @ \union {e}]}
          BY <3>5 DEF MergeFails
        <5>3. QED
          BY <5>1, <5>2
      <4>2. TypeOK'
        BY <3>5, <4>1 DEF MergeFails
      <4>3. QED
        BY <3>5, <4>2 DEF MergeFails
    <3>6. CASE TestTiming(s, e)
      BY <3>6 DEF TestTiming
    <3>7. CASE AddTiming(s, e)
      BY <3>7 DEF AddTiming
    <3>8. CASE TestReport(s, e)
      BY <3>8 DEF TestReport
    <3>9. CASE AddReport(s, e)
      BY <3>9, WithEntryType DEF AddReport, Message
    <3>10. CASE Resume(s, e)
      BY <3>10, ConstantTypes DEF Resume
    <3>11. CASE Suspend(s, e)
      <4>1. NetworkOf[e] \in Networks
        BY ConstantTypes
      <4>2. banUntil' \in [Networks -> Nat] /\ banReason' \in [Networks -> Suspending \union {"none"}]
        <5>1. CASE reply[<<s, e>>] \in Suspending
          <6>1. now + BanTime(reply[<<s, e>>]) \in Nat
            BY <5>1, BanTimeType
          <6>2. QED
            BY <3>11, <4>1, <5>1, <6>1 DEF Suspend
        <5>2. CASE reply[<<s, e>>] \notin Suspending
          BY <3>11, <5>2 DEF Suspend
        <5>3. QED
          BY <5>1, <5>2
      <4>3. errors' \in [Engines -> Nat] /\ tpc' \in [Threads -> ThreadPcs]
        BY <3>11 DEF Suspend
      <4>4. TypeOK'
        BY <3>11, <4>2, <4>3 DEF Suspend
      <4>5. QED
        BY <3>11, <4>4 DEF Suspend
    <3>12. QED
      BY <2>4, <3>1, <3>2, <3>3, <3>4, <3>5, <3>6, <3>7, <3>8, <3>9, <3>10,
         <3>11 DEF ThreadStep
  <2>5. CASE UNCHANGED vars
    BY <2>5
  <2>6. QED
    BY <2>1, <2>2, <2>3, <2>4, <2>5 DEF Next
<1>3. QED
  BY <1>1, <1>2, PTL DEF Spec, TInv

-----------------------------------------------------------------------------
(* What the steps leave alone.                                             *)

\* A thread moves itself only, and never out of "none" or "dead".
LEMMA ThreadStepFrame ==
  ASSUME TInv, NEW s \in Searches, NEW e \in Engines, ThreadStep(s, e)
  PROVE  /\ UNCHANGED <<searchVars, scoreVars, gaveUp, clockVars>>
         /\ tpc[<<s, e>>] \notin {"none", "dead"}
         /\ tpc'[<<s, e>>] \in ThreadPcs \ {"none", "run"}
         /\ \A t \in Threads : t /= <<s, e>> => tpc'[t] = tpc[t] /\ reply'[t] = reply[t]
<1> USE DEF TInv, TypeOK, ReplyInv, ThreadMoves, shared, poolVars, scoreVars, Failures,
        Suspending, ThreadPcs
<1> <<s, e>> \in Threads
  BY DEF Threads
<1>1. CASE Reply(s, e)
  BY <1>1 DEF Reply, Handler
<1>2. CASE CheckInTime(s, e)
  <2>1. CASE gaveUp[<<s, e>>]
    BY <1>2, <2>1 DEF CheckInTime
  <2>2. CASE ~gaveUp[<<s, e>>]
    BY <1>2, <2>2 DEF CheckInTime
  <2>3. QED
    BY <2>1, <2>2
<1>3. CASE Extend(s, e) \/ Merge(s, e) \/ MergeFails(s, e)
  BY <1>3 DEF Extend, Merge, MergeFails
<1>4. CASE TestTiming(s, e) \/ AddTiming(s, e) \/ TestReport(s, e) \/ AddReport(s, e)
  BY <1>4 DEF TestTiming, AddTiming, TestReport, AddReport
<1>5. CASE Resume(s, e)
  BY <1>5 DEF Resume
<1>6. CASE Suspend(s, e)
  BY <1>6 DEF Suspend
<1>7. QED
  BY <1>1, <1>2, <1>3, <1>4, <1>5, <1>6 DEF ThreadStep

\* What a step of the thread of search s does at most: it moves that search,
\* starts its threads, and gives up the one it waits for.
SearchFrame(s) ==
  /\ UNCHANGED <<clockVars, banVars, reply, results, timings>>
  /\ \A s1 \in Searches \ {s} :
       /\ spc'[s1] = spc[s1] /\ cur'[s1] = cur[s1] /\ joining'[s1] = joining[s1]
       /\ requests'[s1] = requests[s1] /\ start'[s1] = start[s1]
       /\ limit'[s1] = limit[s1] /\ wake'[s1] = wake[s1]
       /\ closed'[s1] = closed[s1] /\ counted'[s1] = counted[s1]
       /\ scored'[s1] = scored[s1]
  /\ spc'[s] /= "idle" /\ requests[s] \subseteq requests'[s]
  /\ spc'[s] \in {"filter", "skip"} => spc[s] \in {"idle", "filter", "skip"}
  /\ \A s1 \in Searches : unresp[s1] \subseteq unresp'[s1]
  /\ \A t \in Threads :
       \/ tpc'[t] = tpc[t]
       \/ /\ tpc[t] = "none" /\ tpc'[t] = "run"
          /\ t[1] = s /\ spc[s] = "send" /\ t[2] \in requests[s]
  /\ \A t \in Threads :
       gaveUp'[t] = gaveUp[t] \/ (gaveUp'[t] /\ t = <<s, cur[s]>> /\ spc[s] = "giveup")

\* A step of a search moves that search alone, starts threads from send only, gives up
\* the one it waits for, and takes back no request and no report.
LEMMA SearchStepFrame ==
  ASSUME TInv, NEW s \in Searches, SearchStep(s)
  PROVE  SearchFrame(s)
<1> USE DEF SearchFrame, TInv, TypeOK, SearchMoves, outside, shared, clockVars, banVars,
        metricVars, searchVars, planVars, joinVars, poolVars, scoreVars, threadVars
<1>1. CASE Begin(s) \/ BeginWithoutEngines(s)
  BY <1>1 DEF Begin, BeginWithoutEngines
<1>2. ASSUME NEW e \in Engines, PassOver(s, e) \/ FindSuspended(s, e) \/ Prepare(s, e)
      PROVE  SearchFrame(s)
  BY <1>2 DEF PassOver, FindSuspended, Prepare
<1>3. CASE ReportSuspended(s)
  <2>1. cur[s] \in Engines /\ banReason[NetworkOf[cur[s]]] \in Messages
    BY <1>3, ConstantTypes DEF ReportSuspended, CurInv, Messages, Failures
  <2>2. \A s1 \in Searches : unresp[s1] \subseteq unresp'[s1]
    BY <1>3, <2>1, WithEntryGrows DEF ReportSuspended
  <2>3. QED
    BY <1>3, <2>2 DEF ReportSuspended
<1>4. CASE SetTimeout(s) \/ Enumerate(s)
  BY <1>4 DEF SetTimeout, Enumerate
<1>5. ASSUME NEW e \in Engines, StartThread(s, e)
      PROVE  SearchFrame(s)
  <2>1. <<s, e>> \in Threads /\ <<s, e>>[1] = s /\ <<s, e>>[2] = e
    BY DEF Threads
  <2>2. QED
    BY <1>5, <2>1 DEF StartThread, ThreadMoves
<1>6. ASSUME NEW e \in Engines, Join(s, e) \/ Score(s, e)
      PROVE  SearchFrame(s)
  BY <1>6 DEF Join, Score
<1>7. CASE Joined(s) \/ StillAlive(s) \/ EndJoin(s)
  BY <1>7 DEF Joined, StillAlive, EndJoin
<1>8. CASE GiveUp(s)
  <2>1. cur[s] \in Engines /\ <<s, cur[s]>> \in Threads
    BY <1>8 DEF GiveUp, CurInv, Threads
  <2>2. \A s1 \in Searches : unresp[s1] \subseteq unresp'[s1]
    BY <1>8, <2>1, WithEntryGrows DEF GiveUp, Messages
  <2>3. QED
    BY <1>8, <2>1, <2>2 DEF GiveUp
<1>9. CASE Close(s) \/ Iterate(s) \/ Finish(s) \/ Crash(s)
  BY <1>9 DEF Close, Iterate, Finish, Crash
<1>10. QED
  BY <1>1, <1>2, <1>3, <1>4, <1>5, <1>6, <1>7, <1>8, <1>9 DEF SearchStep

\* The same for the thread of an engine.
LEMMA ThreadStepReports ==
  ASSUME TInv, NEW s \in Searches, NEW e \in Engines, ThreadStep(s, e)
  PROVE  \A s1 \in Searches : unresp[s1] \subseteq unresp'[s1]
<1> USE DEF TInv, shared, poolVars
<1>1. CASE AddReport(s, e)
  <2>1. Message(reply[<<s, e>>]) \in Messages
    BY <1>1 DEF AddReport, ThreadMoves, ReplyInv, Message, Messages, Threads
  <2>2. QED
    BY <1>1, <2>1, WithEntryGrows DEF AddReport
<1>2. CASE ~AddReport(s, e)
  BY <1>2 DEF ThreadStep, Reply, CheckInTime, Extend, Merge, MergeFails, TestTiming,
     AddTiming, TestReport, Resume, Suspend
<1>3. QED
  BY <1>1, <1>2

-----------------------------------------------------------------------------
(* The join loop loses no engine.                                          *)

Accounted(s, e) ==
  \/ tpc[<<s, e>>] = "dead"
  \/ /\ gaveUp[<<s, e>>]
     /\ e \in ShowsErrors =>
          [engine |-> e, error |-> "timeout", suspended |-> FALSE] \in unresp[s]

\* Threads run only for engines their search asked, after it was planned.
AskedOK(s) ==
  /\ spc[s] = "idle" => requests[s] = {}
  /\ \A e \in Engines : tpc[<<s, e>>] /= "none" =>
       e \in requests[s] /\ spc[s] \notin {"idle", "filter", "skip"}
AskedInv == \A s \in Searches : AskedOK(s)

\* An engine is accounted for, still in the snapshot, or being waited for.
JoinOK(s) ==
  /\ spc[s] \in {"join", "wait", "giveup"} =>
       \A e \in requests[s] :
         \/ Accounted(s, e)
         \/ e \in joining[s]
         \/ spc[s] \in {"wait", "giveup"} /\ cur[s] = e
  /\ Collected(s) => \A e \in requests[s] : Accounted(s, e)
JoinInv == \A s \in Searches : JoinOK(s)

AInv == TInv /\ AskedInv
JInv == AInv /\ JoinInv

\* Every reachable state is well typed (the same theorem, by its short name).
THEOREM TypeInvariant == Spec => []TInv
  BY TypeCorrect, PTL DEF TInv

\* Threads run only for the engines that their search asked.
LEMMA AskedInvariant == Spec => []AInv
<1> USE DEF AInv, AskedInv, AskedOK
<1>1. Init => AskedInv
  BY DEF Init, Threads
<1>2. AInv /\ TInv' /\ [Next]_vars => AInv'
  <2> SUFFICES ASSUME AInv, TInv', [Next]_vars
               PROVE  AskedInv'
    OBVIOUS
  <2> USE DEF clockVars, banVars, searchVars, planVars, joinVars, poolVars, scoreVars,
          threadVars, metricVars, shared, outside
  <2>1. CASE Tick \/ (\E e \in Engines : Register(e)) \/ UNCHANGED vars
    BY <2>1 DEF Tick, Register, vars
  <2>2. ASSUME NEW s \in Searches, SearchStep(s)
        PROVE  AskedInv'
    <3>1. SearchFrame(s)
      BY <2>2, SearchStepFrame
    <3>2. ASSUME NEW s1 \in Searches \ {s}
          PROVE  AskedOK(s1)'
      BY <3>1, <3>2 DEF SearchFrame, Threads
    <3>5. \A e \in Engines : tpc'[<<s, e>>] /= "none" =>
            e \in requests'[s] /\ spc'[s] \notin {"idle", "filter", "skip"}
      BY <3>1 DEF SearchFrame, Threads
    <3>6. QED
      BY <3>1, <3>2, <3>5 DEF SearchFrame
  <2>3. ASSUME NEW s \in Searches, NEW e \in Engines, ThreadStep(s, e)
        PROVE  AskedInv'
    <3>1. /\ UNCHANGED <<spc, requests>>
          /\ tpc[<<s, e>>] /= "none"
          /\ \A t \in Threads : t /= <<s, e>> => tpc'[t] = tpc[t]
      BY <2>3, ThreadStepFrame
    <3>2. QED
      BY <3>1 DEF Threads
  <2>4. QED
    BY <2>1, <2>2, <2>3 DEF Next
<1>3. QED
  BY <1>1, <1>2, TypeInvariant, PTL DEF Spec

\* What is accounted for stays so.
LEMMA AccountedStays ==
  ASSUME TInv, [Next]_vars, NEW s \in Searches, NEW e \in Engines, Accounted(s, e)
  PROVE  Accounted(s, e)'
<1> USE DEF Accounted
<1> <<s, e>> \in Threads
  BY DEF Threads
<1>1. CASE Tick \/ (\E e1 \in Engines : Register(e1)) \/ UNCHANGED vars
  BY <1>1 DEF Tick, Register, vars, outside, poolVars, threadVars
<1>2. ASSUME NEW s1 \in Searches, SearchStep(s1)
      PROVE  Accounted(s, e)'
  BY <1>2, SearchStepFrame DEF SearchFrame
<1>3. ASSUME NEW s1 \in Searches, NEW e1 \in Engines, ThreadStep(s1, e1)
      PROVE  Accounted(s, e)'
  <2>1. /\ UNCHANGED gaveUp
        /\ unresp[s] \subseteq unresp'[s]
        /\ tpc[<<s, e>>] = "dead" => tpc'[<<s, e>>] = "dead"
    BY <1>3, ThreadStepFrame, ThreadStepReports
  <2>2. QED
    BY <2>1
<1>4. QED
  BY <1>1, <1>2, <1>3 DEF Next

\* Every engine asked is accounted for, still to be joined, or being waited for.
LEMMA JoinInvariant == Spec => []JInv
<1> USE DEF JInv, JoinInv, JoinOK, Collected
<1>1. Init => JoinInv
  BY DEF Init
<1>2. JInv /\ AInv' /\ [Next]_vars => JInv'
  <2> SUFFICES ASSUME JInv, AInv', [Next]_vars
               PROVE  JoinInv'
    OBVIOUS
  <2>0. \A s \in Searches, e \in Engines : Accounted(s, e) => Accounted(s, e)'
    BY AccountedStays DEF AInv
  <2>1. CASE Tick \/ (\E e \in Engines : Register(e)) \/ UNCHANGED vars
    <3>1. UNCHANGED <<spc, requests, joining, cur>>
      BY <2>1 DEF Tick, Register, vars, searchVars, planVars, joinVars
    <3>2. QED
      BY <2>0, <3>1 DEF AInv, TInv, TypeOK
  <2>2. ASSUME NEW s \in Searches, NEW e \in Engines, ThreadStep(s, e)
        PROVE  JoinInv'
    <3>1. UNCHANGED <<spc, requests, joining, cur>>
      BY <2>2, ThreadStepFrame DEF AInv, searchVars, planVars, joinVars
    <3>2. QED
      BY <2>0, <3>1 DEF AInv, TInv, TypeOK
  <2>3. ASSUME NEW s \in Searches, SearchStep(s)
        PROVE  JoinInv'
    <3> USE DEF AInv, TInv, TypeOK, SearchMoves, planVars, joinVars
    <3>1. ASSUME NEW s1 \in Searches \ {s}
          PROVE  JoinOK(s1)'
      BY <2>0, <2>3, <3>1, SearchStepFrame DEF SearchFrame
    <3>2. CASE BeginWithoutEngines(s)
      BY <3>1, <3>2 DEF BeginWithoutEngines, AskedInv, AskedOK
    <3>3. CASE SetTimeout(s)
      BY <3>1, <3>3 DEF SetTimeout
    <3>4. CASE Enumerate(s)
      BY <3>1, <3>4 DEF Enumerate, Accounted, outside, threadVars
    <3>5. ASSUME NEW e \in Engines, Join(s, e)
          PROVE  JoinInv'
      BY <2>0, <3>1, <3>5 DEF Join
    <3>6. CASE Joined(s)
      <4>1. Accounted(s, cur[s]) /\ cur[s] \in Engines
        BY <3>6 DEF Joined, Accounted, CurInv
      <4>2. QED
        BY <2>0, <3>1, <3>6, <4>1 DEF Joined
    <3>7. CASE StillAlive(s)
      BY <2>0, <3>1, <3>7 DEF StillAlive
    <3>8. CASE GiveUp(s)
      <4>1. PICK e \in Engines : e = cur[s]
        BY <3>8 DEF GiveUp, CurInv
      <4>2. e \in ShowsErrors =>
              [engine |-> e, error |-> "timeout", suspended |-> FALSE] \in unresp'[s]
        BY <3>8, <4>1, WithEntryGrows DEF GiveUp, Messages
      <4>3. gaveUp'[<<s, e>>]
        BY <3>8, <4>1 DEF GiveUp, Threads
      <4>4. Accounted(s, e)'
        BY <4>2, <4>3 DEF Accounted
      <4>5. QED
        BY <2>0, <3>1, <3>8, <4>1, <4>4 DEF GiveUp
    <3>9. CASE EndJoin(s)
      BY <2>0, <3>1, <3>9 DEF EndJoin
    <3>10. CASE Close(s) \/ Iterate(s) \/ Finish(s) \/ Crash(s)
      BY <2>0, <3>1, <3>10 DEF Close, Iterate, Finish, Crash
    <3>11. ASSUME NEW e \in Engines, Score(s, e)
           PROVE  JoinInv'
      BY <2>0, <3>1, <3>11 DEF Score, searchVars
    <3>12. CASE Begin(s) \/ ReportSuspended(s)
      <4>1. spc'[s] = "filter"
        BY <3>12 DEF Begin, ReportSuspended
      <4>2. QED
        BY <3>1, <4>1
    <3>13. ASSUME NEW e \in Engines, PassOver(s, e) \/ FindSuspended(s, e) \/ Prepare(s, e)
           PROVE  JoinInv'
      BY <3>1, <3>13 DEF PassOver, FindSuspended, Prepare
    <3>14. ASSUME NEW e \in Engines, StartThread(s, e)
           PROVE  JoinInv'
      BY <3>1, <3>14 DEF StartThread, searchVars
    <3>15. QED
      BY <2>3, <3>2, <3>3, <3>4, <3>5, <3>6, <3>7, <3>8, <3>9, <3>10, <3>11, <3>12,
         <3>13, <3>14 DEF SearchStep
  <2>4. QED
    BY <2>1, <2>2, <2>3 DEF Next
<1>3. QED
  BY <1>1, <1>2, AskedInvariant, PTL DEF Spec

(***************************************************************************)
(* When a search stops waiting, each engine it asked is finished, or given *)
(* up and reported as timed out, however the list of live threads, the     *)
(* joins and the ends of the threads interleave.                           *)
(***************************************************************************)
THEOREM NoEngineMissing == Spec => []EveryEngineAccounted
<1>1. JInv => EveryEngineAccounted
  BY DEF JInv, JoinInv, JoinOK, EveryEngineAccounted, Accounted
<1>2. QED
  BY <1>1, JoinInvariant, PTL

-----------------------------------------------------------------------------
(* Late results.                                                           *)

\* The pool is closed after the join loop only.
ClosedOK(s) == closed[s] => Collected(s)
ClosedInv == \A s \in Searches : ClosedOK(s)

\* What is in the pool but was not there when the scoring began came from an
\* engine that was given up; and a search crashed only if there is such a thing.
LateOK(s) ==
  /\ spc[s] \in {"score", "done", "crashed"} =>
       /\ counted[s] \subseteq results[s]
       /\ \A e \in results[s] \ counted[s] : gaveUp[<<s, e>>]
  /\ spc[s] = "crashed" => results[s] /= counted[s]
  /\ spc[s] = "done" => scored[s] = counted[s]
LateInv == \A s \in Searches : LateOK(s)

LInv == JInv /\ ClosedInv /\ LateInv

\* The pool is closed, so a thread that still runs was given up.
LEMMA RunningIsLate ==
  ASSUME JInv, NEW s \in Searches, NEW e \in Engines, Collected(s),
         tpc[<<s, e>>] \notin {"none", "dead"}
  PROVE  gaveUp[<<s, e>>]
  BY DEF JInv, AInv, AskedInv, AskedOK, JoinInv, JoinOK, Accounted

\* Only Merge and MergeFails insert, and only the engine's own results.
LEMMA ThreadStepResults ==
  ASSUME TInv, NEW s \in Searches, NEW e \in Engines, ThreadStep(s, e)
  PROVE  \A s1 \in Searches :
           \/ results'[s1] = results[s1]
           \/ s1 = s /\ results'[s1] = results[s1] \union {e}
<1> USE DEF TInv, TypeOK, shared, poolVars
<1>1. CASE Merge(s, e)
  BY <1>1 DEF Merge
<1>2. CASE MergeFails(s, e)
  BY <1>2 DEF MergeFails
<1>3. CASE ~Merge(s, e) /\ ~MergeFails(s, e)
  BY <1>3 DEF ThreadStep, Reply, CheckInTime, Extend, TestTiming, AddTiming, TestReport,
     AddReport, Resume, Suspend
<1>4. QED
  BY <1>1, <1>2, <1>3

\* A thread past its closed check in a closed pool was given up by the join loop.
LEMMA LateInvariant == Spec => []LInv
<1> USE DEF LInv, ClosedInv, LateInv
<1>1. Init => ClosedInv /\ LateInv
  BY DEF Init, ClosedOK, LateOK
<1>2. LInv /\ JInv' /\ [Next]_vars => LInv'
  <2> SUFFICES ASSUME LInv, JInv', [Next]_vars
               PROVE  ClosedInv' /\ LateInv'
    OBVIOUS
  <2> TInv /\ TInv'
    BY DEF JInv, AInv
  <2>1. CASE Tick \/ (\E e \in Engines : Register(e)) \/ UNCHANGED vars
    BY <2>1 DEF Tick, Register, vars, outside, searchVars, poolVars, scoreVars, threadVars,
       ClosedOK, LateOK, Collected
  <2>2. ASSUME NEW s \in Searches, NEW e \in Engines, ThreadStep(s, e)
        PROVE  ClosedInv' /\ LateInv'
    <3>1. UNCHANGED <<spc, closed, counted, scored, gaveUp>>
      BY <2>2, ThreadStepFrame DEF searchVars, scoreVars
    <3>2. \A s1 \in Searches :
            \/ results'[s1] = results[s1]
            \/ s1 = s /\ results'[s1] = results[s1] \union {e}
      BY <2>2, ThreadStepResults
    <3>3. spc[s] \in {"score", "done", "crashed"} => gaveUp[<<s, e>>]
      BY <2>2, ThreadStepFrame, RunningIsLate DEF Collected
    <3>4. ClosedInv'
      BY <3>1 DEF ClosedOK, Collected
    <3>5. ASSUME NEW s1 \in Searches
          PROVE  LateOK(s1)'
      <4>1. CASE results'[s1] = results[s1]
        BY <3>1, <4>1 DEF LateOK
      <4>2. CASE s1 = s /\ results'[s1] = results[s1] \union {e} /\ e \notin results[s]
        <5>1. spc[s] \in {"score", "done", "crashed"} => counted[s] \subseteq results[s]
          BY DEF LateOK
        <5>2. QED
          BY <3>1, <3>3, <4>2, <5>1 DEF LateOK
      <4>3. QED
        BY <3>2, <4>1, <4>2
    <3>6. QED
      BY <3>4, <3>5
  <2>3. ASSUME NEW s \in Searches, SearchStep(s)
        PROVE  ClosedInv' /\ LateInv'
    <3> USE DEF TInv, TypeOK, SearchMoves
    <3>0. /\ UNCHANGED results
          /\ \A s1 \in Searches, e \in Engines : gaveUp[<<s1, e>>] => gaveUp'[<<s1, e>>]
      BY <2>3, SearchStepFrame DEF SearchFrame, Threads
    <3>1. ASSUME NEW s1 \in Searches \ {s}
          PROVE  ClosedOK(s1)' /\ LateOK(s1)'
      <4>1. /\ spc'[s1] = spc[s1] /\ closed'[s1] = closed[s1]
            /\ counted'[s1] = counted[s1] /\ scored'[s1] = scored[s1]
        BY <2>3, SearchStepFrame DEF SearchFrame
      <4>2. QED
        BY <3>0, <4>1 DEF ClosedOK, LateOK, Collected
    <3>2. CASE Close(s)
      <4>1. ClosedOK(s)' /\ LateOK(s)'
        BY <3>2 DEF Close, ClosedOK, LateOK, Collected
      <4>2. QED
        BY <3>1, <4>1
    <3>3. CASE Iterate(s)
      <4>1. ClosedOK(s)' /\ LateOK(s)'
        BY <3>0, <3>3 DEF Iterate, ClosedOK, LateOK, Collected
      <4>2. QED
        BY <3>1, <4>1
    <3>4. ASSUME NEW e \in Engines, Score(s, e)
          PROVE  ClosedInv' /\ LateInv'
      <4>1. ClosedOK(s)' /\ LateOK(s)'
        BY <3>0, <3>4 DEF Score, searchVars, ClosedOK, LateOK, Collected
      <4>2. QED
        BY <3>1, <4>1
    <3>5. CASE Finish(s) \/ Crash(s)
      <4>1. UNCHANGED <<closed, counted, scored>>
        BY <3>5 DEF Finish, Crash, outside, poolVars, scoreVars
      <4>2. ClosedOK(s)' /\ LateOK(s)'
        BY <3>0, <3>5, <4>1 DEF Finish, Crash, ClosedOK, LateOK, Collected
      <4>3. QED
        BY <3>1, <4>2
    <3>6. ASSUME UNCHANGED closed, ~Collected(s),
                 spc'[s] \notin {"score", "done", "crashed"}
          PROVE  ClosedInv' /\ LateInv'
      <4>1. ClosedOK(s)' /\ LateOK(s)'
        BY <3>6 DEF ClosedOK, LateOK
      <4>2. QED
        BY <3>1, <4>1
    <3>7. CASE \/ Begin(s) \/ BeginWithoutEngines(s) \/ SetTimeout(s) \/ Enumerate(s)
               \/ Joined(s) \/ StillAlive(s) \/ EndJoin(s)
      <4>1. UNCHANGED closed
        BY <3>7 DEF Begin, BeginWithoutEngines, SetTimeout, Enumerate, Joined, StillAlive,
           EndJoin, outside, poolVars, scoreVars
      <4>2. ~Collected(s) /\ spc'[s] \notin {"score", "done", "crashed"}
        BY <3>7 DEF Begin, BeginWithoutEngines, SetTimeout, Enumerate, Joined, StillAlive,
           EndJoin, Collected
      <4>3. QED
        BY <3>6, <4>1, <4>2
    <3>8. CASE ReportSuspended(s) \/ GiveUp(s)
      BY <3>6, <3>8 DEF ReportSuspended, GiveUp, Collected, scoreVars
    <3>9. ASSUME NEW e \in Engines,
                 \/ PassOver(s, e) \/ FindSuspended(s, e) \/ Prepare(s, e)
                 \/ StartThread(s, e) \/ Join(s, e)
          PROVE  ClosedInv' /\ LateInv'
      <4>1. UNCHANGED closed
        BY <3>9 DEF PassOver, FindSuspended, Prepare, StartThread, Join, outside, poolVars,
           scoreVars
      <4>2. ~Collected(s) /\ spc'[s] \notin {"score", "done", "crashed"}
        BY <3>9 DEF PassOver, FindSuspended, Prepare, StartThread, Join, Collected,
           searchVars
      <4>3. QED
        BY <3>6, <4>1, <4>2
    <3>10. QED
      BY <2>3, <3>2, <3>3, <3>4, <3>5, <3>7, <3>8, <3>9 DEF SearchStep
  <2>4. QED
    BY <2>1, <2>2, <2>3 DEF Next
<1>3. QED
  BY <1>1, <1>2, JoinInvariant, PTL DEF Spec

(***************************************************************************)
(* Scoring can fail only because an engine the search had given up put its *)
(* results in after close() began: a search that lost no engine to its     *)
(* deadline never fails.                                                   *)
(***************************************************************************)
THEOREM CrashIsLate == Spec => []CrashNeedsLateResult
<1>1. LInv => CrashNeedsLateResult
  <2> SUFFICES ASSUME LInv, NEW s \in Searches, spc[s] = "crashed"
               PROVE  \E e \in results[s] \ counted[s] : gaveUp[<<s, e>>]
    BY DEF CrashNeedsLateResult
  <2>1. counted[s] \subseteq results[s] /\ results[s] /= counted[s]
    BY DEF LInv, LateInv, LateOK
  <2>2. \A e \in results[s] \ counted[s] : gaveUp[<<s, e>>]
    BY DEF LInv, LateInv, LateOK
  <2>3. QED
    BY <2>1, <2>2
<1>2. QED
  BY <1>1, LateInvariant, PTL

-----------------------------------------------------------------------------
(* Results in time.                                                        *)

\* Past its merge, an engine with results has them in the pool, and past its
\* timing it has one, unless it was given up.
KeptOK(s, e) ==
  reply[<<s, e>>] = "results" /\ ~gaveUp[<<s, e>>] =>
    /\ tpc[<<s, e>>] \in {"time", "timed", "conclude", "dead"} => e \in results[s]
    /\ tpc[<<s, e>>] \in {"conclude", "dead"} => e \in timings[s]
KeptInv == \A s \in Searches, e \in Engines : KeptOK(s, e)

KInv == LInv /\ KeptInv

\* No step takes a result out of a pool, nor reopens a closed pool.
LEMMA PoolsGrow ==
  ASSUME TInv, NEW s \in Searches, NEW e \in Engines, ThreadStep(s, e)
  PROVE  \A s1 \in Searches : results[s1] \subseteq results'[s1] /\ timings[s1] \subseteq timings'[s1]
<1> USE DEF TInv, TypeOK, shared, poolVars
<1>1. CASE AddTiming(s, e)
  BY <1>1 DEF AddTiming
<1>2. CASE ~AddTiming(s, e)
  <2>1. UNCHANGED timings
    BY <1>2 DEF ThreadStep, Reply, CheckInTime, Extend, Merge, MergeFails, TestTiming,
       TestReport, AddReport, Resume, Suspend
  <2>2. QED
    BY <2>1, ThreadStepResults
<1>3. QED
  BY <1>1, <1>2

\* What a thread merged before its pool was closed is in the pool.
LEMMA KeptInvariant == Spec => []KInv
<1> USE DEF KInv, KeptInv
<1>1. Init => KeptInv
  BY DEF Init, KeptOK, Threads
<1>2. KInv /\ LInv' /\ [Next]_vars => KInv'
  <2> SUFFICES ASSUME KInv, LInv', [Next]_vars,
                      NEW s \in Searches, NEW e \in Engines
               PROVE  KeptOK(s, e)'
    OBVIOUS
  <2> TInv /\ TInv' /\ JInv /\ <<s, e>> \in Threads
    BY DEF LInv, JInv, AInv, Threads
  <2>1. CASE Tick \/ (\E e1 \in Engines : Register(e1)) \/ UNCHANGED vars
    BY <2>1 DEF Tick, Register, vars, outside, poolVars, threadVars, KeptOK
  <2>2. ASSUME NEW s1 \in Searches, SearchStep(s1)
        PROVE  KeptOK(s, e)'
    <3>1. /\ UNCHANGED <<reply, results, timings>>
          /\ gaveUp[<<s, e>>] => gaveUp'[<<s, e>>]
          /\ tpc'[<<s, e>>] = tpc[<<s, e>>] \/ tpc'[<<s, e>>] = "run"
      BY <2>2, SearchStepFrame DEF SearchFrame
    <3>2. QED
      BY <3>1 DEF KeptOK
  <2>3. ASSUME NEW s1 \in Searches, NEW e1 \in Engines, ThreadStep(s1, e1),
               s1 /= s \/ e1 /= e
        PROVE  KeptOK(s, e)'
    <3>1. /\ UNCHANGED gaveUp
          /\ tpc'[<<s, e>>] = tpc[<<s, e>>] /\ reply'[<<s, e>>] = reply[<<s, e>>]
      BY <2>3, ThreadStepFrame
    <3>2. results[s] \subseteq results'[s] /\ timings[s] \subseteq timings'[s]
      BY <2>3, PoolsGrow
    <3>3. QED
      BY <3>1, <3>2 DEF KeptOK
  <2>4. ASSUME ThreadStep(s, e)
        PROVE  KeptOK(s, e)'
    <3> USE DEF TInv, TypeOK, ThreadMoves
    <3>1. UNCHANGED gaveUp /\ results[s] \subseteq results'[s] /\ timings[s] \subseteq timings'[s]
      BY <2>4, ThreadStepFrame, PoolsGrow
    <3>2. closed[s] => tpc[<<s, e>>] \in {"none", "dead"} \/ gaveUp[<<s, e>>]
      BY RunningIsLate DEF LInv, ClosedInv, ClosedOK
    <3>3. CASE Reply(s, e)
      BY <3>3 DEF Reply, Handler, Failures, Suspending, KeptOK
    <3>4. CASE CheckInTime(s, e)
      <4>1. tpc'[<<s, e>>] = "conclude" => reply'[<<s, e>>] /= "results"
        BY <3>4 DEF CheckInTime
      <4>2. tpc'[<<s, e>>] \in {"report", "extend", "conclude"}
        BY <3>4 DEF CheckInTime
      <4>3. QED
        BY <4>1, <4>2 DEF KeptOK
    <3>5. CASE Extend(s, e)
      BY <3>1, <3>2, <3>5 DEF Extend, KeptOK
    <3>6. CASE Merge(s, e)
      BY <3>1, <3>6 DEF Merge, KeptOK
    <3>7. CASE MergeFails(s, e)
      BY <3>7 DEF MergeFails, KeptOK
    <3>8. CASE TestTiming(s, e)
      BY <3>1, <3>2, <3>8 DEF TestTiming, KeptOK, shared, poolVars
    <3>9. CASE AddTiming(s, e)
      BY <3>1, <3>9 DEF AddTiming, KeptOK
    <3>10. CASE TestReport(s, e) \/ AddReport(s, e)
      BY <3>10 DEF TestReport, AddReport, KeptOK, ReplyInv, Failures, Suspending
    <3>11. CASE Resume(s, e) \/ Suspend(s, e)
      <4>1. tpc[<<s, e>>] = "conclude" /\ UNCHANGED <<reply, results, timings>>
        BY <3>11 DEF Resume, Suspend, poolVars
      <4>2. QED
        BY <3>1, <4>1 DEF KeptOK
    <3>12. QED
      BY <2>4, <3>3, <3>4, <3>5, <3>6, <3>7, <3>8, <3>9, <3>10, <3>11 DEF ThreadStep
  <2>5. QED
    BY <2>1, <2>2, <2>3, <2>4 DEF Next
<1>3. QED
  BY <1>1, <1>2, LateInvariant, PTL DEF Spec

(***************************************************************************)
(* The results of an engine the search waited for are in the pool, scored  *)
(* and timed when the search is done.                                      *)
(***************************************************************************)
THEOREM ResultsKept == Spec => []InTimeResultsKept
<1>1. KInv => InTimeResultsKept
  <2> SUFFICES ASSUME KInv, NEW s \in Searches, NEW e \in Engines, spc[s] = "done",
                      reply[<<s, e>>] = "results", ~gaveUp[<<s, e>>]
               PROVE  e \in results[s] \intersect scored[s] \intersect timings[s]
    BY DEF InTimeResultsKept
  <2>1. JInv /\ TInv /\ <<s, e>> \in Threads
    BY DEF KInv, LInv, JInv, AInv, Threads
  <2>2. tpc[<<s, e>>] \notin {"none", "run"}
    BY <2>1 DEF TInv, ReplyInv
  <2>3. tpc[<<s, e>>] = "dead"
    BY <2>1, <2>2, RunningIsLate DEF Collected
  <2>4. e \in results[s] /\ e \in timings[s]
    BY <2>3 DEF KInv, KeptInv, KeptOK
  <2>5. e \in scored[s]
    BY <2>4 DEF KInv, LInv, LateInv, LateOK
  <2>6. QED
    BY <2>4, <2>5
<1>2. QED
  BY <1>1, KeptInvariant, PTL

-----------------------------------------------------------------------------
(* The deadline.                                                           *)

\* A join ends at the deadline of its search, or does not wait at all.
WakeOK(s) == spc[s] = "wait" => wake[s] <= start[s] + limit[s] \/ wake[s] <= now
WakeInv == \A s \in Searches : WakeOK(s)

WInv == TInv /\ WakeInv

\* A search in its join loop waits for no more than what is left of its limit.
LEMMA WakeInvariant == Spec => []WInv
<1> USE DEF WInv, WakeInv
<1>1. Init => WakeInv
  BY DEF Init, WakeOK
<1>2. WInv /\ TInv' /\ [Next]_vars => WInv'
  <2> SUFFICES ASSUME WInv, TInv', [Next]_vars
               PROVE  WakeInv'
    OBVIOUS
  <2>1. CASE Tick \/ (\E e \in Engines : Register(e)) \/ UNCHANGED vars
    BY <2>1 DEF Tick, Register, vars, searchVars, planVars, joinVars, outside, shared,
       clockVars, TInv, TypeOK, WakeOK
  <2>2. ASSUME NEW s \in Searches, NEW e \in Engines, ThreadStep(s, e)
        PROVE  WakeInv'
    <3>1. UNCHANGED <<spc, wake, start, limit, now>>
      BY <2>2, ThreadStepFrame DEF searchVars, planVars, joinVars, clockVars
    <3>2. QED
      BY <3>1 DEF WakeOK
  <2>3. ASSUME NEW s \in Searches, SearchStep(s)
        PROVE  WakeInv'
    <3>1. ASSUME NEW s1 \in Searches \ {s}
          PROVE  WakeOK(s1)'
      <4>1. /\ spc'[s1] = spc[s1] /\ wake'[s1] = wake[s1]
            /\ start'[s1] = start[s1] /\ limit'[s1] = limit[s1] /\ now' = now
        BY <2>3, SearchStepFrame DEF SearchFrame, clockVars
      <4>2. QED
        BY <4>1 DEF WakeOK
    <3>2. ASSUME NEW e \in Engines, Join(s, e)
          PROVE  WakeInv'
      <4>1. /\ wake'[s] = now + Remaining(s)
            /\ start' = start /\ limit' = limit /\ now' = now
        BY <3>2 DEF Join, planVars, outside, shared, clockVars, TInv, TypeOK
      <4>2. now + Remaining(s) = start[s] + limit[s] \/ now + Remaining(s) = now
        BY DEF Remaining, Greater, TInv, TypeOK
      <4>3. QED
        BY <3>1, <4>1, <4>2 DEF WakeOK, TInv, TypeOK
    <3>3. CASE spc'[s] /= "wait"
      BY <3>1, <3>3 DEF WakeOK
    <3>4. spc'[s] = "wait" => \E e \in Engines : Join(s, e)
      <4> USE DEF TInv, TypeOK, SearchMoves, searchVars
      <4>1. ASSUME NEW e \in Engines,
                   \/ PassOver(s, e) \/ FindSuspended(s, e) \/ Prepare(s, e)
                   \/ StartThread(s, e) \/ Score(s, e)
            PROVE  spc'[s] /= "wait"
        BY <4>1 DEF PassOver, FindSuspended, Prepare, StartThread, Score
      <4>2. ASSUME \/ Begin(s) \/ BeginWithoutEngines(s) \/ ReportSuspended(s)
                   \/ SetTimeout(s) \/ Enumerate(s) \/ Joined(s) \/ StillAlive(s)
                   \/ GiveUp(s) \/ EndJoin(s) \/ Close(s) \/ Iterate(s) \/ Finish(s)
                   \/ Crash(s)
            PROVE  spc'[s] /= "wait"
        BY <4>2 DEF Begin, BeginWithoutEngines, ReportSuspended, SetTimeout, Enumerate,
           Joined, StillAlive, GiveUp, EndJoin, Close, Iterate, Finish, Crash
      <4>3. QED
        BY <2>3, <4>1, <4>2 DEF SearchStep
    <3>5. QED
      BY <3>2, <3>3, <3>4
  <2>4. QED
    BY <2>1, <2>2, <2>3 DEF Next
<1>3. QED
  BY <1>1, <1>2, TypeInvariant, PTL DEF Spec

(***************************************************************************)
(* The joins of a search share one timeout: while it waits, the clock does *)
(* not pass the start of the search plus its limit.                        *)
(***************************************************************************)
THEOREM DeadlineIsKept == Spec => DeadlineKept
<1>1. WInv /\ [Next]_vars => [\A s \in Searches : now' > now /\ spc[s] = "wait" =>
                               now' <= start[s] + limit[s]]_vars
  <2> SUFFICES ASSUME WInv, [Next]_vars, NEW s \in Searches, now' > now, spc[s] = "wait"
               PROVE  now' <= start[s] + limit[s]
    OBVIOUS
  <2>1. CASE Tick
    <3>1. now < wake[s] /\ now' = now + 1
      BY <2>1 DEF Tick, Waiting
    <3>2. QED
      BY <3>1 DEF WInv, WakeInv, WakeOK, TInv, TypeOK
  <2>2. CASE ~Tick
    <3>1. now' = now
      <4>1. ASSUME NEW s1 \in Searches, SearchStep(s1)
            PROVE  now' = now
        BY <4>1, SearchStepFrame DEF SearchFrame, clockVars, WInv
      <4>2. ASSUME NEW s1 \in Searches, NEW e1 \in Engines, ThreadStep(s1, e1)
            PROVE  now' = now
        BY <4>2, ThreadStepFrame DEF clockVars, WInv
      <4>3. QED
        BY <2>2, <4>1, <4>2 DEF Next, Register, vars, outside, shared, clockVars
    <3>2. QED
      BY <3>1 DEF WInv, TInv, TypeOK
  <2>3. QED
    BY <2>1, <2>2
<1>2. QED
  BY <1>1, WakeInvariant, PTL DEF Spec, DeadlineKept

-----------------------------------------------------------------------------
(* A search goes on: its steps run out, and past its deadline it can       *)
(* always take one.                                                        *)

\* The engine a search is busy with has been taken off its list; what has a
\* score was counted.
BusyOK(s) ==
  /\ spc[s] = "skip" => cur[s] \notin todo[s]
  /\ spc[s] \in {"wait", "giveup"} => cur[s] \notin joining[s]
  /\ scored[s] \subseteq counted[s]
  /\ counted[s] /= {} => spc[s] \in {"score", "done", "crashed"}
BusyInv == \A s \in Searches : BusyOK(s)

LEMMA BusyInvariant == Spec => []BusyInv
<1>1. Init => BusyInv
  BY DEF Init, BusyInv, BusyOK
<1>2. TInv /\ BusyInv /\ [Next]_vars => BusyInv'
  <2> SUFFICES ASSUME TInv, BusyInv, [Next]_vars
               PROVE  BusyInv'
    OBVIOUS
  <2> USE DEF BusyInv, BusyOK
  <2>1. CASE Tick \/ (\E e \in Engines : Register(e)) \/ UNCHANGED vars
    BY <2>1 DEF Tick, Register, vars, searchVars, planVars, joinVars, outside, poolVars, scoreVars
  <2>2. ASSUME NEW s \in Searches, NEW e \in Engines, ThreadStep(s, e)
        PROVE  BusyInv'
    BY <2>2, ThreadStepFrame DEF searchVars, planVars, joinVars, scoreVars
  <2>3. ASSUME NEW s \in Searches, SearchStep(s)
        PROVE  BusyInv'
    <3> USE DEF TInv, TypeOK, SearchMoves, searchVars, planVars, joinVars, outside, poolVars, scoreVars
    <3>1. CASE \/ Begin(s) \/ BeginWithoutEngines(s) \/ ReportSuspended(s) \/ SetTimeout(s)
               \/ Enumerate(s) \/ Joined(s) \/ StillAlive(s) \/ GiveUp(s) \/ EndJoin(s)
      BY <3>1 DEF Begin, BeginWithoutEngines, ReportSuspended, SetTimeout, Enumerate, Joined,
                  StillAlive, GiveUp, EndJoin
    <3>2. ASSUME NEW e \in Engines, \/ PassOver(s, e) \/ FindSuspended(s, e) \/ Prepare(s, e)
                                    \/ StartThread(s, e) \/ Join(s, e)
          PROVE  BusyInv'
      BY <3>2 DEF PassOver, FindSuspended, Prepare, StartThread, Join
    <3>3. CASE Close(s) \/ Iterate(s) \/ Finish(s) \/ Crash(s) \/ \E e \in Engines : Score(s, e)
      BY <3>3 DEF Close, Iterate, Finish, Crash, Score
    <3>4. QED
      BY <2>3, <3>1, <3>2, <3>3 DEF SearchStep
  <2>4. QED
    BY <2>1, <2>2, <2>3 DEF Next
<1>3. QED
  BY <1>1, <1>2, TypeInvariant, PTL DEF Spec

\* How many places a search, and how many things to do with an engine, it has
\* still before it; and how many places the thread of an engine has.
SearchRank(p) ==
  CASE p = "idle" -> 7 [] p \in {"filter", "skip"} -> 6 [] p = "send" -> 5
    [] p \in {"join", "wait", "giveup"} -> 4 [] p = "post" -> 3 [] p = "iterate" -> 2
    [] p = "score" -> 1 [] OTHER -> 0
EngineRank(s, e) ==
  CASE spc[s] = "idle" -> 7
    [] spc[s] \in {"filter", "skip"} ->
         5 + (IF e \in todo[s] THEN 2 ELSE IF spc[s] = "skip" /\ cur[s] = e THEN 1 ELSE 0)
    [] spc[s] = "send" -> 4 + (IF tpc[<<s, e>>] = "none" THEN 1 ELSE 0)
    [] spc[s] \in {"join", "wait", "giveup"} ->
         1 + (IF e \in joining[s] THEN 3
              ELSE IF cur[s] /= e THEN 0
              ELSE IF spc[s] = "wait" THEN 2 ELSE IF spc[s] = "giveup" THEN 1 ELSE 0)
    [] spc[s] \in {"post", "iterate"} -> 1
    [] spc[s] = "score" -> IF e \in scored[s] THEN 0 ELSE 1
    [] OTHER -> 0
ThreadRank(p) ==
  CASE p = "none" -> 9 [] p = "run" -> 8 [] p = "check" -> 7 [] p = "extend" -> 6
    [] p = "merge" -> 5 [] p = "time" -> 4 [] p \in {"timed", "report"} -> 3
    [] p = "reporting" -> 2 [] p = "conclude" -> 1 [] OTHER -> 0

\* The steps that a search has still before it.
StepsLeft(s, x) == IF x = None THEN SearchRank(spc[s]) ELSE EngineRank(s, x)
SearchTodo(s)   == {t \in (Engines \union {None}) \X (0 .. 7) : t[2] < StepsLeft(s, t[1])}

LEMMA StepsLeftType ==
  ASSUME NEW s \in Searches, NEW x \in Engines \union {None}
  PROVE  StepsLeft(s, x) \in 0 .. 7 /\ StepsLeft(s, x)' \in 0 .. 7
<1>1. SearchRank(spc[s]) \in 0 .. 7 /\ SearchRank(spc'[s]) \in 0 .. 7
  BY DEF SearchRank
<1>2. EngineRank(s, x) \in 0 .. 7
  BY DEF EngineRank
<1>3. EngineRank(s, x)' \in 0 .. 7
  BY DEF EngineRank
<1>4. QED
  BY <1>1, <1>2, <1>3 DEF StepsLeft, SearchRank

\* What is left of a search shrinks with any of its ranks.
LEMMA TodoShrinks ==
  ASSUME NEW s \in Searches,
         \A x \in Engines \union {None} : StepsLeft(s, x)' <= StepsLeft(s, x)
  PROVE  /\ SearchTodo(s)' \subseteq SearchTodo(s)
         /\ \A x \in Engines \union {None} :
              StepsLeft(s, x)' < StepsLeft(s, x) => SearchTodo(s)' /= SearchTodo(s)
<1>1. SearchTodo(s)' = {t \in (Engines \union {None}) \X (0 .. 7) : t[2] < StepsLeft(s, t[1])'}
  BY DEF SearchTodo
<1>2. SearchTodo(s)' \subseteq SearchTodo(s)
  <2> SUFFICES ASSUME NEW x \in Engines \union {None}, NEW n \in 0 .. 7, n < StepsLeft(s, x)'
               PROVE  n < StepsLeft(s, x)
    BY <1>1 DEF SearchTodo
  <2>1. QED
    BY StepsLeftType
<1>3. ASSUME NEW x \in Engines \union {None}, StepsLeft(s, x)' < StepsLeft(s, x)
      PROVE  SearchTodo(s)' /= SearchTodo(s)
  <2> DEFINE n == StepsLeft(s, x)'
  <2>1. n \in 0 .. 7 /\ n < StepsLeft(s, x) /\ ~(n < n)
    BY <1>3, StepsLeftType
  <2> HIDE DEF n
  <2>2. <<x, n>> \in SearchTodo(s)
    BY <2>1 DEF SearchTodo
  <2>3. <<x, n>> \notin SearchTodo(s)'
    BY <1>1, <2>1 DEF n
  <2>4. QED
    BY <2>2, <2>3
<1>4. QED
  BY <1>2, <1>3

\* Whoever else moves, a search has no more before it than it had.
LEMMA OthersLeave ==
  ASSUME TInv, NEW s \in Searches, NEW x \in Engines \union {None},
         spc'[s] = spc[s], todo'[s] = todo[s], cur'[s] = cur[s], joining'[s] = joining[s],
         scored'[s] = scored[s],
         \A e \in Engines : tpc'[<<s, e>>] = "none" <=> tpc[<<s, e>>] = "none"
  PROVE  StepsLeft(s, x)' = StepsLeft(s, x)
<1>1. CASE x = None
  BY <1>1 DEF StepsLeft, SearchRank
<1>2. CASE x /= None
  <2>1. EngineRank(s, x)' = EngineRank(s, x)
    BY <1>2 DEF EngineRank
  <2>2. QED
    BY <1>2, <2>1 DEF StepsLeft
<1>3. QED
  BY <1>1, <1>2

\* What a step does to the ranks of its own search.
Spends(s) ==
  /\ SearchRank(spc'[s]) <= SearchRank(spc[s])
  /\ \A e \in Engines : EngineRank(s, e)' <= EngineRank(s, e)
  /\ \/ SearchRank(spc'[s]) < SearchRank(spc[s])
     \/ \E e \in Engines : EngineRank(s, e)' < EngineRank(s, e)

\* The search gets to the next place, where no engine has more before it.
LEMMA PlaceSpends ==
  ASSUME TInv, NEW s \in Searches,
         \/ Begin(s) \/ BeginWithoutEngines(s) \/ SetTimeout(s) \/ Enumerate(s) \/ EndJoin(s)
         \/ Close(s) \/ Iterate(s) \/ Finish(s) \/ Crash(s)
  PROVE  Spends(s)
<1> USE DEF TInv, TypeOK, SearchMoves, planVars, joinVars, outside, poolVars, scoreVars, threadVars
<1>1. CASE Begin(s) \/ BeginWithoutEngines(s)
  <2>1. spc[s] = "idle" /\ spc'[s] \in {"filter", "post"}
    BY <1>1 DEF Begin, BeginWithoutEngines
  <2>2. \A e \in Engines : EngineRank(s, e) = 7 /\ EngineRank(s, e)' <= 7
    BY <2>1 DEF EngineRank
  <2>3. QED
    BY <2>1, <2>2 DEF Spends, SearchRank
<1>2. CASE SetTimeout(s)
  <2>1. spc[s] = "filter" /\ spc'[s] \in {"send", "post"}
    BY <1>2 DEF SetTimeout
  <2>2. \A e \in Engines : EngineRank(s, e) >= 5 /\ EngineRank(s, e)' <= 5
    BY <2>1 DEF EngineRank
  <2>3. \A e \in Engines : EngineRank(s, e) \in 0 .. 7 /\ EngineRank(s, e)' \in 0 .. 7
    BY <2>1 DEF EngineRank
  <2>4. SearchRank(spc'[s]) < SearchRank(spc[s])
    BY <2>1 DEF SearchRank
  <2> HIDE DEF TInv, TypeOK
  <2>5. \A e \in Engines : EngineRank(s, e)' <= EngineRank(s, e)
    BY <2>2, <2>3
  <2>6. SearchRank(spc'[s]) \in 0 .. 7 /\ SearchRank(spc[s]) \in 0 .. 7
    BY DEF SearchRank
  <2>7. QED
    BY <2>4, <2>5, <2>6 DEF Spends
<1>3. CASE Enumerate(s)
  <2>1. spc[s] = "send" /\ spc'[s] = "join"
    BY <1>3 DEF Enumerate
  <2>2. \A e \in Engines : EngineRank(s, e) \in 4 .. 5 /\ EngineRank(s, e)' \in 0 .. 4
    BY <2>1 DEF EngineRank
  <2>3. QED
    BY <2>1, <2>2 DEF Spends, SearchRank
<1>4. CASE EndJoin(s) \/ Close(s) \/ Iterate(s)
  <2>1. \/ spc[s] = "join" /\ spc'[s] = "post"
        \/ spc[s] = "post" /\ spc'[s] = "iterate"
        \/ spc[s] = "iterate" /\ spc'[s] = "score"
    BY <1>4 DEF EndJoin, Close, Iterate
  <2>2. \A e \in Engines : EngineRank(s, e) \in 1 .. 7 /\ EngineRank(s, e)' \in 0 .. 1
    BY <2>1 DEF EngineRank
  <2>3. QED
    BY <2>1, <2>2 DEF Spends, SearchRank
<1>5. CASE Finish(s) \/ Crash(s)
  <2>1. spc[s] = "score" /\ spc'[s] \in {"done", "crashed"}
    BY <1>5 DEF Finish, Crash
  <2>2. \A e \in Engines : EngineRank(s, e) \in 0 .. 1 /\ EngineRank(s, e)' = 0
    BY <2>1 DEF EngineRank
  <2>3. QED
    BY <2>1, <2>2 DEF Spends, SearchRank
<1>6. QED
  BY <1>1, <1>2, <1>3, <1>4, <1>5

\* The search is done with something about one engine.
LEMMA EngineSpends ==
  ASSUME TInv, BusyInv, NEW s \in Searches, NEW e \in Engines,
         \/ PassOver(s, e) \/ FindSuspended(s, e) \/ Prepare(s, e) \/ StartThread(s, e)
         \/ Join(s, e) \/ Score(s, e)
         \/ e = cur[s] /\ (ReportSuspended(s) \/ Joined(s) \/ StillAlive(s) \/ GiveUp(s))
  PROVE  Spends(s)
<1> USE DEF TInv, TypeOK, SearchMoves, planVars, joinVars, outside, poolVars, scoreVars,
        threadVars, searchVars
<1>1. SUFFICES /\ SearchRank(spc'[s]) = SearchRank(spc[s])
               /\ \A x \in Engines \ {e} : EngineRank(s, x)' = EngineRank(s, x)
               /\ EngineRank(s, e)' < EngineRank(s, e)
  <2>1. \A x \in Engines : EngineRank(s, x) \in 0 .. 7
    BY DEF EngineRank
  <2>2. \A x \in Engines : EngineRank(s, x)' \in 0 .. 7
    BY DEF EngineRank
  <2>3. SearchRank(spc[s]) \in 0 .. 7
    BY DEF SearchRank
  <2> HIDE DEF TInv, TypeOK
  <2>4. QED
    BY <1>1, <2>1, <2>2, <2>3 DEF Spends
<1>2. None \notin Engines
  BY EnginesAssumption
<1>3. CASE PassOver(s, e) \/ FindSuspended(s, e) \/ Prepare(s, e)
  <2>1. /\ spc[s] = "filter" /\ e \in todo[s] /\ todo'[s] = todo[s] \ {e}
        /\ spc'[s] = "filter" \/ (spc'[s] = "skip" /\ cur'[s] = e)
    BY <1>3 DEF PassOver, FindSuspended, Prepare
  <2>2. EngineRank(s, e) = 7 /\ EngineRank(s, e)' \in {5, 6}
    BY <2>1 DEF EngineRank
  <2>3. \A x \in Engines \ {e} : EngineRank(s, x)' = EngineRank(s, x)
    BY <2>1 DEF EngineRank
  <2>4. QED
    BY <2>1, <2>2, <2>3 DEF SearchRank
<1>4. CASE e = cur[s] /\ ReportSuspended(s)
  <2>1. spc[s] = "skip" /\ spc'[s] = "filter" /\ cur[s] = e /\ e \notin todo[s] /\ todo'[s] = todo[s]
    BY <1>4 DEF ReportSuspended, BusyInv, BusyOK
  <2>2. EngineRank(s, e) = 6 /\ EngineRank(s, e)' = 5
    BY <2>1 DEF EngineRank
  <2>3. \A x \in Engines \ {e} : EngineRank(s, x)' = EngineRank(s, x)
    BY <2>1 DEF EngineRank
  <2>4. QED
    BY <2>1, <2>2, <2>3 DEF SearchRank
<1>5. CASE StartThread(s, e)
  <2>1. /\ spc[s] = "send" /\ spc'[s] = "send" /\ tpc[<<s, e>>] = "none" /\ tpc'[<<s, e>>] = "run"
        /\ \A x \in Engines \ {e} : tpc'[<<s, x>>] = tpc[<<s, x>>]
    BY <1>5 DEF StartThread, ThreadMoves, Threads
  <2>2. EngineRank(s, e) = 5 /\ EngineRank(s, e)' = 4
    BY <2>1 DEF EngineRank
  <2>3. \A x \in Engines \ {e} : EngineRank(s, x)' = EngineRank(s, x)
    BY <2>1 DEF EngineRank
  <2>4. QED
    BY <2>1, <2>2, <2>3
<1>6. CASE Join(s, e)
  <2>1. /\ spc[s] = "join" /\ spc'[s] = "wait" /\ e \in joining[s]
        /\ joining'[s] = joining[s] \ {e} /\ cur'[s] = e
    BY <1>6 DEF Join
  <2>2. EngineRank(s, e) = 4 /\ EngineRank(s, e)' = 3
    BY <2>1 DEF EngineRank
  <2>3. \A x \in Engines \ {e} : EngineRank(s, x)' = EngineRank(s, x)
    BY <2>1 DEF EngineRank
  <2>4. QED
    BY <2>1, <2>2, <2>3 DEF SearchRank
<1>7. CASE e = cur[s] /\ (Joined(s) \/ StillAlive(s) \/ GiveUp(s))
  <2>1. /\ cur[s] = e /\ e \notin joining[s] /\ joining'[s] = joining[s]
        /\ \/ spc[s] = "wait" /\ spc'[s] = "join" /\ cur'[s] = None
           \/ spc[s] = "wait" /\ spc'[s] = "giveup" /\ cur'[s] = e
           \/ spc[s] = "giveup" /\ spc'[s] = "join" /\ cur'[s] = None
    BY <1>7 DEF Joined, StillAlive, GiveUp, BusyInv, BusyOK
  <2>2. EngineRank(s, e)' < EngineRank(s, e)
    BY <1>2, <2>1 DEF EngineRank
  <2>3. \A x \in Engines \ {e} : EngineRank(s, x)' = EngineRank(s, x)
    BY <1>2, <2>1 DEF EngineRank
  <2>4. QED
    BY <2>1, <2>2, <2>3 DEF SearchRank
<1>8. CASE Score(s, e)
  <2>1. spc[s] = "score" /\ spc'[s] = "score" /\ e \notin scored[s] /\ scored'[s] = scored[s] \union {e}
    BY <1>8 DEF Score
  <2>2. EngineRank(s, e) = 1 /\ EngineRank(s, e)' = 0
    BY <2>1 DEF EngineRank
  <2>3. \A x \in Engines \ {e} : EngineRank(s, x)' = EngineRank(s, x)
    BY <2>1 DEF EngineRank
  <2>4. QED
    BY <2>1, <2>2, <2>3
<1>9. QED
  BY <1>3, <1>4, <1>5, <1>6, <1>7, <1>8

LEMMA SearchSpends ==
  ASSUME TInv, BusyInv, NEW s \in Searches, SearchStep(s)
  PROVE  SearchTodo(s)' \subseteq SearchTodo(s) /\ SearchTodo(s)' /= SearchTodo(s)
<1>1. Spends(s)
  <2>1. ReportSuspended(s) \/ Joined(s) \/ StillAlive(s) \/ GiveUp(s) => cur[s] \in Engines
    BY DEF ReportSuspended, Joined, StillAlive, GiveUp, SearchMoves, TInv, CurInv
  <2>2. QED
    BY <2>1, PlaceSpends, EngineSpends DEF SearchStep
<1>2. None \notin Engines
  BY EnginesAssumption
<1>3. StepsLeft(s, None)' = SearchRank(spc'[s]) /\ StepsLeft(s, None) = SearchRank(spc[s])
  BY DEF StepsLeft, SearchRank
<1>4. \A e \in Engines : StepsLeft(s, e)' = EngineRank(s, e)' /\ StepsLeft(s, e) = EngineRank(s, e)
  BY <1>2 DEF StepsLeft
<1>5. /\ \A x \in Engines \union {None} : StepsLeft(s, x)' <= StepsLeft(s, x)
      /\ \E x \in Engines \union {None} : StepsLeft(s, x)' < StepsLeft(s, x)
  BY <1>1, <1>3, <1>4 DEF Spends
<1>6. QED
  BY <1>5, TodoShrinks

(***************************************************************************)
(* Each step of the thread of a search takes something from what the       *)
(* search has before it, and nobody adds to that, neither its engines nor  *)
(* other searches: a search has no more steps than that before it.         *)
(***************************************************************************)
SearchesSpend ==
  \A s \in Searches :
    /\ SearchTodo(s)' \subseteq SearchTodo(s)
    /\ SearchStep(s) => SearchTodo(s)' /= SearchTodo(s)

THEOREM SearchesAdvance == Spec => [][SearchesSpend]_vars
<1>1. TInv /\ BusyInv /\ [Next]_vars => [SearchesSpend]_vars
  <2> SUFFICES ASSUME TInv, BusyInv, Next, NEW s \in Searches
               PROVE  /\ SearchTodo(s)' \subseteq SearchTodo(s)
                      /\ SearchStep(s) => SearchTodo(s)' /= SearchTodo(s)
    BY DEF SearchesSpend
  <2>1. CASE SearchStep(s)
    BY <2>1, SearchSpends
  <2>2. ASSUME spc'[s] = spc[s], todo'[s] = todo[s], cur'[s] = cur[s], joining'[s] = joining[s],
               scored'[s] = scored[s],
               \A e \in Engines : tpc'[<<s, e>>] = "none" <=> tpc[<<s, e>>] = "none"
        PROVE  SearchTodo(s)' \subseteq SearchTodo(s)
    <3>1. \A x \in Engines \union {None} : StepsLeft(s, x)' <= StepsLeft(s, x)
      BY <2>2, OthersLeave, StepsLeftType
    <3>2. QED
      BY <3>1, TodoShrinks
  <2>3. CASE Tick \/ \E e \in Engines : Register(e)
    <3>1. UNCHANGED <<spc, todo, cur, joining, scored, tpc>>
      BY <2>3 DEF Tick, Register, searchVars, planVars, joinVars, poolVars, scoreVars, threadVars
    <3>2. QED
      BY <2>1, <2>2, <3>1
  <2>4. ASSUME NEW s1 \in Searches, NEW e1 \in Engines, ThreadStep(s1, e1), ~SearchStep(s)
        PROVE  SearchTodo(s)' \subseteq SearchTodo(s)
    <3>1. UNCHANGED <<spc, todo, cur, joining, scored>>
      BY <2>4, ThreadStepFrame DEF searchVars, planVars, joinVars, scoreVars
    <3>2. \A e \in Engines : tpc'[<<s, e>>] = "none" <=> tpc[<<s, e>>] = "none"
      BY <2>4, ThreadStepFrame DEF Threads
    <3>3. QED
      BY <2>2, <3>1, <3>2
  <2>5. ASSUME NEW s1 \in Searches, SearchStep(s1), s1 /= s
        PROVE  SearchTodo(s)' \subseteq SearchTodo(s)
    <3>1. SearchFrame(s1)
      BY <2>5, SearchStepFrame
    <3>2. todo'[s] = todo[s]
      BY <2>5 DEF SearchStep, Begin, BeginWithoutEngines, PassOver, FindSuspended, Prepare,
         ReportSuspended, SetTimeout, StartThread, Enumerate, Join, Joined, StillAlive, GiveUp,
         EndJoin, Close, Iterate, Score, Finish, Crash, planVars, searchVars, TInv, TypeOK
    <3>3. \A e \in Engines : tpc'[<<s, e>>] = "none" <=> tpc[<<s, e>>] = "none"
      BY <2>5, <3>1 DEF SearchFrame, Threads
    <3>4. QED
      BY <2>2, <2>5, <3>1, <3>2, <3>3 DEF SearchFrame
  <2>6. QED
    BY <2>1, <2>3, <2>4, <2>5 DEF Next
<1>2. QED
  BY <1>1, TypeInvariant, BusyInvariant, PTL DEF Spec

\* What a search has before it is finite if its engines are.
THEOREM SearchIsFinite ==
  ASSUME IsFiniteSet(Engines), NEW s \in Searches
  PROVE  IsFiniteSet(SearchTodo(s))
<1>1. IsFiniteSet(Engines \union {None})
  BY FS_AddElement
<1>2. IsFiniteSet(0 .. 7)
  <2>1. 0 \in Int /\ 7 \in Int
    OBVIOUS
  <2>2. QED
    BY <2>1, FS_Interval
<1>3. IsFiniteSet((Engines \union {None}) \X (0 .. 7))
  BY <1>1, <1>2, FS_Product
<1>4. QED
  BY <1>3, FS_Subset DEF SearchTodo

\* The thread of an engine gets further with each of its steps, and nobody sets
\* it back.
ThreadsSpend ==
  \A s \in Searches, e \in Engines :
    /\ ThreadRank(tpc'[<<s, e>>]) <= ThreadRank(tpc[<<s, e>>])
    /\ ThreadStep(s, e) => ThreadRank(tpc'[<<s, e>>]) < ThreadRank(tpc[<<s, e>>])

THEOREM ThreadsAdvance == Spec => [][ThreadsSpend]_vars
<1>1. ASSUME TInv, NEW s \in Searches, NEW e \in Engines, ThreadStep(s, e)
      PROVE  ThreadRank(tpc'[<<s, e>>]) < ThreadRank(tpc[<<s, e>>])
  <2> USE DEF TInv, TypeOK, ThreadMoves
  <2> <<s, e>> \in Threads
    BY DEF Threads
  <2>1. CASE Reply(s, e)
    <3>1. tpc[<<s, e>>] = "run" /\ tpc'[<<s, e>>] \in {"report", "dead", "check"}
      BY <1>1, <2>1 DEF Reply, Handler
    <3>2. QED
      BY <3>1 DEF ThreadRank
  <2>2. CASE CheckInTime(s, e)
    <3>1. tpc[<<s, e>>] = "check" /\ tpc'[<<s, e>>] \in {"report", "extend", "conclude"}
      <4>1. CASE gaveUp[<<s, e>>]
        BY <1>1, <2>2, <4>1 DEF CheckInTime
      <4>2. CASE ~gaveUp[<<s, e>>]
        BY <1>1, <2>2, <4>2 DEF CheckInTime
      <4>3. QED
        BY <4>1, <4>2
    <3>2. QED
      BY <3>1 DEF ThreadRank
  <2>3. CASE Extend(s, e) \/ Merge(s, e) \/ MergeFails(s, e)
    <3>1. \/ tpc[<<s, e>>] = "extend" /\ tpc'[<<s, e>>] \in {"time", "merge"}
          \/ tpc[<<s, e>>] = "merge" /\ tpc'[<<s, e>>] \in {"time", "report"}
      BY <1>1, <2>3 DEF Extend, Merge, MergeFails
    <3>2. QED
      BY <3>1 DEF ThreadRank
  <2>4. CASE TestTiming(s, e) \/ AddTiming(s, e) \/ TestReport(s, e) \/ AddReport(s, e)
    <3>1. \/ tpc[<<s, e>>] = "time" /\ tpc'[<<s, e>>] \in {"timed", "conclude"}
          \/ tpc[<<s, e>>] = "report" /\ tpc'[<<s, e>>] \in {"reporting", "conclude"}
          \/ tpc[<<s, e>>] \in {"timed", "reporting"} /\ tpc'[<<s, e>>] = "conclude"
      BY <1>1, <2>4 DEF TestTiming, AddTiming, TestReport, AddReport
    <3>2. QED
      BY <3>1 DEF ThreadRank
  <2>5. CASE Resume(s, e) \/ Suspend(s, e)
    <3>1. tpc[<<s, e>>] = "conclude" /\ tpc'[<<s, e>>] = "dead"
      BY <1>1, <2>5 DEF Resume, Suspend
    <3>2. QED
      BY <3>1 DEF ThreadRank
  <2>6. QED
    BY <1>1, <2>1, <2>2, <2>3, <2>4, <2>5 DEF ThreadStep
<1>2. TInv /\ [Next]_vars => [ThreadsSpend]_vars
  <2> SUFFICES ASSUME TInv, Next, NEW s \in Searches, NEW e \in Engines, ~ThreadStep(s, e)
               PROVE  ThreadRank(tpc'[<<s, e>>]) <= ThreadRank(tpc[<<s, e>>])
    <3>1. \A p : ThreadRank(p) \in 0 .. 9
      BY DEF ThreadRank
    <3>2. QED
      BY <1>1, <3>1 DEF ThreadsSpend
  <2>1. \/ tpc'[<<s, e>>] = tpc[<<s, e>>]
        \/ tpc[<<s, e>>] = "none" /\ tpc'[<<s, e>>] = "run"
    <3>1. <<s, e>> \in Threads
      BY DEF Threads
    <3>2. CASE Tick \/ \E e1 \in Engines : Register(e1)
      BY <3>2 DEF Tick, Register, threadVars
    <3>3. ASSUME NEW s1 \in Searches, SearchStep(s1)
          PROVE  \/ tpc'[<<s, e>>] = tpc[<<s, e>>]
                 \/ tpc[<<s, e>>] = "none" /\ tpc'[<<s, e>>] = "run"
      BY <3>1, <3>3, SearchStepFrame DEF SearchFrame
    <3>4. ASSUME NEW s1 \in Searches, NEW e1 \in Engines, ThreadStep(s1, e1)
          PROVE  tpc'[<<s, e>>] = tpc[<<s, e>>]
      <4>1. <<s, e>> /= <<s1, e1>>
        BY <3>4
      <4>2. QED
        BY <3>1, <3>4, <4>1, ThreadStepFrame
    <3>5. QED
      BY <3>2, <3>3, <3>4 DEF Next
  <2>2. QED
    BY <2>1 DEF ThreadRank
<1>3. QED
  BY <1>2, TypeInvariant, PTL DEF Spec

\* The conditions of SearchStep for a search under way, of which only those of
\* the join and of the scoring can fail.
CanStep(s) ==
  \/ spc[s] \in {"filter", "skip", "send", "join", "giveup", "post", "iterate"}
  \/ spc[s] = "wait" /\ (tpc[<<s, cur[s]>>] = "dead" \/ now >= wake[s])
  \/ /\ spc[s] = "score"
     /\ \/ results[s] /= counted[s]
        \/ scored[s] = counted[s]
        \/ \E e \in counted[s] : e \notin scored[s]

(***************************************************************************)
(* A search under way can always go on by itself, unless it waits for the  *)
(* thread of an engine and its deadline is still to come: past the         *)
(* deadline, it depends on nobody.                                         *)
(***************************************************************************)
OnlyWaitsInTime ==
  \A s \in Searches : spc[s] \notin {"idle", "done", "crashed"} =>
    CanStep(s) \/ (Waiting(s) /\ now < start[s] + limit[s])

THEOREM SearchesAreNotStuck == Spec => []OnlyWaitsInTime
<1>1. TInv /\ WakeInv /\ BusyInv => OnlyWaitsInTime
  <2> SUFFICES ASSUME TInv, WakeInv, BusyInv, NEW s \in Searches,
                      spc[s] \notin {"idle", "done", "crashed"}, ~CanStep(s)
               PROVE  Waiting(s) /\ now < start[s] + limit[s]
    BY DEF OnlyWaitsInTime
  <2>1. spc[s] \in {"wait", "score"}
    BY DEF CanStep, TInv, TypeOK, SearchPcs
  <2>2. spc[s] /= "score"
    BY DEF CanStep, BusyInv, BusyOK
  <2>3. now < wake[s] /\ tpc[<<s, cur[s]>>] /= "dead"
    BY <2>1, <2>2 DEF CanStep, TInv, TypeOK
  <2>4. wake[s] <= start[s] + limit[s]
    BY <2>1, <2>2, <2>3 DEF WakeInv, WakeOK, TInv, TypeOK
  <2>5. QED
    BY <2>1, <2>2, <2>3, <2>4 DEF Waiting, TInv, TypeOK
<1>2. QED
  BY <1>1, WakeInvariant, BusyInvariant, PTL DEF WInv

-----------------------------------------------------------------------------
(* The contract.                                                           *)

\* What the refinement mapping gives the variables of SearchContract.
PhaseBar   == [s \in Searches |-> PhaseOf(spc[s])]
AskedBar   == [s \in Searches |-> IF PhaseOf(spc[s]) = "preparing" THEN {} ELSE requests[s]]
SettledBar == [s \in Searches |-> {e \in Engines : tpc[<<s, e>>] = "dead"}]
LateBar    == [s \in Searches |-> {e \in Engines : gaveUp[<<s, e>>]}]
ContractStep == [Contract!ContractNext]_(Contract!contractVars)

LEMMA ContractStutters ==
  ASSUME UNCHANGED <<PhaseBar, AskedBar, SettledBar, LateBar>>
  PROVE  ContractStep
  BY DEF ContractStep, Contract!contractVars, PhaseBar, AskedBar, SettledBar, LateBar

\* The search waits for threads of engines that it asked.
CurAskedOK(s) ==
  /\ spc[s] \in {"join", "wait", "giveup"} => joining[s] \subseteq requests[s]
  /\ spc[s] \in {"wait", "giveup"} => cur[s] \in requests[s]
CurAsked == \A s \in Searches : CurAskedOK(s)

LEMMA CurAskedInvariant == Spec => []CurAsked
<1>1. Init => CurAsked
  BY DEF Init, CurAsked, CurAskedOK
<1>2. TInv /\ CurAsked /\ [Next]_vars => CurAsked'
  <2> SUFFICES ASSUME TInv, CurAsked, [Next]_vars
               PROVE  CurAsked'
    OBVIOUS
  <2> USE DEF CurAsked, CurAskedOK
  <2>1. CASE Tick \/ (\E e \in Engines : Register(e)) \/ UNCHANGED vars
    BY <2>1 DEF Tick, Register, vars, searchVars, planVars, joinVars
  <2>2. ASSUME NEW s \in Searches, NEW e \in Engines, ThreadStep(s, e)
        PROVE  CurAsked'
    BY <2>2, ThreadStepFrame DEF searchVars, planVars, joinVars
  <2>3. ASSUME NEW s \in Searches, SearchStep(s)
        PROVE  CurAsked'
    <3>1. ASSUME NEW s1 \in Searches \ {s}
          PROVE  CurAskedOK(s1)'
      BY <2>3, <3>1, SearchStepFrame DEF SearchFrame
    <3>2. CASE spc'[s] \notin {"join", "wait", "giveup"}
      BY <3>1, <3>2
    <3>3. CASE spc'[s] \in {"join", "wait", "giveup"}
      <4> USE DEF TInv, TypeOK, SearchMoves, planVars, joinVars
      <4>1. \/ Enumerate(s) \/ Joined(s) \/ StillAlive(s) \/ GiveUp(s)
            \/ \E e \in Engines : Join(s, e)
        BY <2>3, <3>3 DEF SearchStep, Begin, BeginWithoutEngines, PassOver, FindSuspended,
           Prepare, ReportSuspended, SetTimeout, StartThread, EndJoin, Close, Iterate, Finish,
           Crash, Score, searchVars
      <4>2. CASE Enumerate(s)
        BY <3>1, <4>2 DEF Enumerate
      <4>3. CASE Joined(s) \/ StillAlive(s) \/ GiveUp(s)
        BY <3>1, <4>3 DEF Joined, StillAlive, GiveUp
      <4>4. ASSUME NEW e \in Engines, Join(s, e)
            PROVE  CurAsked'
        BY <3>1, <4>4 DEF Join
      <4>5. QED
        BY <4>1, <4>2, <4>3, <4>4
    <3>4. QED
      BY <3>2, <3>3
  <2>4. QED
    BY <2>1, <2>2, <2>3 DEF Next
<1>3. QED
  BY <1>1, <1>2, TypeInvariant, PTL DEF Spec

\* A step of a search moves its own phase and, unless it gives a thread up, nothing
\* else but the engines it asked, once it has asked them.
LEMMA SearchMovesPhase ==
  ASSUME TInv, NEW s \in Searches, SearchStep(s)
  PROVE  /\ PhaseBar' = [PhaseBar EXCEPT ![s] = PhaseOf(spc'[s])]
         /\ AskedBar' = [AskedBar EXCEPT ![s] = IF PhaseOf(spc'[s]) = "preparing" THEN {}
                                                ELSE requests'[s]]
         /\ SettledBar' = SettledBar
         /\ UNCHANGED gaveUp => LateBar' = LateBar
<1>1. SearchFrame(s)
  BY SearchStepFrame
<1>2. PhaseBar' = [PhaseBar EXCEPT ![s] = PhaseOf(spc'[s])]
  BY <1>1 DEF SearchFrame, PhaseBar
<1>3. AskedBar' = [AskedBar EXCEPT ![s] = IF PhaseOf(spc'[s]) = "preparing" THEN {}
                                          ELSE requests'[s]]
  BY <1>1 DEF SearchFrame, AskedBar
<1>4. SettledBar' = SettledBar /\ (UNCHANGED gaveUp => LateBar' = LateBar)
  BY <1>1 DEF SearchFrame, SettledBar, LateBar, Threads
<1>5. QED
  BY <1>2, <1>3, <1>4

\* The same in the terms of the contract.
LEMMA ContractMove ==
  ASSUME NEW s \in Searches, NEW from, NEW to,
         PhaseBar[s] = from, PhaseBar' = [PhaseBar EXCEPT ![s] = to]
  PROVE  Contract!Move(s, from, to)
  BY DEF Contract!Move, PhaseBar

\* A step of a search that stays in its phase, asks nobody and gives nobody up.
LEMMA PhaseKept ==
  ASSUME TInv, NEW s \in Searches, SearchStep(s), UNCHANGED gaveUp,
         PhaseOf(spc'[s]) = PhaseOf(spc[s]),
         PhaseOf(spc[s]) = "preparing" \/ requests'[s] = requests[s]
  PROVE  ContractStep
<1>1. PhaseBar' = PhaseBar /\ AskedBar' = AskedBar
  BY SearchMovesPhase DEF PhaseBar, AskedBar
<1>2. QED
  BY <1>1, SearchMovesPhase, ContractStutters

\* The steps of a search.
LEMMA SearchStepContract ==
  ASSUME LInv, CurAsked, NEW s \in Searches, SearchStep(s)
  PROVE  ContractStep
<1> USE DEF LInv, JInv, AInv, SearchMoves
<1>a. spc \in [Searches -> SearchPcs] /\ requests \in [Searches -> SUBSET Engines]
  BY DEF TInv, TypeOK
<1>b. PhaseBar[s] = PhaseOf(spc[s]) /\ LateBar[s] = {e \in Engines : gaveUp[<<s, e>>]}
      /\ SettledBar[s] = {e \in Engines : tpc[<<s, e>>] = "dead"}
      /\ AskedBar[s] = IF PhaseOf(spc[s]) = "preparing" THEN {} ELSE requests[s]
  BY DEF PhaseBar, LateBar, AskedBar, SettledBar
<1>1. CASE \/ Begin(s)
           \/ \E e \in Engines : PassOver(s, e) \/ FindSuspended(s, e) \/ Prepare(s, e)
           \/ ReportSuspended(s)
  <2>1. UNCHANGED gaveUp
    BY <1>1 DEF Begin, PassOver, FindSuspended, Prepare, ReportSuspended, outside, threadVars
  <2>2. PhaseOf(spc[s]) = "preparing" /\ PhaseOf(spc'[s]) = "preparing"
    BY <1>1, <1>a DEF Begin, PassOver, FindSuspended, Prepare, ReportSuspended, PhaseOf
  <2>3. QED
    BY <2>1, <2>2, PhaseKept
<1>2. CASE \/ \E e \in Engines : StartThread(s, e) \/ Join(s, e)
           \/ Enumerate(s) \/ Joined(s) \/ StillAlive(s)
  <2>1. UNCHANGED <<gaveUp, requests>>
    BY <1>2 DEF StartThread, Join, Enumerate, Joined, StillAlive, outside, threadVars,
       searchVars, planVars
  <2>2. PhaseOf(spc[s]) = "collecting" /\ PhaseOf(spc'[s]) = "collecting"
    BY <1>2, <1>a DEF StartThread, Join, Enumerate, Joined, StillAlive, PhaseOf, searchVars
  <2>3. QED
    BY <2>1, <2>2, PhaseKept
<1>3. CASE Close(s) \/ Iterate(s) \/ \E e \in Engines : Score(s, e)
  <2>1. UNCHANGED <<gaveUp, requests>>
    BY <1>3 DEF Close, Iterate, Score, threadVars, searchVars, planVars
  <2>2. PhaseOf(spc[s]) = "closing" /\ PhaseOf(spc'[s]) = "closing"
    BY <1>3, <1>a DEF Close, Iterate, Score, PhaseOf, searchVars
  <2>3. QED
    BY <2>1, <2>2, PhaseKept
<1>4. CASE BeginWithoutEngines(s)
  <2>1. UNCHANGED <<gaveUp, requests>> /\ spc[s] = "idle" /\ spc'[s] = "post"
    BY <1>4, <1>a DEF BeginWithoutEngines, outside, threadVars, planVars
  <2>2. requests[s] = {} /\ PhaseOf("idle") = "preparing" /\ PhaseOf("post") = "closing"
    BY <2>1 DEF AskedInv, AskedOK, PhaseOf
  <2>3. AskedBar' = AskedBar
    BY <1>b, <2>1, <2>2, SearchMovesPhase DEF AskedBar
  <2>4. Contract!AskNobody(s)
    <3>1. PhaseBar[s] = "preparing" /\ PhaseBar' = [PhaseBar EXCEPT ![s] = "closing"]
      BY <1>b, <2>1, <2>2, <2>3, SearchMovesPhase
    <3>2. Contract!Move(s, "preparing", "closing")
      BY <3>1, ContractMove
    <3>3. SettledBar' = SettledBar /\ LateBar' = LateBar
      BY <1>b, <2>1, <2>2, <2>3, SearchMovesPhase
    <3>4. QED
      BY <1>b, <2>1, <2>2, <2>3, <3>2, <3>3 DEF Contract!AskNobody, AskedBar, SettledBar, LateBar
  <2>5. QED
    BY <2>4 DEF ContractStep, Contract!ContractNext
<1>5. CASE SetTimeout(s)
  <2>1. UNCHANGED <<gaveUp, requests>> /\ spc[s] = "filter"
        /\ spc'[s] = IF requests[s] = {} THEN "post" ELSE "send"
    BY <1>5, <1>a DEF SetTimeout, outside, threadVars
  <2>2. PhaseOf("filter") = "preparing" /\ PhaseOf("post") = "closing"
        /\ PhaseOf("send") = "collecting"
    BY DEF PhaseOf
  <2>3. CASE requests[s] = {}
    <3>1. AskedBar' = AskedBar
      BY <1>b, <2>1, <2>2, <2>3, SearchMovesPhase DEF AskedBar
    <3>2. Contract!AskNobody(s)
      <4>1. PhaseBar[s] = "preparing" /\ PhaseBar' = [PhaseBar EXCEPT ![s] = "closing"]
        BY <1>b, <2>1, <2>2, <2>3, <3>1, SearchMovesPhase
      <4>2. Contract!Move(s, "preparing", "closing")
        BY <4>1, ContractMove
      <4>3. SettledBar' = SettledBar /\ LateBar' = LateBar
        BY <1>b, <2>1, <2>2, <2>3, <3>1, SearchMovesPhase
      <4>4. QED
        BY <1>b, <2>1, <2>2, <2>3, <3>1, <4>2, <4>3 DEF Contract!AskNobody, AskedBar, SettledBar, LateBar
    <3>3. QED
      BY <3>2 DEF ContractStep, Contract!ContractNext
  <2>4. CASE requests[s] /= {}
    <3>1. requests[s] \in (SUBSET Engines) \ {{}}
      BY <1>a, <2>4
    <3>2. AskedBar' = [AskedBar EXCEPT ![s] = requests[s]]
      BY <2>1, <2>2, <2>4, SearchMovesPhase
    <3>3. Contract!Ask(s)
      <4>1. PhaseBar[s] = "preparing" /\ PhaseBar' = [PhaseBar EXCEPT ![s] = "collecting"]
        BY <1>b, <2>1, <2>2, <2>4, <3>1, <3>2, SearchMovesPhase
      <4>2. Contract!Move(s, "preparing", "collecting")
        BY <4>1, ContractMove
      <4>3. SettledBar' = SettledBar /\ LateBar' = LateBar
        BY <1>b, <2>1, <2>2, <2>4, <3>1, <3>2, SearchMovesPhase
      <4>4. QED
        BY <1>b, <2>1, <2>2, <2>4, <3>1, <3>2, <4>2, <4>3 DEF Contract!Ask, AskedBar, SettledBar, LateBar
    <3>4. QED
      BY <3>3 DEF ContractStep, Contract!ContractNext
  <2>5. QED
    BY <2>3, <2>4
<1>6. CASE GiveUp(s)
  <2>1. /\ UNCHANGED requests /\ spc[s] = "giveup" /\ spc'[s] = "join"
        /\ gaveUp' = [gaveUp EXCEPT ![<<s, cur[s]>>] = TRUE] /\ cur[s] \in Engines
    BY <1>6, <1>a DEF GiveUp, planVars, TInv, CurInv
  <2>2. PhaseOf("giveup") = "collecting" /\ PhaseOf("join") = "collecting"
    BY DEF PhaseOf
  <2>3. PhaseBar' = PhaseBar /\ AskedBar' = AskedBar /\ SettledBar' = SettledBar
    <3>1. PhaseBar' = PhaseBar
      <4>1. PhaseBar' = [PhaseBar EXCEPT ![s] = PhaseBar[s]]
        BY <1>b, <2>1, <2>2, SearchMovesPhase
      <4>2. QED
        BY <4>1 DEF PhaseBar
    <3>2. AskedBar' = AskedBar
      BY <2>1, <2>2, SearchMovesPhase DEF AskedBar
    <3>3. QED
      BY <3>1, <3>2, SearchMovesPhase
  <2>4. LateBar' = [LateBar EXCEPT ![s] = @ \union {cur[s]}]
    <3>1. \A s1 \in Searches, e \in Engines :
            gaveUp'[<<s1, e>>] = (gaveUp[<<s1, e>>] \/ (s1 = s /\ e = cur[s]))
      BY <2>1 DEF TInv, TypeOK, Threads
    <3>2. \A s1 \in Searches : LateBar'[s1] =
            IF s1 = s THEN LateBar[s] \union {cur[s]} ELSE LateBar[s1]
      BY <2>1, <3>1 DEF LateBar
    <3>3. DOMAIN LateBar = Searches /\ DOMAIN LateBar' = Searches
          /\ LateBar = [s1 \in Searches |-> LateBar[s1]]
          /\ LateBar' = [s1 \in Searches |-> LateBar'[s1]]
      BY DEF LateBar
    <3>4. QED
      BY <3>2, <3>3
  <2>5. cur[s] \in requests[s]
    BY <2>1 DEF CurAsked, CurAskedOK
  <2>6. CASE cur[s] \in LateBar[s]
    <3>1. LateBar' = LateBar
      BY <2>4, <2>6 DEF LateBar
    <3>2. QED
      BY <2>3, <3>1, ContractStutters
  <2>7. CASE cur[s] \notin LateBar[s]
    <3>1. PICK e \in Engines : e = cur[s]
      BY <2>1
    <3>2. Contract!WriteOff(s, e)
      BY <1>b, <2>1, <2>2, <2>3, <2>4, <2>5, <2>7, <3>1
         DEF Contract!WriteOff, PhaseBar, AskedBar, SettledBar, LateBar
    <3>3. QED
      BY <3>2 DEF ContractStep, Contract!ContractNext
  <2>8. QED
    BY <2>6, <2>7
<1>7. CASE EndJoin(s)
  <2>1. UNCHANGED <<gaveUp, requests>> /\ spc[s] = "join" /\ spc'[s] = "post" /\ joining[s] = {}
    BY <1>7, <1>a DEF EndJoin, outside, threadVars, planVars
  <2>2. PhaseOf("join") = "collecting" /\ PhaseOf("post") = "closing"
    BY DEF PhaseOf
  <2>3. AskedBar' = AskedBar
    BY <1>b, <2>1, <2>2, SearchMovesPhase DEF AskedBar
  <2>4. \A e \in requests[s] : Accounted(s, e)
    BY <2>1 DEF JoinInv, JoinOK
  <2>5. AskedBar[s] \subseteq SettledBar[s] \union LateBar[s]
    BY <1>a, <1>b, <2>1, <2>2, <2>4 DEF Accounted
  <2>6. Contract!StopCollecting(s)
    <3>1. PhaseBar[s] = "collecting" /\ PhaseBar' = [PhaseBar EXCEPT ![s] = "closing"]
      BY <1>b, <2>1, <2>2, <2>3, <2>5, SearchMovesPhase
    <3>2. Contract!Move(s, "collecting", "closing")
      BY <3>1, ContractMove
    <3>3. SettledBar' = SettledBar /\ LateBar' = LateBar
      BY <1>b, <2>1, <2>2, <2>3, <2>5, SearchMovesPhase
    <3>4. QED
      BY <1>b, <2>1, <2>2, <2>3, <2>5, <3>2, <3>3 DEF Contract!StopCollecting, AskedBar, SettledBar, LateBar
  <2>7. QED
    BY <2>6 DEF ContractStep, Contract!ContractNext
<1>8. CASE Finish(s) \/ Crash(s)
  <2>1. UNCHANGED <<gaveUp, requests>> /\ spc[s] = "score"
        /\ spc'[s] = IF Finish(s) THEN "done" ELSE "crashed"
    BY <1>8, <1>a DEF Finish, Crash, outside, threadVars, planVars
  <2>2. PhaseOf("score") = "closing" /\ PhaseOf("done") = "answered"
        /\ PhaseOf("crashed") = "failed"
    BY DEF PhaseOf
  <2>3. AskedBar' = AskedBar
    BY <1>b, <2>1, <2>2, SearchMovesPhase DEF AskedBar
  <2>4. CASE Finish(s)
    <3>1. Contract!Answer(s)
      <4>1. PhaseBar[s] = "closing" /\ PhaseBar' = [PhaseBar EXCEPT ![s] = "answered"]
        BY <1>b, <2>1, <2>2, <2>3, <2>4, SearchMovesPhase
      <4>2. Contract!Move(s, "closing", "answered")
        BY <4>1, ContractMove
      <4>3. SettledBar' = SettledBar /\ LateBar' = LateBar
        BY <1>b, <2>1, <2>2, <2>3, <2>4, SearchMovesPhase
      <4>4. QED
        BY <1>b, <2>1, <2>2, <2>3, <2>4, <4>2, <4>3 DEF Contract!Answer, AskedBar, SettledBar, LateBar
    <3>2. QED
      BY <3>1 DEF ContractStep, Contract!ContractNext
  <2>5. CASE ~Finish(s)
    <3>1. counted[s] \subseteq results[s] /\ results[s] /= counted[s]
          /\ (\A e \in results[s] \ counted[s] : gaveUp[<<s, e>>])
          /\ results[s] \subseteq Engines
      BY <1>8, <2>1, <2>5 DEF Crash, LateInv, LateOK, TInv, TypeOK
    <3>2. LateBar[s] /= {}
      BY <1>b, <3>1
    <3>3. Contract!Fail(s)
      <4>1. PhaseBar[s] = "closing" /\ PhaseBar' = [PhaseBar EXCEPT ![s] = "failed"]
        BY <1>b, <2>1, <2>2, <2>3, <2>5, <3>2, SearchMovesPhase
      <4>2. Contract!Move(s, "closing", "failed")
        BY <4>1, ContractMove
      <4>3. SettledBar' = SettledBar /\ LateBar' = LateBar
        BY <1>b, <2>1, <2>2, <2>3, <2>5, <3>2, SearchMovesPhase
      <4>4. QED
        BY <1>b, <2>1, <2>2, <2>3, <2>5, <3>2, <4>2, <4>3 DEF Contract!Fail, AskedBar, SettledBar, LateBar
    <3>4. QED
      BY <3>3 DEF ContractStep, Contract!ContractNext
  <2>6. QED
    BY <2>4, <2>5
<1>9. QED
  BY <1>1, <1>2, <1>3, <1>4, <1>5, <1>6, <1>7, <1>8 DEF SearchStep

\* A step of a thread settles its engine, if it is the last one.
LEMMA ThreadStepContract ==
  ASSUME LInv, NEW s \in Searches, NEW e \in Engines, ThreadStep(s, e)
  PROVE  ContractStep
<1> <<s, e>> \in Threads
  BY DEF Threads
<1>1. /\ UNCHANGED <<spc, requests, gaveUp>> /\ tpc[<<s, e>>] \notin {"none", "dead"}
      /\ \A t \in Threads : t /= <<s, e>> => tpc'[t] = tpc[t]
  BY ThreadStepFrame DEF LInv, JInv, AInv, searchVars, planVars
<1>2. PhaseBar' = PhaseBar /\ AskedBar' = AskedBar /\ LateBar' = LateBar
  BY <1>1 DEF PhaseBar, AskedBar, LateBar
<1>3. CASE tpc'[<<s, e>>] /= "dead"
  <2>1. SettledBar' = SettledBar
    BY <1>1, <1>3 DEF SettledBar, Threads
  <2>2. QED
    BY <1>2, <2>1, ContractStutters
<1>4. CASE tpc'[<<s, e>>] = "dead"
  <2>1. SettledBar' = [SettledBar EXCEPT ![s] = @ \union {e}]
    <3>1. \A s1 \in Searches, e1 \in Engines :
            tpc'[<<s1, e1>>] = "dead" <=> tpc[<<s1, e1>>] = "dead" \/ (s1 = s /\ e1 = e)
      BY <1>1, <1>4 DEF Threads
    <3>2. QED
      BY <3>1 DEF SettledBar
  <2>2. e \in requests[s] /\ spc[s] \notin {"idle", "filter", "skip"}
    BY <1>1 DEF LInv, JInv, AInv, AskedInv, AskedOK
  <2>3. e \in AskedBar[s] \ SettledBar[s]
    BY <1>1, <2>2 DEF AskedBar, SettledBar, PhaseOf
  <2>4. Contract!Settle(s, e)
    BY <1>2, <2>1, <2>3 DEF Contract!Settle, PhaseBar, AskedBar, SettledBar, LateBar
  <2>5. QED
    BY <2>4 DEF ContractStep, Contract!ContractNext
<1>5. QED
  BY <1>3, <1>4

(***************************************************************************)
(* The pipeline implements the contract of a search: it closes only over   *)
(* engines that settled or were written off, and fails only if it wrote    *)
(* one off (search_multiple_requests and BlendResults.close).              *)
(***************************************************************************)
THEOREM PipelineImplementsContract == Spec => ImplementsContract
<1>1. Init => Contract!ContractInit
  <2> SUFFICES ASSUME Init
               PROVE  Contract!ContractInit
    OBVIOUS
  <2>1. /\ PhaseBar = [s \in Searches |-> "preparing"] /\ AskedBar = [s \in Searches |-> {}]
        /\ SettledBar = [s \in Searches |-> {}] /\ LateBar = [s \in Searches |-> {}]
    BY DEF Init, PhaseOf, PhaseBar, AskedBar, SettledBar, LateBar, Threads
  <2>2. QED
    BY <2>1 DEF Contract!ContractInit, PhaseBar, AskedBar, SettledBar, LateBar
<1>2. LInv /\ CurAsked /\ [Next]_vars => ContractStep
  <2>1. ASSUME Tick \/ (\E e \in Engines : Register(e)) \/ UNCHANGED vars
        PROVE  ContractStep
    <3>1. UNCHANGED <<spc, requests, tpc, gaveUp>>
      BY <2>1 DEF Tick, Register, vars, outside, searchVars, planVars, threadVars
    <3>2. QED
      BY <3>1, ContractStutters DEF PhaseBar, AskedBar, SettledBar, LateBar
  <2>2. QED
    BY <2>1, SearchStepContract, ThreadStepContract DEF Next
<1>3. QED
  BY <1>1, <1>2, LateInvariant, CurAskedInvariant, PTL
     DEF Spec, ImplementsContract, Contract!ContractSpec, ContractStep

-----------------------------------------------------------------------------
(* Bans.                                                                   *)

\* The clock is never at zero, the end of a ban that there is not.
LEMMA ClockRuns == Spec => [](TInv /\ now > 0)
<1>1. Init => now > 0
  BY DEF Init
<1>2. TInv /\ now > 0 /\ [Next]_vars => (now > 0)'
  <2> SUFFICES ASSUME TInv, now > 0, [Next]_vars
               PROVE  now' > 0
    OBVIOUS
  <2>1. CASE Tick
    BY <2>1 DEF Tick, TInv, TypeOK
  <2>2. ASSUME NEW s \in Searches, SearchStep(s)
        PROVE  now' > 0
    BY <2>2, SearchStepFrame DEF SearchFrame, clockVars
  <2>3. ASSUME NEW s \in Searches, NEW e \in Engines, ThreadStep(s, e)
        PROVE  now' > 0
    BY <2>3, ThreadStepFrame DEF clockVars
  <2>4. QED
    BY <2>1, <2>2, <2>3 DEF Next, Register, vars, outside, shared, clockVars
<1>3. QED
  BY <1>1, <1>2, TypeInvariant, PTL DEF Spec

(***************************************************************************)
(* A ban that has not ended is lifted by an answer only: never by an error *)
(* and never by the answer of a thread that was given up (suspend, resume  *)
(* and extend_container of the processors).                                *)
(***************************************************************************)
THEOREM BansAreLiftedByAnswers == Spec => BanLiftedByAnswerOnly
<1> DEFINE Answered(n) == \E s \in Searches, e \in Engines :
                            /\ NetworkOf[e] = n
                            /\ tpc[<<s, e>>] /= "dead" /\ tpc'[<<s, e>>] = "dead"
                            /\ reply[<<s, e>>] \in {"results", "nothing"}
<1>1. TInv /\ now > 0 /\ [Next]_vars =>
        [\A n \in Networks : Suspended(n) /\ banUntil'[n] = 0 => Answered(n)]_vars
  <2> SUFFICES ASSUME TInv, now > 0, [Next]_vars,
                      NEW n \in Networks, banUntil[n] >= now, banUntil'[n] = 0
               PROVE  Answered(n)
    BY DEF Suspended
  <2>1. banUntil'[n] /= banUntil[n]
    BY DEF TInv, TypeOK
  <2>2. PICK s \in Searches, e \in Engines : ThreadStep(s, e)
    BY <2>1, SearchStepFrame
       DEF Next, Tick, Register, SearchFrame, banVars, vars, outside, shared
  <2>3. <<s, e>> \in Threads
    BY DEF Threads
  <2>4. CASE Resume(s, e)
    <3>1. NetworkOf[e] = n
      BY <2>1, <2>4, ConstantTypes DEF Resume, TInv, TypeOK
    <3>2. tpc[<<s, e>>] /= "dead" /\ tpc'[<<s, e>>] = "dead"
      BY <2>3, <2>4 DEF Resume, ThreadMoves, TInv, TypeOK
    <3>3. QED
      BY <2>4, <3>1, <3>2 DEF Resume
  <2>5. CASE Suspend(s, e)
    <3>1. CASE reply[<<s, e>>] \in Suspending
      <4>1. now + BanTime(reply[<<s, e>>]) > 0
        BY <3>1, BanTimeType DEF TInv, TypeOK
      <4>2. QED
        BY <2>1, <2>5, <3>1, <4>1, ConstantTypes DEF Suspend, TInv, TypeOK
    <3>2. CASE reply[<<s, e>>] \notin Suspending
      BY <2>1, <2>5, <3>2 DEF Suspend, banVars
    <3>3. QED
      BY <3>1, <3>2
  <2>6. QED
    BY <2>1, <2>2, <2>4, <2>5
       DEF ThreadStep, Reply, CheckInTime, Extend, Merge, MergeFails, TestTiming, AddTiming,
           TestReport, AddReport, shared, banVars
<1>2. QED
  BY <1>1, ClockRuns, PTL DEF Spec, BanLiftedByAnswerOnly
-----------------------------------------------------------------------------
(* Counters.                                                               *)

\* The searches that asked an engine, those whose thread is not dead yet, and
\* those whose thread ended without a result and without an error.
Asked(e)    == {s \in Searches : e \in requests[s]}
Open(e)     == {s \in Asked(e) : tpc[<<s, e>>] /= "dead"}
Declined(e) == {s \in Asked(e) : /\ tpc[<<s, e>>] = "dead"
                                 /\ reply[<<s, e>>] \in {"nothing", "invalid"}}

\* An engine that is still to be tried has not been asked.
PlanInv == \A s \in Searches : spc[s] \in {"filter", "skip"} => todo[s] \intersect requests[s] = {}

BalanceOK(e) ==
  /\ IsFiniteSet(Asked(e))
  /\ sent[e] = successful[e] + errors[e] + Cardinality(Open(e)) + Cardinality(Declined(e))
BalanceInv == \A e \in Engines : BalanceOK(e)

\* The open and the declined requests are some of those that were asked.
LEMMA CountsAreNumbers ==
  ASSUME NEW e, IsFiniteSet(Asked(e))
  PROVE  /\ IsFiniteSet(Open(e)) /\ Cardinality(Open(e)) \in Nat
         /\ IsFiniteSet(Declined(e)) /\ Cardinality(Declined(e)) \in Nat
<1>1. Open(e) \in SUBSET Asked(e) /\ Declined(e) \in SUBSET Asked(e)
  BY DEF Open, Declined
<1>2. QED
  BY <1>1, FS_Subset, FS_CardinalityType

\* The steps of a search but Prepare count nothing and end no thread.
LEMMA SearchStepCounts ==
  ASSUME AInv, BalanceInv, NEW s \in Searches, SearchStep(s),
         \A e \in Engines : ~Prepare(s, e)
  PROVE  BalanceInv'
<1> USE DEF AInv
<1>1. SearchFrame(s)
  BY SearchStepFrame
<1>2. UNCHANGED <<metricVars, requests>>
  BY DEF SearchStep, Begin, BeginWithoutEngines, PassOver, FindSuspended, ReportSuspended,
         SetTimeout, StartThread, Join, Enumerate, Joined, StillAlive, GiveUp, EndJoin, Close,
         Iterate, Finish, Crash, Score, outside, shared, planVars, searchVars
<1>3. \A t \in Threads : reply'[t] = reply[t] /\ (tpc'[t] = "dead" <=> tpc[t] = "dead")
  BY <1>1 DEF SearchFrame
<1>4. ASSUME NEW e \in Engines
      PROVE  BalanceOK(e)'
  <2>1. Asked(e)' = Asked(e) /\ Open(e)' = Open(e) /\ Declined(e)' = Declined(e)
    BY <1>2, <1>3 DEF Asked, Open, Declined, Threads
  <2>2. QED
    BY <1>2, <2>1 DEF BalanceInv, BalanceOK, metricVars
<1>5. QED
  BY <1>4 DEF BalanceInv

\* Prepare counts a request as sent, and it is open.
LEMMA PrepareCounts ==
  ASSUME AInv, PlanInv, BalanceInv, NEW s \in Searches, NEW e \in Engines, Prepare(s, e)
  PROVE  BalanceInv'
<1> USE DEF AInv, TInv
<1>1. s \notin Asked(e) /\ tpc[<<s, e>>] /= "dead"
  BY DEF Prepare, PlanInv, AskedInv, AskedOK, Asked
<1>2. requests' = [requests EXCEPT ![s] = @ \union {e}] /\ UNCHANGED <<tpc, reply>>
  BY DEF Prepare, threadVars
<1>3. sent' = [sent EXCEPT ![e] = @ + 1] /\ UNCHANGED <<successful, errors>>
  BY DEF Prepare
<1>4. ASSUME NEW e1 \in Engines, e1 /= e
      PROVE  BalanceOK(e1)'
  <2>1. Asked(e1)' = Asked(e1)
    BY <1>2, <1>4 DEF Asked, TypeOK
  <2>2. Open(e1)' = Open(e1) /\ Declined(e1)' = Declined(e1)
    BY <1>2, <2>1 DEF Open, Declined
  <2>3. QED
    BY <1>3, <1>4, <2>1, <2>2 DEF BalanceInv, BalanceOK, TypeOK
<1>5. BalanceOK(e)'
  <2>1. Asked(e)' = Asked(e) \union {s}
    BY <1>2 DEF Asked, TypeOK
  <2>2. Open(e)' = Open(e) \union {s} /\ s \notin Open(e)
    BY <1>1, <1>2, <2>1 DEF Open
  <2>3. Declined(e)' = Declined(e)
    BY <1>1, <1>2, <2>1 DEF Declined
  <2>4. /\ IsFiniteSet(Asked(e)) /\ IsFiniteSet(Open(e))
        /\ Cardinality(Open(e)) \in Nat /\ Cardinality(Declined(e)) \in Nat
    BY CountsAreNumbers DEF BalanceInv, BalanceOK
  <2>5. IsFiniteSet(Asked(e))' /\ Cardinality(Open(e))' = Cardinality(Open(e)) + 1
    <3>1. /\ IsFiniteSet(Asked(e) \union {s})
          /\ Cardinality(Open(e) \union {s}) = Cardinality(Open(e)) + 1
      BY <2>2, <2>4, FS_AddElement
    <3>2. QED
      BY <2>1, <2>2, <3>1
  <2>6. sent'[e] = sent[e] + 1 /\ {sent[e], successful[e], errors[e]} \subseteq Nat
    BY <1>3 DEF TypeOK
  <2>7. Cardinality(Declined(e))' = Cardinality(Declined(e))
    BY <2>3, Zenon
  <2>8. sent[e] = successful[e] + errors[e] + Cardinality(Open(e)) + Cardinality(Declined(e))
    BY DEF BalanceInv, BalanceOK
  <2>9. successful'[e] = successful[e] /\ errors'[e] = errors[e]
    BY <1>3
  <2>10. QED
    BY <2>4, <2>5, <2>6, <2>7, <2>8, <2>9 DEF BalanceOK
<1>6. QED
  BY <1>4, <1>5 DEF BalanceInv

\* A thread that ends is counted as a success or as an error, or is declined.
LEMMA ThreadStepCounts ==
  ASSUME AInv, BalanceInv, NEW s \in Searches, NEW e \in Engines, ThreadStep(s, e)
  PROVE  BalanceInv'
<1> USE DEF AInv, TInv
<1>t. <<s, e>> \in Threads
  BY DEF Threads
<1>1. /\ UNCHANGED requests /\ tpc[<<s, e>>] \notin {"none", "dead"}
      /\ \A t \in Threads : t /= <<s, e>> => tpc'[t] = tpc[t] /\ reply'[t] = reply[t]
  BY ThreadStepFrame DEF searchVars, planVars
<1>2. s \in Open(e) /\ s \notin Declined(e)
  BY <1>1 DEF AskedInv, AskedOK, Open, Declined, Asked
<1>3. \A e1 \in Engines : Asked(e1)' = Asked(e1)
  BY <1>1 DEF Asked
<1>4. \A e1 \in Engines : e1 /= e => Open(e1)' = Open(e1) /\ Declined(e1)' = Declined(e1)
  BY <1>1, <1>3 DEF Open, Declined, Asked, Threads
<1>5. \A e1 \in Engines : /\ IsFiniteSet(Asked(e1)) /\ IsFiniteSet(Open(e1))
                          /\ IsFiniteSet(Declined(e1)) /\ Cardinality(Open(e1)) \in Nat
                          /\ Cardinality(Declined(e1)) \in Nat
  BY CountsAreNumbers DEF BalanceInv, BalanceOK
<1>6. \A e1 \in Engines : {sent[e1], successful[e1], errors[e1]} \subseteq Nat
  BY DEF TypeOK
<1>7. CASE tpc'[<<s, e>>] /= "dead"
  <2>1. Open(e)' = Open(e) /\ Declined(e)' = Declined(e)
    BY <1>1, <1>3, <1>7 DEF Open, Declined, Asked, Threads
  <2>2. UNCHANGED metricVars
    BY <1>t, <1>7 DEF ThreadStep, Reply, CheckInTime, Extend, Merge, MergeFails, TestTiming,
       AddTiming, TestReport, AddReport, Resume, Suspend, ThreadMoves, shared, TypeOK
  <2>3. QED
    BY <1>3, <1>4, <2>1, <2>2 DEF BalanceInv, BalanceOK, metricVars
<1>8. CASE tpc'[<<s, e>>] = "dead"
  <2>1. Open(e)' = Open(e) \ {s} /\ Cardinality(Open(e)') = Cardinality(Open(e)) - 1
    <3>1. Open(e)' = Open(e) \ {s}
      BY <1>1, <1>3, <1>8 DEF Open, Asked, Threads
    <3>2. QED
      BY <1>2, <1>5, <3>1, FS_RemoveElement
  <2>2. Declined(e)' = IF reply'[<<s, e>>] \in {"nothing", "invalid"}
                       THEN Declined(e) \union {s} ELSE Declined(e)
    BY <1>1, <1>2, <1>3, <1>8 DEF Open, Declined, Asked, Threads
  <2>3. Cardinality(Declined(e)') = IF reply'[<<s, e>>] \in {"nothing", "invalid"}
                                    THEN Cardinality(Declined(e)) + 1
                                    ELSE Cardinality(Declined(e))
    <3>1. Cardinality(Declined(e) \union {s}) = Cardinality(Declined(e)) + 1
      BY <1>2, <1>5, FS_AddElement
    <3>2. QED
      BY <2>2, <3>1
  <2>4. SUFFICES
          /\ UNCHANGED sent
          /\ \A e1 \in Engines : e1 /= e => successful'[e1] = successful[e1] /\ errors'[e1] = errors[e1]
          /\ successful'[e] + errors'[e]
               = successful[e] + errors[e]
                   + (IF reply'[<<s, e>>] \in {"nothing", "invalid"} THEN 0 ELSE 1)
          /\ successful'[e] \in Nat /\ errors'[e] \in Nat
    <3>1. Cardinality(Open(e)') = Cardinality(Open(e)) - 1
      BY <2>1
    <3>2. BalanceOK(e)'
      BY <1>3, <1>5, <1>6, <2>3, <2>4, <3>1 DEF BalanceInv, BalanceOK
    <3>3. ASSUME NEW e1 \in Engines, e1 /= e
          PROVE  BalanceOK(e1)'
      BY <1>3, <1>4, <2>4, <3>3 DEF BalanceInv, BalanceOK
    <3>4. QED
      BY <3>2, <3>3 DEF BalanceInv
  <2>5. CASE Reply(s, e)
    <3>1. reply'[<<s, e>>] = "invalid"
      BY <1>t, <1>8, <2>5 DEF Reply, Handler, TypeOK
    <3>2. UNCHANGED metricVars
      BY <2>5 DEF Reply, shared
    <3>3. QED
      BY <1>6, <3>1, <3>2 DEF metricVars
  <2>6. CASE Resume(s, e)
    BY <2>6 DEF Resume, TypeOK
  <2>7. CASE Suspend(s, e)
    <3>1. reply'[<<s, e>>] \notin {"nothing", "invalid"}
      BY <2>7 DEF Suspend, Failures, Suspending
    <3>2. errors' = [errors EXCEPT ![e] = @ + 1] /\ UNCHANGED <<sent, successful>>
      BY <2>7 DEF Suspend
    <3>3. QED
      BY <1>6, <3>1, <3>2 DEF TypeOK
  <2>8. QED
    BY <1>t, <1>8, <2>5, <2>6, <2>7 DEF ThreadStep, CheckInTime, Extend, Merge, MergeFails,
       TestTiming, AddTiming, TestReport, AddReport, ThreadMoves, TypeOK
<1>9. QED
  BY <1>7, <1>8

\* The plan of a search and the counters stay in balance.
LEMMA BalanceInvariant == Spec => [](PlanInv /\ BalanceInv)
<1>1. Init => PlanInv /\ BalanceInv
  <2> SUFFICES ASSUME Init
               PROVE  PlanInv /\ BalanceInv
    OBVIOUS
  <2>1. \A e \in Engines : Asked(e) = {} /\ Open(e) = {} /\ Declined(e) = {}
    BY DEF Init, Asked, Open, Declined
  <2>2. ASSUME NEW e \in Engines
        PROVE  BalanceOK(e)
    <3>1. /\ IsFiniteSet(Asked(e))
          /\ Cardinality(Open(e)) = 0 /\ Cardinality(Declined(e)) = 0
      BY <2>1, FS_EmptySet, Zenon
    <3>2. sent[e] = 0 /\ successful[e] = 0 /\ errors[e] = 0
      BY DEF Init
    <3>3. QED
      BY <3>1, <3>2 DEF BalanceOK
  <2>3. QED
    BY <2>2 DEF Init, PlanInv, BalanceInv
<1>2. AInv /\ PlanInv /\ BalanceInv /\ [Next]_vars => (PlanInv /\ BalanceInv)'
  <2> SUFFICES ASSUME AInv, PlanInv, BalanceInv, [Next]_vars
               PROVE  PlanInv' /\ BalanceInv'
    OBVIOUS
  <2>1. CASE Tick \/ (\E e \in Engines : Register(e)) \/ UNCHANGED vars
    <3>1. UNCHANGED <<searchVars, threadVars, metricVars>>
      BY <2>1 DEF Tick, Register, vars, outside, shared
    <3>2. QED
      BY <3>1 DEF PlanInv, BalanceInv, BalanceOK, Asked, Open, Declined, searchVars, planVars,
                  threadVars, metricVars
  <2>2. ASSUME NEW s \in Searches, SearchStep(s)
        PROVE  PlanInv' /\ BalanceInv'
    <3>1. BalanceInv'
      BY <2>2, SearchStepCounts, PrepareCounts
    <3>2. PlanInv'
      <4> USE DEF AInv, TInv, TypeOK, AskedInv, AskedOK, PlanInv, SearchMoves
      <4>1. CASE Begin(s)
        BY <4>1 DEF Begin
      <4>2. ASSUME NEW e \in Engines, PassOver(s, e) \/ FindSuspended(s, e)
            PROVE  PlanInv'
        BY <4>2 DEF PassOver, FindSuspended
      <4>3. ASSUME NEW e \in Engines, Prepare(s, e)
            PROVE  PlanInv'
        BY <4>3 DEF Prepare
      <4>4. CASE \/ BeginWithoutEngines(s) \/ ReportSuspended(s) \/ SetTimeout(s)
                 \/ \E e \in Engines : StartThread(s, e) \/ Join(s, e) \/ Score(s, e)
        BY <4>4 DEF BeginWithoutEngines, ReportSuspended, SetTimeout, StartThread, Join, Score,
                    searchVars, planVars
      <4>5. CASE \/ Enumerate(s) \/ Joined(s) \/ StillAlive(s) \/ GiveUp(s) \/ EndJoin(s)
                 \/ Close(s) \/ Iterate(s) \/ Finish(s) \/ Crash(s)
        BY <4>5 DEF Enumerate, Joined, StillAlive, GiveUp, EndJoin, Close, Iterate, Finish,
                    Crash, planVars
      <4>6. QED
        BY <2>2, <4>1, <4>2, <4>3, <4>4, <4>5 DEF SearchStep
    <3>3. QED
      BY <3>1, <3>2
  <2>3. ASSUME NEW s \in Searches, NEW e \in Engines, ThreadStep(s, e)
        PROVE  PlanInv' /\ BalanceInv'
    <3>1. UNCHANGED <<spc, todo, requests>>
      BY <2>3, ThreadStepFrame DEF AInv, searchVars, planVars
    <3>2. QED
      BY <2>3, <3>1, ThreadStepCounts DEF PlanInv
  <2>4. QED
    BY <2>1, <2>2, <2>3 DEF Next
<1>3. QED
  BY <1>1, <1>2, AskedInvariant, PTL DEF Spec

(***************************************************************************)
(* Each request that was counted as sent is counted once more when its     *)
(* thread is dead, as a success or as an error, unless it was declined     *)
(* (inc of the metrics in _get_requests, _record_call and the processors). *)
(***************************************************************************)
THEOREM OutcomesBalance == Spec => []OutcomeCountedOnce
<1>1. BalanceInv => OutcomeCountedOnce
  <2> SUFFICES ASSUME BalanceInv, NEW e \in Engines
               PROVE  sent[e] = successful[e] + errors[e] + Cardinality(Open(e))
                                  + Cardinality(Declined(e))
    <3>1. \A e1 : {s \in Asked(e1) \ Open(e1) : reply[<<s, e1>>] \in {"nothing", "invalid"}}
                    = Declined(e1)
      BY DEF Open, Declined
    <3>2. QED
      BY <3>1 DEF OutcomeCountedOnce, Asked, Open
  <2>1. QED
    BY DEF BalanceInv, BalanceOK
<1>2. QED
  BY <1>1, BalanceInvariant, PTL
=============================================================================
