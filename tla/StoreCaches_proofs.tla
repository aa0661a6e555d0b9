------------------------- MODULE StoreCaches_proofs -------------------------
(***************************************************************************)
(* Theorems about what is kept in files: the two caches in SQLite          *)
(* (ExpireCache and FaviconCache) and the pid file of the server           *)
(* (ServerControl), for any threads, keys, periods, times, pids and ports. *)
(* Sums of sizes are folds over sets of icons: what the proofs need of     *)
(* them is shown for a smallest set of which it would be wrong.            *)
(***************************************************************************)
EXTENDS ExpireCache, FaviconCache, ServerControl, FiniteSetTheorems,
        WellFoundedInduction, TLAPS

-----------------------------------------------------------------------------
(* ExpireCache.                                                            *)

OldRow(k) == rows[k] # None /\ rows[k].by # password
Stale(k) == rows[k] # None /\ rows[k].expire < last
NoOld == \A k \in Keys : ~OldRow(k)
AnyStale == \E k \in Keys : Stale(k)

(* Passwords are new when they are first used: neither a row nor the hash  *)
(* token is of a later one.                                                *)
NoLater == /\ \A k \in Keys : rows[k] # None => rows[k].by <= password
           /\ token # None => token <= password

(* Rows are only in a table that truncate_tables knows.                    *)
RowsListed == /\ (\E k \in Keys : rows[k] # None) => listed
              /\ \A t \in Threads : step[t] = "insert" => listed

(* The hash of the password is stored when no row of another is left.      *)
TokenClean == token = password \/ (\E t \in Threads : step[t] = "token") => NoOld

(* Somebody is about to delete all that had expired at the last            *)
(* maintenance; without it nobody is about to delete anything.             *)
Sweeper(t) == (due[t] /\ cutoff[t] = last) \/ step[t] = "truncate"
StaleSwept == AnyStale => crashed \/ \E t \in Threads : Sweeper(t)
DueSweeps == AnyStale /\ (\E t \in Threads : due[t]) => \E t \in Threads : Sweeper(t)

DueWhenSweeping == \A t \in Threads : step[t] = "sweep" => due[t]

Clock == last <= now

CacheInv == /\ CacheTypeOK /\ Clock /\ NoLater /\ RowsListed /\ TokenClean
            /\ OldRowsNeedInit /\ DueWhenSweeping /\ StaleSwept /\ DueSweeps

LEMMA CacheInitInv == CacheInit => CacheInv
<1> SUFFICES ASSUME CacheInit PROVE CacheInv
  OBVIOUS
<1>1. CacheTypeOK
  <2>1. now \in Nat /\ password \in 1 .. MaxPassword /\ last \in Nat
    BY PasswordAssumption DEF CacheInit
  <2>2. initDone \in BOOLEAN /\ listed \in BOOLEAN /\ crashed \in BOOLEAN
    BY DEF CacheInit
  <2>3. token \in 1 .. MaxPassword \cup {None} /\ rows \in [Keys -> Rows \cup {None}]
    BY DEF CacheInit
  <2>4. step \in [Threads -> Steps] /\ cutoff \in [Threads -> Nat]
    BY DEF CacheInit, Steps
  <2>5. due \in [Threads -> BOOLEAN] /\ job \in [Threads -> Jobs \cup {None}]
    BY DEF CacheInit
  <2> QED
    BY <2>1, <2>2, <2>3, <2>4, <2>5 DEF CacheTypeOK
<1>2. \A k \in Keys : rows[k] = None
  BY DEF CacheInit
<1> QED
  BY <1>1, <1>2 DEF CacheInit, CacheInv, Clock, NoLater, RowsListed, TokenClean,
     NoOld, OldRow, OldRowsNeedInit, DueWhenSweeping, StaleSwept, DueSweeps, AnyStale, Stale

(* The types.                                                              *)
LEMMA CacheStepType == ASSUME CacheTypeOK, [CacheNext]_cacheVars PROVE CacheTypeOK'
<1>1. ASSUME NEW t \in Threads, Begin(t) PROVE CacheTypeOK'
  BY <1>1 DEF Begin, Goto, diskVars, CacheTypeOK, Steps
<1>2. ASSUME NEW t \in Threads, MarkMaintenance(t) PROVE CacheTypeOK'
  BY <1>2 DEF MarkMaintenance, Goto, CacheTypeOK, Steps
<1>3. ASSUME NEW t \in Threads, Connect(t) PROVE CacheTypeOK'
  <2>1. step' \in [Threads -> Steps]
    <3>1. \E s \in Steps : step' = [step EXCEPT ![t] = s]
      BY <1>3 DEF Connect, Onward, Goto, Steps
    <3> QED
      BY <3>1 DEF CacheTypeOK
  <2> QED
    BY <1>3, <2>1 DEF Connect, diskVars, CacheTypeOK
<1>4. ASSUME NEW t \in Threads, ForceMaintenance(t) PROVE CacheTypeOK'
  <2>1. step' \in [Threads -> Steps]
    BY <1>4 DEF ForceMaintenance, Goto, CacheTypeOK, Steps
  <2> QED
    BY <1>4, <2>1 DEF ForceMaintenance, CacheTypeOK
<1>5. ASSUME NEW t \in Threads, Truncate(t) PROVE CacheTypeOK'
  BY <1>5 DEF Truncate, Goto, CacheTypeOK, Steps
<1>6. ASSUME NEW t \in Threads, StoreToken(t) PROVE CacheTypeOK'
  BY <1>6 DEF StoreToken, Onward, Goto, CacheTypeOK, Steps
<1>7. ASSUME NEW t \in Threads, Sweep(t) PROVE CacheTypeOK'
  BY <1>7 DEF Sweep, Goto, CacheTypeOK, Steps
<1>8. ASSUME NEW t \in Threads, Get(t) PROVE CacheTypeOK'
  BY <1>8 DEF Get, Goto, diskVars, CacheTypeOK, Steps
<1>9. ASSUME NEW t \in Threads, CreateTable(t) PROVE CacheTypeOK'
  BY <1>9 DEF CreateTable, Goto, CacheTypeOK, Steps
<1>10. ASSUME NEW t \in Threads, Insert(t) PROVE CacheTypeOK'
  <2>1. rows' \in [Keys -> Rows \cup {None}]
    <3>1. CASE rows' = rows
      BY <3>1 DEF CacheTypeOK
    <3>2. CASE rows' # rows
      <4>1. PICK hold \in 1 .. MaxHold :
              rows' = [rows EXCEPT ![job[t].key] =
                         [by |-> password, expire |-> now + hold]]
        BY <1>10, <3>2 DEF Insert
      <4>2. [by |-> password, expire |-> now + hold] \in Rows
        BY PeriodAssumption DEF CacheTypeOK, Rows
      <4> QED
        BY <4>1, <4>2 DEF CacheTypeOK
    <3> QED
      BY <3>1, <3>2
  <2> QED
    BY <1>10, <2>1 DEF Insert, Goto, CacheTypeOK, Steps
<1>11. ASSUME Crash PROVE CacheTypeOK'
  <2>1. password' \in 1 .. MaxPassword
    BY <1>11, PasswordAssumption DEF Crash, CacheTypeOK
  <2> QED
    BY <1>11, <2>1 DEF Crash, diskVars, CacheTypeOK, Steps
<1>12. ASSUME CacheTick \/ UNCHANGED cacheVars PROVE CacheTypeOK'
  BY <1>12, PeriodAssumption
  DEF CacheTick, Tick, cacheVars, cacheState, diskVars, CacheTypeOK
<1> QED
  BY <1>1, <1>2, <1>3, <1>4, <1>5, <1>6, <1>7, <1>8, <1>9, <1>10, <1>11, <1>12
  DEF CacheNext, Operation

(* Steps that store no row and no token, and after which no more threads   *)
(* store one: what they leave behind is as clean as it was.                *)
KeepsRows == \A k \in Keys : rows'[k] \in {rows[k], None}
NewPlace(t, s) == /\ step'[t] = s
                  /\ \A u \in Threads : u # t => step'[u] = step[u]

LEMMA Going ==
  ASSUME CacheTypeOK, NEW t \in Threads, NEW s, Goto(t, s) PROVE NewPlace(t, s)
BY DEF CacheTypeOK, Goto, NewPlace

LEMMA CleanStep ==
  ASSUME CacheInv, NEW t \in Threads, NEW s, NewPlace(t, s), KeepsRows,
         step[t] \notin {"force", "truncate"}, s \notin {"token", "insert"},
         UNCHANGED <<password, initDone, token, listed>>
  PROVE  (NoLater /\ RowsListed /\ TokenClean /\ OldRowsNeedInit)'
<1> USE DEF CacheInv
<1>1. \A k \in Keys : OldRow(k)' => OldRow(k)
  BY DEF OldRow, KeepsRows
<1>2. \A u \in Threads : step[u] \in {"force", "truncate"} => step'[u] = step[u]
  BY DEF NewPlace
<1>3. \A u \in Threads : step'[u] \in {"token", "insert"} => step'[u] = step[u]
  BY DEF NewPlace
<1>4. NoLater'
  BY DEF NoLater, KeepsRows
<1>5. RowsListed'
  BY <1>3 DEF RowsListed, KeepsRows
<1>6. TokenClean'
  BY <1>1, <1>3 DEF TokenClean, NoOld
<1>7. OldRowsNeedInit'
  <2>1. (\E k \in Keys : OldRow(k)') =>
           ~initDone \/ \E u \in Threads : step[u] \in {"force", "truncate"}
    BY <1>1 DEF OldRowsNeedInit, OldRow
  <2> QED
    BY <1>2, <2>1 DEF OldRowsNeedInit, OldRow
<1> QED
  BY <1>4, <1>5, <1>6, <1>7

(* No step leaves a row of an old password to a process that is past its   *)
(* initialisation.                                                         *)
LEMMA StepPassword ==
  ASSUME CacheInv, [CacheNext]_cacheVars
  PROVE  (NoLater /\ RowsListed /\ TokenClean /\ OldRowsNeedInit)'
<1> USE DEF CacheInv
<1>1. ASSUME NEW t \in Threads, Begin(t) \/ MarkMaintenance(t) \/ Get(t)
      PROVE (NoLater /\ RowsListed /\ TokenClean /\ OldRowsNeedInit)'
  <2>1. PICK s \in {"connect", "mark", "idle"} : Goto(t, s)
    BY <1>1 DEF Begin, MarkMaintenance, Get
  <2> QED
    BY <1>1, <2>1, Going, CleanStep DEF Begin, MarkMaintenance, Get, diskVars, KeepsRows
<1>2. ASSUME NEW t \in Threads, Connect(t)
      PROVE (NoLater /\ RowsListed /\ TokenClean /\ OldRowsNeedInit)'
  <2>1. CASE initDone
    <3>1. PICK s \in {"sweep", "use", "force"} : Goto(t, s)
      BY <1>2 DEF Connect, Onward
    <3> QED
      BY <1>2, <2>1, <3>1, Going, CleanStep DEF Connect, diskVars, KeepsRows, CacheTypeOK
  <2>2. CASE ~initDone
    <3>1. PICK s \in {"sweep", "use", "force"} : Goto(t, s) /\ (token # password => s = "force")
      BY <1>2, <2>2 DEF Connect, Onward
    <3>2. NewPlace(t, s)
      BY <3>1, Going
    <3>3. \A u \in Threads : step'[u] \in {"token", "insert"} => step'[u] = step[u]
      BY <3>1, <3>2 DEF NewPlace
    <3>4. NoLater' /\ RowsListed'
      BY <1>2, <3>3 DEF Connect, diskVars, NoLater, RowsListed
    <3>5. TokenClean'
      BY <1>2, <3>3 DEF Connect, diskVars, TokenClean, NoOld, OldRow
    <3>6. OldRowsNeedInit'
      BY <1>2, <3>1, <3>2 DEF Connect, diskVars, OldRowsNeedInit, TokenClean, NoOld, OldRow, NewPlace
    <3> QED
      BY <3>4, <3>5, <3>6
  <2> QED
    BY <2>1, <2>2
<1>3. ASSUME NEW t \in Threads, ForceMaintenance(t)
      PROVE (NoLater /\ RowsListed /\ TokenClean /\ OldRowsNeedInit)'
  <2>1. NewPlace(t, "truncate")
    BY <1>3, Going DEF ForceMaintenance
  <2>2. \A u \in Threads : step'[u] \in {"token", "insert"} => step'[u] = step[u]
    BY <2>1 DEF NewPlace
  <2>3. NoLater' /\ RowsListed'
    BY <1>3, <2>2 DEF ForceMaintenance, NoLater, RowsListed
  <2>4. TokenClean'
    BY <1>3, <2>2 DEF ForceMaintenance, TokenClean, NoOld, OldRow
  <2>5. OldRowsNeedInit'
    BY <1>3, <2>1 DEF OldRowsNeedInit, NewPlace
  <2> QED
    BY <2>3, <2>4, <2>5
<1>4. ASSUME NEW t \in Threads, Truncate(t)
      PROVE (NoLater /\ RowsListed /\ TokenClean /\ OldRowsNeedInit)'
  <2>1. NewPlace(t, "token")
    BY <1>4, Going DEF Truncate
  <2>2. \A k \in Keys : rows'[k] = None
    BY <1>4 DEF Truncate, RowsListed
  <2>3. NoLater'
    BY <1>4, <2>2 DEF Truncate, NoLater
  <2>4. RowsListed'
    BY <1>4, <2>1, <2>2 DEF Truncate, RowsListed, NewPlace
  <2>5. TokenClean' /\ OldRowsNeedInit'
    BY <2>2 DEF TokenClean, NoOld, OldRow, OldRowsNeedInit
  <2> QED
    BY <2>3, <2>4, <2>5
<1>5. ASSUME NEW t \in Threads, StoreToken(t)
      PROVE (NoLater /\ RowsListed /\ TokenClean /\ OldRowsNeedInit)'
  <2>1. PICK s \in {"sweep", "use"} : Goto(t, s)
    BY <1>5 DEF StoreToken, Onward
  <2>2. NewPlace(t, s)
    BY <2>1, Going
  <2>3. \A u \in Threads : step'[u] = "insert" => step'[u] = step[u]
    BY <2>1, <2>2 DEF NewPlace
  <2>4. NoOld
    BY <1>5 DEF StoreToken, TokenClean
  <2>5. NoLater' /\ RowsListed'
    BY <1>5, <2>3 DEF StoreToken, NoLater, RowsListed, CacheTypeOK
  <2>6. TokenClean' /\ OldRowsNeedInit'
    BY <1>5, <2>4 DEF StoreToken, TokenClean, NoOld, OldRow, OldRowsNeedInit
  <2> QED
    BY <2>5, <2>6
<1>6. ASSUME NEW t \in Threads, Sweep(t)
      PROVE (NoLater /\ RowsListed /\ TokenClean /\ OldRowsNeedInit)'
  BY <1>6, Going, CleanStep DEF Sweep, KeepsRows
<1>7. ASSUME NEW t \in Threads, CreateTable(t)
      PROVE (NoLater /\ RowsListed /\ TokenClean /\ OldRowsNeedInit)'
  <2>1. NewPlace(t, "insert")
    BY <1>7, Going DEF CreateTable
  <2>2. NoLater' /\ RowsListed'
    BY <1>7 DEF CreateTable, NoLater, RowsListed
  <2>3. TokenClean'
    BY <1>7, <2>1 DEF CreateTable, TokenClean, NoOld, OldRow, NewPlace
  <2>4. OldRowsNeedInit'
    BY <1>7, <2>1 DEF CreateTable, OldRowsNeedInit, NewPlace
  <2> QED
    BY <2>2, <2>3, <2>4
<1>8. ASSUME NEW t \in Threads, Insert(t)
      PROVE (NoLater /\ RowsListed /\ TokenClean /\ OldRowsNeedInit)'
  <2>1. NewPlace(t, "idle")
    BY <1>8, Going DEF Insert
  <2>2. ASSUME NEW k \in Keys
        PROVE  rows'[k] = rows[k] \/ rows'[k].by = password
    <3>1. PICK hold : \/ rows' = rows
                      \/ rows' = [rows EXCEPT ![job[t].key] =
                                    [by |-> password, expire |-> now + hold]]
      BY <1>8 DEF Insert
    <3> QED
      BY <3>1 DEF CacheTypeOK
  <2>3. listed /\ password <= password
    BY <1>8 DEF Insert, RowsListed, CacheTypeOK
  <2>4. NoLater' /\ RowsListed'
    BY <1>8, <2>2, <2>3 DEF Insert, NoLater, RowsListed
  <2>5. \A k \in Keys : OldRow(k)' => OldRow(k)
    BY <1>8, <2>2 DEF Insert, OldRow
  <2>6. TokenClean'
    BY <1>8, <2>1, <2>5 DEF Insert, TokenClean, NoOld, NewPlace
  <2>7. OldRowsNeedInit'
    <3>1. (\E k \in Keys : OldRow(k)') =>
           ~initDone \/ \E u \in Threads : step[u] \in {"force", "truncate"}
      BY <2>5 DEF OldRowsNeedInit, OldRow
    <3> QED
      BY <1>8, <2>1, <3>1 DEF Insert, OldRowsNeedInit, OldRow, NewPlace
  <2> QED
    BY <2>4, <2>6, <2>7
<1>9. ASSUME Crash
      PROVE (NoLater /\ RowsListed /\ TokenClean /\ OldRowsNeedInit)'
  <2>1. password' = password \/ password' = password + 1
    BY <1>9 DEF Crash
  <2>2. NoLater'
    BY <1>9, <2>1 DEF Crash, diskVars, NoLater, CacheTypeOK, Rows
  <2>3. RowsListed' /\ OldRowsNeedInit'
    BY <1>9 DEF Crash, diskVars, RowsListed, OldRowsNeedInit
  <2>4. TokenClean'
    <3>1. ~\E t \in Threads : step'[t] = "token"
      BY <1>9 DEF Crash
    <3>2. token' = password' => password' = password
      BY <1>9, <2>1, PasswordAssumption DEF Crash, diskVars, NoLater, CacheTypeOK
    <3> QED
      BY <1>9, <3>1, <3>2 DEF Crash, diskVars, TokenClean, NoOld, OldRow
  <2> QED
    BY <2>2, <2>3, <2>4
<1>10. ASSUME CacheTick \/ UNCHANGED cacheVars
      PROVE (NoLater /\ RowsListed /\ TokenClean /\ OldRowsNeedInit)'
  BY <1>10 DEF CacheTick, cacheVars, cacheState, diskVars, NoLater, RowsListed,
     TokenClean, NoOld, OldRow, OldRowsNeedInit
<1> QED
  BY <1>1, <1>2, <1>3, <1>4, <1>5, <1>6, <1>7, <1>8, <1>9, <1>10 DEF CacheNext, Operation

-----------------------------------------------------------------------------
(* Steps that leave the rows, LAST_MAINTENANCE and those who sweep alone.  *)
LEMMA SweptStep ==
  ASSUME CacheInv, NEW t \in Threads, NEW s, NewPlace(t, s),
         step[t] # "truncate", UNCHANGED <<rows, last, due, cutoff, crashed>>
  PROVE  (StaleSwept /\ DueSweeps)'
<1> USE DEF CacheInv
<1>1. \A k \in Keys : Stale(k)' => Stale(k)
  BY DEF Stale
<1>2. \A u \in Threads : Sweeper(u) => Sweeper(u)'
  BY DEF Sweeper, NewPlace
<1> QED
  BY <1>1, <1>2 DEF StaleSwept, DueSweeps, AnyStale

(* No step leaves an expired row behind without somebody to delete it, but *)
(* a crash.                                                                *)
LEMMA StepStale ==
  ASSUME CacheInv, [CacheNext]_cacheVars
  PROVE  (Clock /\ StaleSwept /\ DueSweeps)'
<1> USE DEF CacheInv
<1>n. now \in Nat /\ last \in Nat
  BY DEF CacheTypeOK
<1>1. ASSUME NEW t \in Threads, Begin(t) \/ Connect(t) \/ StoreToken(t) \/ Get(t) \/ CreateTable(t)
      PROVE (Clock /\ StaleSwept /\ DueSweeps)'
  <2>1. PICK s : Goto(t, s)
    BY <1>1 DEF Begin, Connect, StoreToken, Get, CreateTable
  <2>2. /\ step[t] # "truncate"
        /\ UNCHANGED <<now, rows, last, due, cutoff, crashed>>
    BY <1>1 DEF Begin, Connect, StoreToken, Get, CreateTable, diskVars
  <2>3. Clock'
    BY <2>2 DEF Clock
  <2> QED
    BY <2>1, <2>2, <2>3, Going, SweptStep
<1>2. ASSUME NEW t \in Threads, MarkMaintenance(t)
      PROVE (Clock /\ StaleSwept /\ DueSweeps)'
  <2>1. Sweeper(t)'
    BY <1>2 DEF MarkMaintenance, Sweeper, CacheTypeOK
  <2>2. Clock'
    BY <1>2, <1>n DEF MarkMaintenance, Clock
  <2> QED
    BY <2>1, <2>2 DEF StaleSwept, DueSweeps
<1>3. ASSUME NEW t \in Threads, ForceMaintenance(t)
      PROVE (Clock /\ StaleSwept /\ DueSweeps)'
  <2>1. Sweeper(t)'
    BY <1>3 DEF ForceMaintenance, Goto, Sweeper, CacheTypeOK
  <2>2. Clock'
    BY <1>3, <1>n DEF ForceMaintenance, Clock
  <2> QED
    BY <2>1, <2>2 DEF StaleSwept, DueSweeps
<1>4. ASSUME NEW t \in Threads, Truncate(t)
      PROVE (Clock /\ StaleSwept /\ DueSweeps)'
  <2>1. \A k \in Keys : rows'[k] = None
    BY <1>4 DEF Truncate, RowsListed
  <2>2. Clock'
    BY <1>4 DEF Truncate, Clock
  <2> QED
    BY <2>1, <2>2 DEF StaleSwept, DueSweeps, AnyStale, Stale
<1>5. ASSUME NEW t \in Threads, Sweep(t)
      PROVE (Clock /\ StaleSwept /\ DueSweeps)'
  <2>1. NewPlace(t, "use") /\ ~due'[t]
    BY <1>5, Going DEF Sweep, CacheTypeOK
  <2>2. Clock'
    BY <1>5 DEF Sweep, Clock
  <2>3. ASSUME NEW k \in Keys, Stale(k)'
        PROVE Stale(k) /\ rows[k].expire >= cutoff[t]
    <3>1. rows'[k] = rows[k] /\ rows[k] # None /\ Kept(t, k) /\ last' = last
      BY <1>5, <2>3 DEF Sweep, Stale
    <3> QED
      BY <2>3, <3>1 DEF Stale, Kept, RowsListed
  <2>4. ASSUME AnyStale' PROVE \E u \in Threads : Sweeper(u)'
    <3>1. PICK k \in Keys : Stale(k) /\ rows[k].expire >= cutoff[t]
      BY <2>3, <2>4 DEF AnyStale
    <3>2. PICK u \in Threads : Sweeper(u)
      BY <1>5, <3>1 DEF DueSweeps, AnyStale, DueWhenSweeping, Sweep
    <3>3. rows[k] \in Rows /\ cutoff[t] \in Nat
      BY <3>1 DEF CacheTypeOK, Stale
    <3>4. cutoff[t] # last
      BY <1>n, <3>1, <3>3 DEF Stale, Rows
    <3>5. u # t
      BY <1>5, <3>2, <3>4 DEF Sweeper, Sweep
    <3> QED
      BY <1>5, <2>1, <3>2, <3>5 DEF Sweep, Sweeper, NewPlace, CacheTypeOK
  <2> QED
    BY <2>2, <2>4 DEF StaleSwept, DueSweeps
<1>6. ASSUME NEW t \in Threads, Insert(t)
      PROVE (Clock /\ StaleSwept /\ DueSweeps)'
  <2>1. NewPlace(t, "idle")
    BY <1>6, Going DEF Insert
  <2>2. ASSUME NEW k \in Keys, Stale(k)' PROVE Stale(k)
    <3>1. PICK hold \in Nat \ {0} :
                      \/ rows' = rows
                      \/ rows' = [rows EXCEPT ![job[t].key] =
                                    [by |-> password, expire |-> now + hold]]
      <4>1. 1 \in Nat \ {0} /\ 1 .. MaxHold \subseteq Nat \ {0}
        BY PeriodAssumption
      <4> QED
        BY <1>6, <4>1 DEF Insert
    <3>2. rows'[k] = rows[k] \/ rows'[k].expire = now + hold
      BY <3>1 DEF CacheTypeOK
    <3> QED
      BY <1>6, <1>n, <2>2, <3>2, PeriodAssumption DEF Insert, Stale, Clock
  <2>3. \A u \in Threads : Sweeper(u) => Sweeper(u)'
    BY <1>6, <2>1 DEF Insert, Sweeper, NewPlace
  <2>4. Clock'
    BY <1>6 DEF Insert, Clock
  <2> QED
    BY <1>6, <2>2, <2>3, <2>4 DEF Insert, StaleSwept, DueSweeps, AnyStale
<1>7. ASSUME Crash
      PROVE (Clock /\ StaleSwept /\ DueSweeps)'
  <2>1. ~\E t \in Threads : due'[t]
    BY <1>7 DEF Crash
  <2>2. \A k \in Keys : Stale(k)' => Stale(k)
    BY <1>7 DEF Crash, diskVars, Stale
  <2>3. (\E t \in Threads : Sweeper(t)) => crashed'
    BY <1>7 DEF Crash, Sweeper
  <2>4. crashed => crashed'
    BY <1>7 DEF Crash
  <2>5. Clock'
    BY <1>7 DEF Crash, diskVars, Clock
  <2> QED
    BY <2>1, <2>2, <2>3, <2>4, <2>5 DEF StaleSwept, DueSweeps, AnyStale
<1>8. ASSUME CacheTick \/ UNCHANGED cacheVars
      PROVE (Clock /\ StaleSwept /\ DueSweeps)'
  <2>1. Clock'
    BY <1>8, <1>n DEF CacheTick, Tick, cacheVars, cacheState, diskVars, Clock
  <2>2. UNCHANGED <<rows, last, due, cutoff, crashed, step>>
    BY <1>8 DEF CacheTick, cacheVars, cacheState, diskVars
  <2> QED
    BY <2>1, <2>2 DEF StaleSwept, DueSweeps, AnyStale, Stale, Sweeper
<1> QED
  BY <1>1, <1>2, <1>3, <1>4, <1>5, <1>6, <1>7, <1>8 DEF CacheNext, Operation

LEMMA StepSweeping ==
  ASSUME CacheInv, [CacheNext]_cacheVars PROVE DueWhenSweeping'
<1> USE DEF CacheInv
<1>1. ASSUME NEW t \in Threads, Operation(t) PROVE DueWhenSweeping'
  <2>1. \A u \in Threads : u # t => step'[u] = step[u] /\ due'[u] = due[u]
    BY <1>1 DEF Operation, Begin, MarkMaintenance, Connect, ForceMaintenance, Truncate,
       StoreToken, Sweep, Get, CreateTable, Insert, Goto, diskVars, CacheTypeOK
  <2>2. step'[t] = "sweep" => due'[t]
    <3>1. CASE Connect(t) \/ StoreToken(t)
      BY <3>1 DEF Connect, StoreToken, Onward, Goto, CacheTypeOK
    <3>2. CASE ~(Connect(t) \/ StoreToken(t))
      BY <1>1, <3>2 DEF Operation, Begin, MarkMaintenance, ForceMaintenance, Truncate,
         Sweep, Get, CreateTable, Insert, Goto, CacheTypeOK
    <3> QED
      BY <3>1, <3>2
  <2> QED
    BY <2>1, <2>2 DEF DueWhenSweeping
<1>2. ASSUME Crash \/ CacheTick \/ UNCHANGED cacheVars PROVE DueWhenSweeping'
  BY <1>2 DEF Crash, CacheTick, cacheVars, cacheState, DueWhenSweeping
<1> QED
  BY <1>1, <1>2 DEF CacheNext

LEMMA CacheInvariance == CacheSpec => []CacheInv
<1>1. CacheInv /\ [CacheNext]_cacheVars => CacheInv'
  <2> SUFFICES ASSUME CacheInv, [CacheNext]_cacheVars PROVE CacheInv'
    OBVIOUS
  <2>1. CacheTypeOK'
    BY CacheStepType DEF CacheInv
  <2> QED
    BY <2>1, StepPassword, StepStale, StepSweeping DEF CacheInv
<1> QED
  BY CacheInitInv, <1>1, PTL DEF CacheSpec

(* After the initialisation of a process no thread finds a row that was    *)
(* stored under another password, whatever crashed before (cache.py, init  *)
(* and password).                                                          *)
THEOREM OldRowsTruncated == CacheSpec => []OldRowsNeedInit
<1>1. CacheInv => OldRowsNeedInit
  BY DEF CacheInv
<1> QED
  BY CacheInvariance, <1>1, PTL

(* A row that had expired at the last maintenance is about to be deleted,  *)
(* or a crash cut that maintenance off (cache.py, maintenance).            *)
THEOREM StaleSweptOrCrashed == CacheSpec => []StaleNeedsUnfinished
<1>1. CacheInv => StaleNeedsUnfinished
  BY DEF CacheInv, StaleSwept, AnyStale, Stale, Sweeper, StaleNeedsUnfinished
<1> QED
  BY CacheInvariance, <1>1, PTL

-----------------------------------------------------------------------------
(* FaviconCache.                                                           *)

(* An authority whose row names an icon has its icon in blobs.             *)
HasBlob(a) ==
    blobMap[a] # None => blobMap[a].sha = Fallback \/ blobMap[a].sha \in blobs
RowsHaveBlobs == \A a \in Authorities : HasBlob(a)

(* A thread on its way to store something has an icon and an authority.    *)
Equipped(t) ==
    /\ at[t] # "idle" => site[t] \in Authorities
    /\ at[t] \in {"set", "recheck", "upkeep", "store"} => icon[t] \in Icons \cup {Fallback}
    /\ at[t] = "blob" => icon[t] \in blobs \/ upkept[t]

IconInv == IconTypeOK /\ RowsHaveBlobs /\ \A t \in Threads : Equipped(t)

LEMMA IconInitInv == IconInit => IconInv
<1> SUFFICES ASSUME IconInit PROVE IconInv
  OBVIOUS
<1>1. /\ now \in Nat /\ kept \in Nat /\ blobs \subseteq Icons
      /\ blobMap \in [Authorities -> MapRows \cup {None}]
  BY DEF IconInit
<1>2. /\ at \in [Threads -> Places] /\ site \in [Threads -> Authorities \cup {None}]
      /\ icon \in [Threads -> Icons \cup {Fallback, None}]
  BY DEF IconInit, Places
<1>3. upkept \in [Threads -> BOOLEAN]
  BY DEF IconInit
<1>4. IconTypeOK
  BY <1>1, <1>2, <1>3 DEF IconTypeOK
<1> QED
  BY <1>4 DEF IconInit, IconInv, RowsHaveBlobs, HasBlob, Equipped

(* Steps of one thread that change no table.                               *)
OnlyThread(t) ==
    /\ UNCHANGED <<blobs, blobMap>>
    /\ \A u \in Threads : u # t =>
         /\ at'[u] = at[u] /\ site'[u] = site[u]
         /\ icon'[u] = icon[u] /\ upkept'[u] = upkept[u]

LEMMA OnlyThreadStep ==
  ASSUME IconInv, NEW t \in Threads, OnlyThread(t), Equipped(t)'
  PROVE  RowsHaveBlobs' /\ \A u \in Threads : Equipped(u)'
BY DEF IconInv, OnlyThread, RowsHaveBlobs, HasBlob, Equipped

(* The row a lookup finds.                                                 *)
LEMMA RowFound ==
  ASSUME IconInv, NEW t \in Threads, at[t] = "lookup", blobMap[site[t]] # None
  PROVE  /\ blobMap[site[t]].sha \in Icons \cup {Fallback}
         /\ blobMap[site[t]].sha = Fallback \/ blobMap[site[t]].sha \in blobs
<1>1. site[t] \in Authorities
  BY DEF IconInv, Equipped
<1>2. blobMap[site[t]] \in MapRows
  BY <1>1 DEF IconInv, IconTypeOK
<1> QED
  BY <1>1, <1>2 DEF IconInv, RowsHaveBlobs, HasBlob, MapRows

LEMMA IconStepInv ==
  ASSUME IconInv, [IconNext]_iconVars PROVE IconInv'
<1> USE DEF IconInv
<1>1. ASSUME NEW t \in Threads, NEW a \in Authorities, Ask(t, a) PROVE IconInv'
  <2>1. IconTypeOK'
    BY <1>1 DEF Ask, IconTypeOK, Places
  <2>2. OnlyThread(t) /\ Equipped(t)'
    BY <1>1 DEF Ask, OnlyThread, Equipped, IconTypeOK
  <2> QED
    BY <2>1, <2>2, OnlyThreadStep
<1>2. ASSUME NEW t \in Threads, LookUp(t) PROVE IconInv'
  <2>1. CASE Returns(t)
    <3>1. IconTypeOK'
      BY <1>2, <2>1 DEF LookUp, Returns, IconTypeOK, Places
    <3>2. OnlyThread(t) /\ Equipped(t)'
      BY <1>2, <2>1 DEF LookUp, Returns, OnlyThread, Equipped, IconTypeOK
    <3> QED
      BY <3>1, <3>2, OnlyThreadStep
  <2>2. CASE Moves(t, "resolve") /\ UNCHANGED icon
    <3>1. IconTypeOK'
      BY <1>2, <2>2 DEF LookUp, Moves, IconTypeOK, Places
    <3>2. OnlyThread(t) /\ Equipped(t)'
      BY <1>2, <2>2 DEF LookUp, Moves, OnlyThread, Equipped, IconTypeOK
    <3> QED
      BY <3>1, <3>2, OnlyThreadStep
  <2>3. CASE /\ blobMap[site[t]] # None /\ blobMap[site[t]].sha # Fallback
             /\ icon' = [icon EXCEPT ![t] = blobMap[site[t]].sha]
             /\ Moves(t, "blob")
    <3>0. blobMap[site[t]].sha \in Icons /\ blobMap[site[t]].sha \in blobs
      BY <1>2, <2>3, RowFound DEF LookUp
    <3>1. IconTypeOK'
      BY <1>2, <2>3, <3>0 DEF LookUp, Moves, IconTypeOK, Places
    <3>2. OnlyThread(t) /\ Equipped(t)'
      BY <1>2, <2>3, <3>0 DEF LookUp, Moves, OnlyThread, Equipped, IconTypeOK
    <3> QED
      BY <3>1, <3>2, OnlyThreadStep
  <2> QED
    BY <1>2, <2>1, <2>2, <2>3 DEF LookUp
<1>3. ASSUME NEW t \in Threads, ReadBlob(t) PROVE IconInv'
  <2>1. IconTypeOK'
    BY <1>3 DEF ReadBlob, Returns, IconTypeOK, Places
  <2>2. OnlyThread(t) /\ Equipped(t)'
    BY <1>3 DEF ReadBlob, Returns, OnlyThread, Equipped, IconTypeOK
  <2> QED
    BY <2>1, <2>2, OnlyThreadStep
<1>4. ASSUME NEW t \in Threads, Resolve(t) PROVE IconInv'
  <2>1. IconTypeOK'
    BY <1>4 DEF Resolve, Returns, Moves, IconTypeOK, Places
  <2>2. OnlyThread(t) /\ Equipped(t)'
    BY <1>4 DEF Resolve, Returns, Moves, OnlyThread, Equipped, IconTypeOK
  <2> QED
    BY <2>1, <2>2, OnlyThreadStep
<1>5. ASSUME NEW t \in Threads, TestPeriod(t) \/ Recheck(t) PROVE IconInv'
  <2>1. PICK p \in {"store", "recheck", "upkeep"} : Moves(t, p)
    BY <1>5 DEF TestPeriod, Recheck
  <2>2. kept' \in Nat /\ UNCHANGED <<now, blobs, blobMap, icon>> /\ at[t] \in {"set", "recheck"}
    BY <1>5 DEF TestPeriod, Recheck, IconTypeOK
  <2>3. IconTypeOK'
    BY <2>1, <2>2 DEF Moves, IconTypeOK, Places
  <2>4. OnlyThread(t) /\ Equipped(t)'
    BY <2>1, <2>2 DEF Moves, OnlyThread, Equipped, IconTypeOK
  <2> QED
    BY <2>3, <2>4, OnlyThreadStep
<1>6. ASSUME NEW t \in Threads, Upkeep(t) PROVE IconInv'
  <2> DEFINE m == [a \in Authorities |->
                     IF blobMap[a] # None /\ blobMap[a].mtime < now - HoldTime
                     THEN None ELSE blobMap[a]]
  <2>1. PICK gone \in SUBSET Authorities : DropRows(m, gone)
    <3>1. \A e : Dropped(m, e) \subseteq SUBSET Authorities
      BY DEF Dropped, Joined
    <3> QED
      BY <1>6, <3>1 DEF Upkeep
  <2>2. m \in [Authorities -> MapRows \cup {None}]
    BY DEF IconTypeOK
  <2>3. \A a \in Authorities : m[a] # None => m[a] = blobMap[a]
    OBVIOUS
  <2>4. Used(m) \subseteq blobs
    BY DEF Used, Joined
  <2> HIDE DEF m
  <2>5. blobs' \subseteq Icons /\ blobMap' \in [Authorities -> MapRows \cup {None}]
    BY <2>1, <2>2, <2>4 DEF DropRows, IconTypeOK
  <2>6. /\ at' = [at EXCEPT ![t] = "store"] /\ UNCHANGED <<now, kept, site, icon>>
        /\ \A u \in Threads : upkept'[u] = (upkept[u] \/ at[u] = "blob")
        /\ upkept' \in [Threads -> BOOLEAN] /\ at[t] = "upkeep"
    BY <1>6 DEF Upkeep, IconTypeOK
  <2>7. IconTypeOK'
    BY <2>5, <2>6 DEF IconTypeOK, Places
  <2>8. ASSUME NEW a \in Authorities PROVE HasBlob(a)'
    <3>1. SUFFICES ASSUME blobMap'[a] # None, blobMap'[a].sha # Fallback
                   PROVE blobMap'[a].sha \in blobs'
      BY DEF HasBlob
    <3>2. /\ blobMap'[a] = m[a] /\ m[a] # None
          /\ m[a].sha \notin {m[b].sha : b \in gone}
      BY <2>1, <3>1 DEF DropRows
    <3>3. m[a].sha \in blobs
      BY <2>3, <3>1, <3>2 DEF RowsHaveBlobs, HasBlob
    <3>4. m[a].sha \in Used(m)
      BY <3>2, <3>3 DEF Used, Joined
    <3> QED
      BY <2>1, <3>2, <3>4 DEF DropRows
  <2>9. ASSUME NEW u \in Threads PROVE Equipped(u)'
    BY <2>6 DEF Equipped, IconTypeOK
  <2> QED
    BY <2>7, <2>8, <2>9 DEF RowsHaveBlobs
<1>7. ASSUME NEW t \in Threads, Store(t) PROVE IconInv'
  <2>1. icon[t] \in Icons \cup {Fallback} /\ site[t] \in Authorities
    BY <1>7 DEF Store, Equipped
  <2>2. blobs \subseteq blobs' /\ blobs' \subseteq Icons
    BY <1>7, <2>1 DEF Store, IconTypeOK
  <2>3. \/ UNCHANGED blobMap
        \/ /\ blobMap' = [blobMap EXCEPT ![site[t]] = [sha |-> icon[t], mtime |-> now]]
           /\ icon[t] = Fallback \/ icon[t] \in blobs'
    BY <1>7, <2>1 DEF Store
  <2>4. blobMap' \in [Authorities -> MapRows \cup {None}]
    BY <2>1, <2>3 DEF IconTypeOK, MapRows
  <2>5. IconTypeOK'
    BY <1>7, <2>2, <2>4 DEF Store, Returns, IconTypeOK, Places
  <2>6. ASSUME NEW a \in Authorities PROVE HasBlob(a)'
    BY <2>1, <2>2, <2>3 DEF RowsHaveBlobs, HasBlob, IconTypeOK
  <2>7. ASSUME NEW u \in Threads PROVE Equipped(u)'
    BY <1>7, <2>2 DEF Store, Returns, Equipped, IconTypeOK
  <2> QED
    BY <2>5, <2>6, <2>7 DEF RowsHaveBlobs
<1>8. ASSUME Restart PROVE IconInv'
  BY <1>8 DEF Restart, IconTypeOK, Places, RowsHaveBlobs, HasBlob, Equipped
<1>9. ASSUME IconTick \/ UNCHANGED iconVars PROVE IconInv'
  BY <1>9 DEF IconTick, Tick, iconVars, iconState, IconTypeOK, RowsHaveBlobs, HasBlob, Equipped
<1> QED
  BY <1>1, <1>2, <1>3, <1>4, <1>5, <1>6, <1>7, <1>8, <1>9 DEF IconNext, IconStep

(* A request finds the icon of a row it has read, whatever else is stored, *)
(* unless a maintenance came between (favicons/cache.py, __call__).        *)
THEOREM IconFound == IconSpec => []MissingIconNeedsMaintenance
<1>1. IconInv /\ [IconNext]_iconVars => IconInv'
  BY IconStepInv
<1>2. IconInv => MissingIconNeedsMaintenance
  BY DEF IconInv, Equipped, MissingIconNeedsMaintenance
<1> QED
  BY IconInitInv, <1>1, <1>2, PTL DEF IconSpec

-----------------------------------------------------------------------------
(* Sums over finite sets.  The folds of the model are recursive functions  *)
(* on sets; what they compute is proved by looking at a smallest set for   *)
(* which it would be wrong.                                                *)

FirstOf(s) == CHOOSE x \in s : TRUE
Adds(h, w, s) ==
  h = [t \in SUBSET s |-> IF t = {} THEN 0 ELSE w[FirstOf(t)] + h[t \ {FirstOf(t)}]]
SumOf(w, s) == (CHOOSE h : Adds(h, w, s))[s]

\* Among finite sets there is one that has no other of them as a subset.
LEMMA SmallestSet ==
  ASSUME NEW S, IsFiniteSet(S), NEW Bad \in SUBSET (SUBSET S), Bad /= {}
  PROVE  \E T \in Bad : \A U \in SUBSET T : U /= T => U \notin Bad
<1>1. PICK T \in Bad : \A U \in Bad : <<U, T>> \notin StrictSubsetOrdering(S)
  BY FS_StrictSubsetOrderingWellFounded, FS_FiniteSubsetsOfFinite, WFMin
<1>2. \A U \in SUBSET T : U /= T /\ U \in Bad => <<U, T>> \in StrictSubsetOrdering(S)
  BY DEF StrictSubsetOrdering
<1>3. ASSUME NEW U \in SUBSET T, U /= T, U \in Bad
      PROVE  FALSE
  <2>1. <<U, T>> \in StrictSubsetOrdering(S)
    BY <1>2, <1>3
  <2>2. QED
    BY <1>1, <1>3, <2>1
<1>4. QED
  BY <1>3

\* The first element of a set is one of it; without it the set is smaller.
LEMMA FirstIsElement ==
  ASSUME NEW s, s /= {}
  PROVE  FirstOf(s) \in s /\ s \ {FirstOf(s)} \in SUBSET s /\ s \ {FirstOf(s)} /= s
  BY DEF FirstOf

\* Two functions that add up the subsets of a set are equal.
LEMMA AddsUnique ==
  ASSUME NEW w, NEW s, IsFiniteSet(s), NEW g, NEW h, Adds(g, w, s), Adds(h, w, s)
  PROVE  g = h
<1> DEFINE Bad == {t \in SUBSET s : g[t] /= h[t]}
<1>1. /\ \A t \in SUBSET s : g[t] = IF t = {} THEN 0 ELSE w[FirstOf(t)] + g[t \ {FirstOf(t)}]
      /\ \A t \in SUBSET s : h[t] = IF t = {} THEN 0 ELSE w[FirstOf(t)] + h[t \ {FirstOf(t)}]
  BY DEF Adds
<1>2. Bad = {}
  <2> SUFFICES ASSUME Bad /= {}
               PROVE  FALSE
    OBVIOUS
  <2>0. Bad \in SUBSET (SUBSET s)
    OBVIOUS
  <2>1. PICK t \in Bad : \A u \in SUBSET t : u /= t => u \notin Bad
    <3> HIDE DEF Bad
    <3>1. QED
      BY <2>0, SmallestSet
  <2>2. t /= {}
    BY <1>1, <2>1
  <2>3. t \ {FirstOf(t)} \in SUBSET s /\ t \ {FirstOf(t)} \notin Bad
    BY <2>1, <2>2, FirstIsElement
  <2>4. g[t] = h[t]
    BY <1>1, <2>2, <2>3
  <2>5. QED
    BY <2>4
<1>3. \A t \in SUBSET s : g[t] = h[t]
  BY <1>2
<1>4. g = [t \in SUBSET s |-> g[t]] /\ h = [t \in SUBSET s |-> h[t]]
  BY DEF Adds
<1>5. QED
  BY <1>3, <1>4

\* What adds up the subsets of a set adds up those of a smaller one.
LEMMA AddsSubset ==
  ASSUME NEW w, NEW s, NEW h, Adds(h, w, s), NEW t \in SUBSET s
  PROVE  Adds([u \in SUBSET t |-> h[u]], w, t)
<1> DEFINE g == [u \in SUBSET t |-> h[u]]
<1>1. ASSUME NEW u \in SUBSET t
      PROVE  g[u] = IF u = {} THEN 0 ELSE w[FirstOf(u)] + g[u \ {FirstOf(u)}]
  <2>1. h[u] = IF u = {} THEN 0 ELSE w[FirstOf(u)] + h[u \ {FirstOf(u)}]
    BY <1>1 DEF Adds
  <2>2. u \ {FirstOf(u)} \in SUBSET t
    OBVIOUS
  <2>3. g[u] = h[u] /\ g[u \ {FirstOf(u)}] = h[u \ {FirstOf(u)}]
    BY <2>2
  <2>4. QED
    BY <2>1, <2>3
<1>2. g = [u \in SUBSET t |-> IF u = {} THEN 0 ELSE w[FirstOf(u)] + g[u \ {FirstOf(u)}]]
  BY <1>1
<1>3. QED
  BY <1>2 DEF Adds

\* The chosen function gives every subset its sum.
LEMMA SumOfSubset ==
  ASSUME NEW w, NEW s, IsFiniteSet(s), NEW h, Adds(h, w, s), NEW t \in SUBSET s
  PROVE  SumOf(w, t) = h[t]
<1> DEFINE g == [u \in SUBSET t |-> h[u]]
<1>1. Adds(g, w, t)
  BY AddsSubset
<1>2. Adds(CHOOSE f : Adds(f, w, t), w, t)
  BY <1>1
<1>3. IsFiniteSet(t)
  BY FS_Subset
<1>4. (CHOOSE f : Adds(f, w, t)) = g
  BY <1>1, <1>2, <1>3, AddsUnique
<1>5. g[t] = h[t]
  OBVIOUS
<1>6. QED
  BY <1>4, <1>5 DEF SumOf

\* There is such a function for every finite set.
LEMMA AddsExists ==
  ASSUME NEW w, NEW s, IsFiniteSet(s)
  PROVE  \E h : Adds(h, w, s)
<1> DEFINE Bad == {t \in SUBSET s : ~ \E h : Adds(h, w, t)}
<1> SUFFICES ASSUME Bad /= {}
             PROVE  FALSE
  OBVIOUS
<1>0. Bad \in SUBSET (SUBSET s)
  OBVIOUS
<1>1. PICK x \in Bad : \A u \in SUBSET x : u /= x => u \notin Bad
  <2> HIDE DEF Bad
  <2>1. QED
    BY <1>0, SmallestSet
<1>f. IsFiniteSet(x)
  BY <1>1, FS_Subset
<1> DEFINE g == [t \in SUBSET x |->
                   IF t = {} THEN 0
                   ELSE IF t = x THEN w[FirstOf(x)] + SumOf(w, x \ {FirstOf(x)})
                   ELSE SumOf(w, t)]
<1>2. ASSUME NEW t \in SUBSET x, t /= {}
      PROVE  g[t] = w[FirstOf(t)] + g[t \ {FirstOf(t)}]
  <2> DEFINE r == t \ {FirstOf(t)}
  <2>1. r \in SUBSET x /\ r /= x /\ r \in SUBSET t
    BY <1>2, FirstIsElement
  <2>2. PICK k : Adds(k, w, r)
    BY <1>1, <2>1
  <2>3. r = {} => SumOf(w, r) = 0
    <3>1. SumOf(w, r) = k[r]
      BY <1>f, <2>1, <2>2, FS_Subset, SumOfSubset
    <3>2. k[r] = IF r = {} THEN 0 ELSE w[FirstOf(r)] + k[r \ {FirstOf(r)}]
      BY <2>2 DEF Adds
    <3>3. QED
      BY <3>1, <3>2
  <2>4. g[r] = SumOf(w, r)
    BY <2>1, <2>3
  <2>5. CASE t = x
    BY <1>2, <2>4, <2>5
  <2>6. CASE t /= x
    <3>1. PICK h : Adds(h, w, t)
      BY <1>1, <2>6
    <3>2. IsFiniteSet(t)
      BY <1>f, FS_Subset
    <3>3. SumOf(w, t) = h[t] /\ SumOf(w, r) = h[r]
      BY <2>1, <3>1, <3>2, SumOfSubset
    <3>4. h[t] = w[FirstOf(t)] + h[r]
      BY <1>2, <3>1 DEF Adds
    <3>5. QED
      BY <1>2, <2>4, <2>6, <3>3, <3>4
  <2>7. QED
    BY <2>5, <2>6
<1>3. g = [t \in SUBSET x |-> IF t = {} THEN 0 ELSE w[FirstOf(t)] + g[t \ {FirstOf(t)}]]
  <2>1. \A t \in SUBSET x : t = {} => g[t] = 0
    OBVIOUS
  <2> HIDE DEF g
  <2>2. \A t \in SUBSET x : g[t] = IF t = {} THEN 0 ELSE w[FirstOf(t)] + g[t \ {FirstOf(t)}]
    BY <1>2, <2>1
  <2>3. g = [t \in SUBSET x |-> g[t]]
    BY DEF g
  <2>4. QED
    BY <2>2, <2>3
<1>4. Adds(g, w, x)
  BY <1>3 DEF Adds
<1>5. QED
  BY <1>1, <1>4

\* The sum of nothing, and of a set from its first element on.
LEMMA SumSteps ==
  ASSUME NEW w, NEW s, IsFiniteSet(s)
  PROVE  /\ s = {} => SumOf(w, s) = 0
         /\ s /= {} => SumOf(w, s) = w[FirstOf(s)] + SumOf(w, s \ {FirstOf(s)})
<1>1. PICK h : Adds(h, w, s)
  BY AddsExists
<1>2. h[s] = IF s = {} THEN 0 ELSE w[FirstOf(s)] + h[s \ {FirstOf(s)}]
  BY <1>1 DEF Adds
<1>3. SumOf(w, s) = h[s] /\ SumOf(w, s \ {FirstOf(s)}) = h[s \ {FirstOf(s)}]
  BY <1>1, SumOfSubset
<1>4. QED
  BY <1>2, <1>3

\* Sums of numbers are numbers.
LEMMA SumType ==
  ASSUME NEW S, NEW w \in [S -> Nat], NEW s \in SUBSET S, IsFiniteSet(s)
  PROVE  SumOf(w, s) \in Nat
<1> DEFINE Bad == {t \in SUBSET s : SumOf(w, t) \notin Nat}
<1> SUFFICES ASSUME Bad /= {}
             PROVE  FALSE
  OBVIOUS
<1>0. Bad \in SUBSET (SUBSET s)
  OBVIOUS
<1>1. PICK t \in Bad : \A u \in SUBSET t : u /= t => u \notin Bad
  <2> HIDE DEF Bad
  <2>1. QED
    BY <1>0, SmallestSet
<1>2. IsFiniteSet(t)
  BY <1>1, FS_Subset
<1>3. t /= {}
  <2>1. t = {} => SumOf(w, t) = 0
    BY <1>2, SumSteps
  <2>2. QED
    BY <1>1, <2>1
<1>4. FirstOf(t) \in S /\ t \ {FirstOf(t)} \in SUBSET s /\ t \ {FirstOf(t)} \notin Bad
  BY <1>1, <1>3, FirstIsElement
<1>5. w[FirstOf(t)] \in Nat /\ SumOf(w, t \ {FirstOf(t)}) \in Nat
  BY <1>4
<1>6. SumOf(w, t) = w[FirstOf(t)] + SumOf(w, t \ {FirstOf(t)})
  BY <1>2, <1>3, SumSteps
<1>7. QED
  BY <1>1, <1>5, <1>6

\* A sum does not depend on the element that is taken first.
LEMMA SumWithout ==
  ASSUME NEW S, NEW w \in [S -> Nat], NEW s \in SUBSET S, IsFiniteSet(s), NEW x \in s
  PROVE  SumOf(w, s) = w[x] + SumOf(w, s \ {x})
<1> DEFINE Bad == {t \in SUBSET s : \E y \in t : SumOf(w, t) /= w[y] + SumOf(w, t \ {y})}
<1> SUFFICES ASSUME Bad /= {}
             PROVE  FALSE
  OBVIOUS
<1>0. Bad \in SUBSET (SUBSET s)
  OBVIOUS
<1>1. PICK t \in Bad : \A u \in SUBSET t : u /= t => u \notin Bad
  <2> HIDE DEF Bad
  <2>1. QED
    BY <1>0, SmallestSet
<1>2. PICK y \in t : SumOf(w, t) /= w[y] + SumOf(w, t \ {y})
  BY <1>1
<1> DEFINE z == FirstOf(t)
           r == (t \ {y}) \ {z}
<1>3. IsFiniteSet(t) /\ z \in t /\ y \in t
  BY <1>1, <1>2, FS_Subset, FirstIsElement
<1>4. SumOf(w, t) = w[z] + SumOf(w, t \ {z})
  BY <1>3, SumSteps
<1>5. y /= z
  BY <1>2, <1>4
<1>6. r = (t \ {z}) \ {y}
  OBVIOUS
<1>7. SumOf(w, t \ {z}) = w[y] + SumOf(w, r)
  <2>1. t \ {z} \in SUBSET s /\ t \ {z} \notin Bad /\ y \in t \ {z}
    BY <1>1, <1>3, <1>5
  <2>2. QED
    BY <1>6, <2>1
<1>8. SumOf(w, t \ {y}) = w[z] + SumOf(w, r)
  BY <1>1, <1>3, <1>5
<1>9. w[y] \in Nat /\ w[z] \in Nat /\ SumOf(w, r) \in Nat
  <2>1. r \in SUBSET S /\ IsFiniteSet(r)
    BY <1>1, <1>3, FS_Subset
  <2>2. QED
    BY <1>1, <1>3, <2>1, SumType
<1>10. QED
  BY <1>2, <1>4, <1>7, <1>8, <1>9

\* The sum of two sets that have nothing in common.
LEMMA SumDisjoint ==
  ASSUME NEW S, NEW w \in [S -> Nat], NEW s \in SUBSET S, NEW t \in SUBSET S,
         IsFiniteSet(s), IsFiniteSet(t), s \cap t = {}
  PROVE  SumOf(w, s \cup t) = SumOf(w, s) + SumOf(w, t)
<1> DEFINE Bad == {u \in SUBSET t : SumOf(w, s \cup u) /= SumOf(w, s) + SumOf(w, u)}
<1> SUFFICES ASSUME Bad /= {}
             PROVE  FALSE
  OBVIOUS
<1>0. Bad \in SUBSET (SUBSET t)
  OBVIOUS
<1>1. PICK u \in Bad : \A v \in SUBSET u : v /= u => v \notin Bad
  <2> HIDE DEF Bad
  <2>1. QED
    BY <1>0, SmallestSet
<1>2. IsFiniteSet(u) /\ IsFiniteSet(s \cup u) /\ SumOf(w, s) \in Nat
  BY <1>1, FS_Subset, FS_Union, SumType
<1>3. u /= {}
  <2> SUFFICES ASSUME u = {}
               PROVE  SumOf(w, s \cup u) = SumOf(w, s) + SumOf(w, u)
    BY <1>1
  <2>1. SumOf(w, u) = 0
    BY <1>2, SumSteps
  <2>2. s \cup u = s
    OBVIOUS
  <2>3. SumOf(w, s \cup u) = SumOf(w, s)
    BY <2>2
  <2>4. QED
    BY <1>2, <2>1, <2>3
<1>4. PICK x : x \in u
  BY <1>3
<1> DEFINE v == u \ {x}
<1>5. SumOf(w, s \cup v) = SumOf(w, s) + SumOf(w, v)
  BY <1>1, <1>4
<1>6. SumOf(w, u) = w[x] + SumOf(w, v)
  BY <1>1, <1>2, <1>4, SumWithout
<1>7. SumOf(w, s \cup u) = w[x] + SumOf(w, s \cup v)
  <2>1. (s \cup u) \ {x} = s \cup v
    BY <1>1, <1>4
  <2>2. x \in s \cup u /\ s \cup u \in SUBSET S
    BY <1>1, <1>4
  <2>3. SumOf(w, s \cup u) = w[x] + SumOf(w, (s \cup u) \ {x})
    BY <1>2, <2>2, SumWithout
  <2>4. QED
    BY <2>1, <2>3
<1>8. w[x] \in Nat /\ SumOf(w, v) \in Nat
  <2>1. v \in SUBSET S /\ IsFiniteSet(v) /\ x \in S
    BY <1>1, <1>2, <1>4, FS_Subset
  <2>2. QED
    BY <2>1, SumType
<1>9. QED
  BY <1>1, <1>2, <1>5, <1>6, <1>7, <1>8

\* The sum of an image, if no two elements are mapped to one.
LEMMA SumImage ==
  ASSUME NEW S, NEW w \in [S -> Nat], NEW A, NEW f \in [A -> S],
         NEW s \in SUBSET A, IsFiniteSet(s), \A a, b \in s : f[a] = f[b] => a = b
  PROVE  SumOf(w, {f[a] : a \in s}) = SumOf([a \in A |-> w[f[a]]], s)
<1> DEFINE g == [a \in A |-> w[f[a]]]
           Image(u) == {f[a] : a \in u}
           Bad == {u \in SUBSET s : SumOf(w, Image(u)) /= SumOf(g, u)}
<1> SUFFICES ASSUME Bad /= {}
             PROVE  FALSE
  OBVIOUS
<1>0. Bad \in SUBSET (SUBSET s)
  OBVIOUS
<1>1. PICK u \in Bad : \A v \in SUBSET u : v /= u => v \notin Bad
  <2> HIDE DEF Bad
  <2>1. QED
    BY <1>0, SmallestSet
<1>2. IsFiniteSet(u) /\ IsFiniteSet(Image(u)) /\ Image(u) \in SUBSET S
  <2>1. u \in SUBSET s
    BY <1>1
  <2>2. IsFiniteSet(u)
    BY <2>1, FS_Subset
  <2>3. IsFiniteSet(Image(u))
    <3>1. [a \in u |-> f[a]] \in Surjection(u, Image(u))
      BY DEF Surjection
    <3>2. QED
      BY <2>2, <3>1, FS_Surjection
  <2>4. QED
    BY <2>1, <2>2, <2>3
<1>3. u /= {}
  <2>1. u = {} => SumOf(g, u) = 0
    BY <1>2, SumSteps
  <2>2. u = {} => SumOf(w, Image(u)) = 0
    <3>1. u = {} => Image(u) = {}
      OBVIOUS
    <3>2. Image(u) = {} => SumOf(w, Image(u)) = 0
      <4> HIDE DEF Image
      <4>1. QED
        BY <1>2, SumSteps
    <3>3. QED
      BY <3>1, <3>2
  <2>3. QED
    BY <1>1, <2>1, <2>2
<1>4. PICK x : x \in u
  BY <1>3
<1>5. SumOf(w, Image(u \ {x})) = SumOf(g, u \ {x})
  BY <1>1, <1>4
<1>6. SumOf(g, u) = g[x] + SumOf(g, u \ {x})
  <2>1. g \in [A -> Nat] /\ u \in SUBSET A
    BY <1>1
  <2> HIDE DEF g
  <2>2. QED
    BY <1>2, <1>4, <2>1, SumWithout
<1>7. Image(u) \ {f[x]} = Image(u \ {x}) /\ f[x] \in Image(u)
  BY <1>1, <1>4
<1>8. SumOf(w, Image(u)) = w[f[x]] + SumOf(w, Image(u) \ {f[x]})
  <2> HIDE DEF Image
  <2>1. QED
    BY <1>2, <1>7, SumWithout
<1>9. g[x] = w[f[x]]
  BY <1>1, <1>4
<1>10. QED
  BY <1>1, <1>5, <1>6, <1>7, <1>8, <1>9

-----------------------------------------------------------------------------
(* The bytes that a maintenance leaves.                                    *)

\* The folds of the model are sums.
LEMMA TotalIsSum ==
  ASSUME NEW s
  PROVE  Total(s) = SumOf(Bytes, s)
  BY DEF Total, MapThenSumSet, MapThenFoldSet, SumOf, Adds, FirstOf

LEMMA RowBytesIsSum ==
  ASSUME NEW m, NEW A, NEW s \in SUBSET A
  PROVE  RowBytes(m, s) = SumOf([a \in A |-> Bytes[m[a].sha]], s)
  BY DEF RowBytes, MapThenSumSet, MapThenFoldSet, SumOf, Adds, FirstOf

\* The map has a row for each authority that was asked for, a finite number.
Mapped == {a \in Authorities : blobMap[a] # None}
RowsInv == IconInv /\ IsFiniteSet(Mapped)

LEMMA RowsInvariant == IconSpec => []RowsInv
<1>1. IconInit => RowsInv
  <2>1. IconInit => Mapped = {}
    BY DEF IconInit, Mapped
  <2>2. QED
    BY <2>1, FS_EmptySet, IconInitInv DEF RowsInv
<1>2. RowsInv /\ [IconNext]_iconVars => RowsInv'
  <2> SUFFICES ASSUME RowsInv, [IconNext]_iconVars
               PROVE  RowsInv'
    OBVIOUS
  <2>1. PICK a : Mapped' \subseteq Mapped \cup {a}
    <3>1. CASE UNCHANGED blobMap
      BY <3>1 DEF Mapped
    <3>2. ASSUME NEW t \in Threads, Upkeep(t)
          PROVE  Mapped' \subseteq Mapped
      BY <3>2 DEF Upkeep, DropRows, Mapped
    <3>3. ASSUME NEW t \in Threads, Store(t)
          PROVE  Mapped' \subseteq Mapped \cup {site[t]}
      BY <3>3 DEF Store, Mapped, RowsInv, IconInv, IconTypeOK
    <3>4. QED
      BY <3>1, <3>2, <3>3
         DEF IconNext, IconStep, Ask, LookUp, ReadBlob, Resolve, TestPeriod, Recheck, Restart,
             IconTick, iconState, iconVars
  <2>2. IsFiniteSet(Mapped \cup {a})
    BY FS_AddElement DEF RowsInv
  <2>3. IsFiniteSet(Mapped')
    BY <2>1, <2>2, FS_Subset
  <2>4. QED
    BY <2>3, IconStepInv DEF RowsInv
<1>3. QED
  BY <1>1, <1>2, PTL DEF IconSpec

\* If no icon was counted twice the bytes of the rows are those of their icons, and
\* what is left of the used icons is within the limit.
LEMMA DropsEnough ==
  ASSUME IsFiniteSet(Icons), blobs \subseteq Icons,
         NEW m, IsFiniteSet(Joined(m)),
         NEW gone \in Dropped(m, Total(Used(m)) - Limit), DropRows(m, gone),
         \A a, b \in gone : m[a].sha = m[b].sha => a = b
  PROVE  Total(blobs') <= Limit
<1> DEFINE shas == {m[a].sha : a \in gone}
           left == Used(m) \ shas
<1>1. Limit \in Nat /\ Bytes \in [Icons -> Nat]
  BY BytesAssumption
<1>2. gone \in SUBSET Joined(m) /\ IsFiniteSet(gone)
  BY FS_Subset DEF Dropped
<1>3. Used(m) \in SUBSET Icons /\ shas \in SUBSET Used(m) /\ blobs' = left
  BY <1>2 DEF Used, Joined, DropRows
<1>4. IsFiniteSet(Used(m)) /\ IsFiniteSet(shas) /\ IsFiniteSet(left)
  <2>1. shas \in SUBSET Icons /\ left \in SUBSET Icons
    BY <1>3
  <2>2. QED
    BY <1>3, <2>1, FS_Subset
<1>5. Total(shas) \in Nat /\ Total(left) \in Nat
  <2>1. shas \in SUBSET Icons /\ left \in SUBSET Icons
    BY <1>3
  <2> HIDE DEF shas, left
  <2>2. QED
    BY <1>1, <1>4, <2>1, SumType, TotalIsSum
<1>6. Total(Used(m)) = Total(shas) + Total(left)
  <2>1. shas \in SUBSET Icons /\ left \in SUBSET Icons /\ shas \cap left = {}
        /\ Used(m) = shas \cup left
    BY <1>3
  <2> HIDE DEF shas, left
  <2>2. SumOf(Bytes, shas \cup left) = SumOf(Bytes, shas) + SumOf(Bytes, left)
    BY <1>1, <1>4, <2>1, SumDisjoint
  <2>3. QED
    BY <2>1, <2>2, TotalIsSum
<1>7. RowBytes(m, gone) = Total(shas)
  <2> DEFINE f == [a \in Joined(m) |-> m[a].sha]
             g == [a \in Joined(m) |-> Bytes[f[a]]]
  <2>1. f \in [Joined(m) -> Icons] /\ \A a, b \in gone : f[a] = f[b] => a = b
    BY <1>2 DEF Joined
  <2>2. {f[a] : a \in gone} = shas
    BY <1>2
  <2>3. g = [a \in Joined(m) |-> Bytes[m[a].sha]]
    OBVIOUS
  <2>4. RowBytes(m, gone) = SumOf(g, gone)
    <3>1. RowBytes(m, gone) = SumOf([a \in Joined(m) |-> Bytes[m[a].sha]], gone)
      BY <1>2, RowBytesIsSum
    <3> HIDE DEF g
    <3>2. QED
      BY <2>3, <3>1
  <2>5. SumOf(Bytes, {f[a] : a \in gone}) = SumOf(g, gone)
    <3> HIDE DEF f
    <3>1. QED
      BY <1>1, <1>2, <2>1, SumImage
  <2>6. QED
    <3> HIDE DEF f, g, shas
    <3>1. SumOf(Bytes, shas) = SumOf(g, gone)
      BY <2>2, <2>5
    <3>2. QED
      BY <2>4, <3>1, TotalIsSum
<1>8. CASE gone = Joined(m)
  <2>1. blobs' = {}
    BY <1>3, <1>8 DEF Used
  <2>2. Total({}) = 0
    BY FS_EmptySet, SumSteps, TotalIsSum
  <2>3. QED
    BY <1>1, <2>1, <2>2
<1>9. CASE RowBytes(m, gone) > Total(Used(m)) - Limit
  BY <1>1, <1>3, <1>5, <1>6, <1>7, <1>9
<1>10. QED
  BY <1>8, <1>9 DEF Dropped

(***************************************************************************)
(* What a maintenance leaves exceeds LIMIT_TOTAL_BYTES only if it dropped  *)
(* an icon of several authorities, whatever icons there are and however    *)
(* the times of the rows stand to each other (favicons/cache.py,           *)
(* maintenance).                                                           *)
(***************************************************************************)
THEOREM OverLimitIsShared == IconSpec => OverLimitNeedsShared
<1> DEFINE Sharers(i) == {a \in Joined(blobMap) : blobMap[a].sha = i}
<1>1. ASSUME RowsInv, NEW t \in Threads, Upkeep(t),
             \A i \in blobs \ blobs' : ~ Cardinality(Sharers(i)) > 1
      PROVE  Total(blobs') <= Limit
  <2> DEFINE m == [a \in Authorities |->
                     IF blobMap[a] # None /\ blobMap[a].mtime < now - HoldTime
                     THEN None ELSE blobMap[a]]
             excess == Total(Used(m)) - Limit
  <2>1. blobs \subseteq Icons /\ IsFiniteSet(Icons) /\ Limit \in Nat
    BY <1>1, BytesAssumption DEF RowsInv, IconInv, IconTypeOK
  <2>2. /\ Joined(m) \in SUBSET Joined(blobMap)
        /\ \A a \in Joined(m) : m[a] = blobMap[a] /\ m[a].sha \in blobs
    BY DEF Joined
  <2>3. Joined(blobMap) \in SUBSET Mapped
    BY DEF Joined, Mapped
  <2>4. IsFiniteSet(Joined(blobMap)) /\ IsFiniteSet(Joined(m))
    BY <1>1, <2>2, <2>3, FS_Subset DEF RowsInv
  <2>5. CASE excess > 0
    <3>1. PICK gone \in Dropped(m, excess) : DropRows(m, gone)
      BY <1>1, <2>5 DEF Upkeep
    <3>2. gone \in SUBSET Joined(m)
      BY <3>1 DEF Dropped
    <3>3. ASSUME NEW a \in gone, NEW b \in gone, m[a].sha = m[b].sha, a # b
          PROVE  FALSE
      <4> DEFINE i == m[a].sha
      <4>1. i \in blobs \ blobs' /\ {a, b} \in SUBSET Sharers(i)
        <5>1. a \in Joined(m) /\ b \in Joined(m)
          BY <3>2, <3>3
        <5>2. m[a].sha \in blobs /\ m[a] = blobMap[a] /\ m[b] = blobMap[b]
          BY <2>2, <5>1
        <5>3. m[a].sha \notin blobs'
          <6> HIDE DEF m
          <6>1. QED
            BY <3>1, <3>3 DEF DropRows
        <5>4. a \in Sharers(i) /\ b \in Sharers(i)
          <6> HIDE DEF m
          <6>1. QED
            BY <2>2, <3>3, <5>1, <5>2
        <5>5. QED
          BY <5>2, <5>3, <5>4
      <4>2. IsFiniteSet(Sharers(i))
        <5>1. Sharers(i) \in SUBSET Joined(blobMap)
          OBVIOUS
        <5>2. QED
          BY <2>4, <5>1, FS_Subset
      <4>3. Cardinality({a, b}) = 2
        <5>1. Cardinality({a} \cup {b}) = Cardinality({a}) + 1 /\ Cardinality({a}) = 1
          BY <3>3, FS_Singleton, FS_AddElement
        <5>2. {a, b} = {a} \cup {b}
          OBVIOUS
        <5>3. QED
          BY <5>1, <5>2
      <4>4. Cardinality(Sharers(i)) >= 2 /\ Cardinality(Sharers(i)) \in Nat
        <5> HIDE DEF Sharers
        <5>1. QED
          BY <4>1, <4>2, <4>3, FS_Subset, FS_CardinalityType
      <4>5. QED
        BY <1>1, <4>1, <4>4
    <3>4. QED
      <4> HIDE DEF m
      <4>1. QED
        BY <2>1, <2>4, <3>1, <3>3, DropsEnough
  <2>6. CASE ~ excess > 0
    <3>1. DropRows(m, {})
      BY <1>1, <2>6 DEF Upkeep
    <3>2. blobs' = Used(m)
      BY <3>1 DEF DropRows
    <3>3. Total(Used(m)) \in Nat
      <4>1. Used(m) \in SUBSET Icons
        BY <2>1 DEF Used, Joined
      <4> HIDE DEF m
      <4>2. QED
        BY <2>1, <4>1, FS_Subset, SumType, TotalIsSum, BytesAssumption
    <3>4. QED
      <4> HIDE DEF m
      <4>1. QED
        BY <2>1, <2>6, <3>2, <3>3
  <2>7. QED
    BY <2>5, <2>6
<1>2. RowsInv /\ RowsInv' /\ [IconNext]_iconVars =>
        [\A t \in Threads : Upkeep(t) /\ Total(blobs') > Limit =>
           \E i \in blobs \ blobs' : Cardinality(Sharers(i)) > 1]_iconVars
  <2> SUFFICES ASSUME RowsInv, RowsInv', NEW t \in Threads, Upkeep(t), Total(blobs') > Limit,
                      \A i \in blobs \ blobs' : ~ Cardinality(Sharers(i)) > 1
               PROVE  FALSE
    OBVIOUS
  <2>1. Total(blobs') <= Limit
    BY <1>1
  <2>2. Total(blobs') \in Nat /\ Limit \in Nat
    <3>1. blobs' \in SUBSET Icons /\ IsFiniteSet(blobs')
      BY BytesAssumption, FS_Subset DEF RowsInv, IconInv, IconTypeOK
    <3>2. QED
      BY <3>1, SumType, TotalIsSum, BytesAssumption
  <2>3. QED
    BY <2>1, <2>2
<1>3. QED
  BY <1>2, RowsInvariant, PTL DEF IconSpec, OverLimitNeedsShared

-----------------------------------------------------------------------------
(* ServerControl.                                                          *)

Quiet == \A c \in Commands : shell[c] = "idle"
NoneStarting == \A p \in Pids : process[p] \notin Starting
NoneUp == \A p \in Pids : process[p] # "up"

(* One command at a time, and none while a worker starts.                  *)
OneCommand(c) ==
    shell[c] # "idle" => /\ NoneStarting
                         /\ \A d \in Commands : d # c => shell[d] = "idle"

(* No server runs when a command is about to start one or has stopped it.  *)
CommandReady(c) ==
    /\ shell[c] \in {"clear", "spawn", "remove"} => NoneUp
    /\ shell[c] = "kill" => read[c] = pidFile /\ pidFile \in Pids

OneWorker(p) ==
    process[p] \in Starting =>
        /\ Quiet /\ NoneUp
        /\ \A q \in Pids : q # p => process[q] \notin Starting
        /\ process[p] = "bind" => pidFile = p

Orderly == /\ \A c \in Commands : OneCommand(c) /\ CommandReady(c)
           /\ \A p \in Pids : OneWorker(p) /\ (process[p] = "up" => pidFile = p)

ControlInv == ControlTypeOK /\ (~overlapped => Orderly)

LEMMA ControlInitInv == ControlInit => ControlInv
<1> SUFFICES ASSUME ControlInit PROVE ControlInv
  OBVIOUS
<1>1. ControlTypeOK
  <2>1. process \in [Pids -> Starting \cup Serving \cup {"none", "other"}]
    BY DEF ControlInit
  <2>2. portOf \in [Pids -> Ports] /\ wanted \in [Commands -> Ports]
    BY PortsAssumption DEF ControlInit, Ports
  <2>3. occupied \subseteq Ports /\ read \in [Commands -> Pids \cup {NoPid}]
    BY DEF ControlInit
  <2> QED
    BY <2>1, <2>2, <2>3 DEF ControlInit, ControlTypeOK
<1>2. Orderly
  BY DEF ControlInit, Orderly, OneCommand, CommandReady, OneWorker, Starting
<1> QED
  BY <1>1, <1>2 DEF ControlInv

(* The types.                                                              *)
LEMMA ShellStepType ==
  ASSUME ControlTypeOK, NEW c \in Commands, Command(c)
  PROVE  ControlTypeOK'
<1>1. ASSUME NEW port \in Ports, Start(c, port) PROVE ControlTypeOK'
  BY <1>1 DEF Start, Enters, ControlTypeOK
<1>2. CASE Look(c)
  <2>1. Looked(wanted[c]) \subseteq Ports
    BY DEF Looked, Available, ControlTypeOK
  <2> QED
    BY <1>2, <2>1 DEF Look, Enters, ControlTypeOK
<1>3. CASE Test(c)
  BY <1>3 DEF Test, Enters, ControlTypeOK
<1>4. CASE Clear(c)
  BY <1>4 DEF Clear, Enters, ControlTypeOK
<1>5. CASE Spawn(c)
  BY <1>5 DEF Spawn, Enters, ControlTypeOK, Starting
<1>6. CASE Stop(c)
  BY <1>6 DEF Stop, Enters, ControlTypeOK
<1>7. CASE ReadPid(c)
  BY <1>7 DEF ReadPid, Enters, ControlTypeOK
<1>8. CASE Kill(c)
  BY <1>8 DEF Kill, Enters, ControlTypeOK, Serving
<1>9. CASE RemoveFile(c)
  BY <1>9 DEF RemoveFile, Enters, ControlTypeOK
<1> QED
  BY <1>1, <1>2, <1>3, <1>4, <1>5, <1>6, <1>7, <1>8, <1>9 DEF Command

LEMMA ProcessStepType ==
  ASSUME ControlTypeOK, NEW p \in Pids, Worker(p) \/ End(p) \/ Reuse(p)
  PROVE  ControlTypeOK'
<1>1. CASE LookAgain(p)
  <2>1. Looked(portOf[p]) \subseteq Ports
    BY DEF Looked, Available, ControlTypeOK
  <2> QED
    BY <1>1, <2>1 DEF LookAgain, ControlTypeOK, Starting
<1>2. CASE WritePid(p)
  BY <1>2 DEF WritePid, ControlTypeOK, Starting
<1>3. CASE Bind(p)
  BY <1>3 DEF Bind, ControlTypeOK, Serving
<1>4. CASE End(p)
  BY <1>4 DEF End, ControlTypeOK
<1>5. CASE Reuse(p)
  BY <1>5 DEF Reuse, ControlTypeOK
<1> QED
  BY <1>1, <1>2, <1>3, <1>4, <1>5 DEF Worker

LEMMA ControlStepType == ASSUME ControlTypeOK, [ControlNext]_controlVars PROVE ControlTypeOK'
<1>1. ASSUME NEW port \in Ports, Occupy(port) PROVE ControlTypeOK'
  BY <1>1 DEF Occupy, ControlTypeOK
<1>2. CASE UNCHANGED controlVars
  BY <1>2 DEF controlVars, ControlTypeOK
<1> QED
  BY <1>1, <1>2, ShellStepType, ProcessStepType DEF ControlNext

(* The order of commands and workers.                                      *)
(* A step of a command that leaves the processes and the file alone.       *)
LEMMA ShellMoves ==
  ASSUME ControlTypeOK, Orderly, NEW c \in Commands, NEW place,
         Enters(c, place), UNCHANGED <<pidFile, process>>,
         \A d \in Commands : d # c => read'[d] = read[d] /\ shell[d] = "idle",
         NoneStarting,
         place \in {"clear", "spawn", "remove"} => NoneUp,
         place = "kill" => read'[c] = pidFile /\ pidFile \in Pids
  PROVE  Orderly'
<1>1. \A d \in Commands : shell'[d] = IF d = c THEN place ELSE "idle"
  BY DEF Enters, ControlTypeOK
<1>2. NoneStarting' /\ (NoneUp => NoneUp')
  BY DEF NoneStarting, NoneUp
<1>3. ASSUME NEW d \in Commands PROVE OneCommand(d)' /\ CommandReady(d)'
  BY <1>1, <1>2, <1>3 DEF OneCommand, CommandReady
<1>4. ASSUME NEW p \in Pids PROVE OneWorker(p)' /\ (process'[p] = "up" => pidFile' = p)
  BY <1>2, <1>4 DEF OneWorker, NoneStarting, Orderly
<1> QED
  BY <1>3, <1>4 DEF Orderly

LEMMA OthersIdle ==
  ASSUME Orderly, NEW c \in Commands, shell[c] # "idle"
  PROVE  NoneStarting /\ \A d \in Commands : d # c => shell[d] = "idle"
BY DEF Orderly, OneCommand

LEMMA ShellStepOrderly ==
  ASSUME ControlTypeOK, Orderly, NEW c \in Commands, Command(c), ~overlapped'
  PROVE  Orderly'
<1>1. ASSUME NEW port \in Ports, Start(c, port) PROVE Orderly'
  <2>1. Quiet /\ NoneStarting
    BY <1>1 DEF Start, Busy, Quiet, NoneStarting
  <2> QED
    BY <1>1, <2>1, ShellMoves DEF Start, Quiet
<1>2. CASE Look(c)
  <2>1. shell[c] # "idle"
    BY <1>2 DEF Look
  <2>2. CASE Enters(c, "test")
    BY <1>2, <2>1, <2>2, OthersIdle, ShellMoves DEF Look
  <2>3. CASE Enters(c, "idle")
    BY <1>2, <2>1, <2>3, OthersIdle, ShellMoves DEF Look
  <2> QED
    BY <1>2, <2>2, <2>3 DEF Look
<1>3. CASE Test(c)
  <2>1. shell[c] # "idle"
    BY <1>3 DEF Test
  <2>2. PICK running \in Running(wanted[c]) : Enters(c, IF running THEN "idle" ELSE "clear")
    BY <1>3 DEF Test
  <2>3. CASE running
    BY <1>3, <2>1, <2>2, <2>3, OthersIdle, ShellMoves DEF Test
  <2>4. CASE ~running
    <3>1. ASSUME NEW p \in Pids, process[p] = "up" PROVE FALSE
      <4>1. pidFile = p /\ pidFile # NoPid
        BY <3>1, PidsAssumption DEF Orderly
      <4> QED
        BY <2>2, <2>4, <3>1, <4>1 DEF Running
    <3>2. NoneUp
      BY <3>1 DEF NoneUp
    <3> QED
      BY <1>3, <2>1, <2>2, <2>4, <3>2, OthersIdle, ShellMoves DEF Test
  <2> QED
    BY <2>3, <2>4
<1>4. CASE Clear(c)
  <2>1. NoneUp /\ NoneStarting /\ \A d \in Commands : shell'[d] = IF d = c THEN "spawn" ELSE "idle"
    BY <1>4, OthersIdle DEF Clear, Enters, Orderly, CommandReady, ControlTypeOK
  <2> QED
    BY <1>4, <2>1 DEF Clear, Orderly, OneCommand, CommandReady, OneWorker, NoneUp, NoneStarting
<1>5. CASE Spawn(c)
  <2>1. NoneUp /\ NoneStarting /\ \A d \in Commands : shell'[d] = "idle"
    BY <1>5, OthersIdle DEF Spawn, Enters, Orderly, CommandReady, ControlTypeOK
  <2>2. PICK p \in Pids : process' = [process EXCEPT ![p] = "look"]
    BY <1>5 DEF Spawn
  <2>3. \A q \in Pids : process'[q] = IF q = p THEN "look" ELSE process[q]
    BY <2>2 DEF ControlTypeOK
  <2> QED
    BY <2>1, <2>3 DEF Orderly, OneCommand, CommandReady, OneWorker, Quiet, NoneUp, NoneStarting
<1>6. CASE Stop(c)
  <2>1. Quiet /\ NoneStarting
    BY <1>6 DEF Stop, Busy, Quiet, NoneStarting
  <2> QED
    BY <1>6, <2>1, ShellMoves DEF Stop, Quiet
<1>7. CASE ReadPid(c)
  <2>1. shell[c] # "idle"
    BY <1>7 DEF ReadPid
  <2>2. \A d \in Commands : d # c => read'[d] = read[d]
    BY <1>7 DEF ReadPid, ControlTypeOK
  <2>3. read'[c] = pidFile /\ (pidFile # NoPid => pidFile \in Pids)
    BY <1>7 DEF ReadPid, ControlTypeOK
  <2> QED
    BY <1>7, <2>1, <2>2, <2>3, OthersIdle, ShellMoves DEF ReadPid
<1>8. CASE Kill(c)
  <2>1. /\ NoneStarting /\ read[c] = pidFile /\ pidFile \in Pids
        /\ \A d \in Commands : shell'[d] = IF d = c THEN "remove" ELSE "idle"
    BY <1>8, OthersIdle DEF Kill, Enters, Orderly, CommandReady, ControlTypeOK
  <2>2. \A p \in Pids : process'[p] \in {process[p], "dying", "none"}
    BY <1>8 DEF Kill, ControlTypeOK
  <2>3. process'[pidFile] # "up"
    BY <1>8, <2>1 DEF Kill, ControlTypeOK, Serving
  <2>4. NoneUp'
    BY <2>2, <2>3 DEF NoneUp, Orderly
  <2>5. NoneStarting'
    BY <2>1, <2>2 DEF NoneStarting, Starting
  <2> QED
    BY <2>1, <2>4, <2>5 DEF Orderly, OneCommand, CommandReady, OneWorker, NoneUp, NoneStarting
<1>9. CASE RemoveFile(c)
  <2>1. NoneUp /\ NoneStarting /\ \A d \in Commands : shell'[d] = "idle"
    BY <1>9, OthersIdle DEF RemoveFile, Enters, Orderly, CommandReady, ControlTypeOK
  <2> QED
    BY <1>9, <2>1 DEF RemoveFile, Orderly, OneCommand, CommandReady, OneWorker, NoneUp, NoneStarting
<1> QED
  BY <1>1, <1>2, <1>3, <1>4, <1>5, <1>6, <1>7, <1>8, <1>9 DEF Command

LEMMA ProcessStepOrderly ==
  ASSUME ControlTypeOK, Orderly, NEW p \in Pids, Worker(p) \/ End(p) \/ Reuse(p)
  PROVE  Orderly'
<1> USE DEF ControlTypeOK, Orderly, OneCommand, CommandReady, OneWorker,
        Quiet, NoneUp, NoneStarting, Starting
<1>1. CASE LookAgain(p)
  BY <1>1 DEF LookAgain
<1>2. CASE WritePid(p)
  BY <1>2 DEF WritePid
<1>3. CASE Bind(p)
  BY <1>3 DEF Bind
<1>4. CASE End(p)
  BY <1>4 DEF End
<1>5. CASE Reuse(p)
  BY <1>5 DEF Reuse
<1> QED
  BY <1>1, <1>2, <1>3, <1>4, <1>5 DEF Worker

LEMMA ControlStepInv == ControlInv /\ [ControlNext]_controlVars => ControlInv'
<1> SUFFICES ASSUME ControlInv, [ControlNext]_controlVars PROVE ControlInv'
  OBVIOUS
<1>1. ControlTypeOK'
  BY ControlStepType DEF ControlInv
<1>2. ASSUME ~overlapped' PROVE Orderly'
  <2>1. ~overlapped
    BY <1>2 DEF ControlInv, ControlTypeOK, ControlNext, Command, Worker, Start, Look, Test,
       Clear, Spawn, Stop, ReadPid, Kill, RemoveFile, LookAgain, WritePid, Bind, End, Reuse,
       Occupy, controlVars
  <2>2. ASSUME NEW port \in Ports, Occupy(port) PROVE Orderly'
    BY <2>1, <2>2 DEF Occupy, ControlInv, Orderly, OneCommand, CommandReady, OneWorker,
       Quiet, NoneUp, NoneStarting
  <2>3. CASE UNCHANGED controlVars
    BY <2>1, <2>3 DEF controlVars, ControlInv, Orderly, OneCommand, CommandReady, OneWorker,
       Quiet, NoneUp, NoneStarting
  <2> QED
    BY <1>1, <1>2, <2>1, <2>2, <2>3, ShellStepOrderly, ProcessStepOrderly
       DEF ControlInv, ControlNext
<1> QED
  BY <1>1, <1>2 DEF ControlInv

(* Whoever crashes and whatever pids and ports become, `blend stop' finds  *)
(* every server as long as commands do not overlap (main, kill_running).   *)
THEOREM ServersAreNamed == ControlSpec => []ServersNamed
<1>1. ControlInv => ServersNamed
  BY DEF ControlInv, Orderly, ServersNamed
<1> QED
  BY <1>1, ControlInitInv, ControlStepInv, PTL DEF ControlSpec
=============================================================================
