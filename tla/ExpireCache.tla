---------------------------- MODULE ExpireCache ----------------------------
(***************************************************************************)
(* ExpireCacheSQLite: a key/value table in a SQLite file, its maintenance  *)
(* and the password that its hashed keys depend on.  The threads of one    *)
(* process use it; the process may crash at any step and start again, with *)
(* the old password or a new one.                                          *)
(*                                                                         *)
(* A statement in a transaction of its own is a step.  The table of one    *)
(* context stands for all of them.                                         *)
(***************************************************************************)
EXTENDS ServerClock

CONSTANTS
    Keys,           \* keys of the table
    Period,         \* MAINTENANCE_PERIOD
    MaxHold,        \* MAXHOLD_TIME
    MaxPassword     \* bound: the passwords are 1, 2, .. MaxPassword

ASSUME PeriodAssumption == Period \in Nat /\ MaxHold \in Nat /\ Horizon \in Nat
ASSUME PasswordAssumption == MaxPassword \in Nat \ {0} /\ None \notin Nat

VARIABLES
    password,   \* cfg.password of the running process
    initDone,   \* _init_done of its cache object
    token,      \* property hash_token: the password it is the hash of
    last,       \* m_time of the property LAST_MAINTENANCE
    listed,     \* the table is among the properties (table_names)
    rows,       \* the row of each key: who stored it and its expire column
    step,       \* where a thread is
    due,        \* it has to delete the expired rows
    cutoff,     \* and the time it compares them with
    job,        \* the key it gets, or sets
    crashed     \* a crash cut off a maintenance that had stored LAST_MAINTENANCE,
                \* and none has come to its end since

diskVars == <<token, last, listed, rows>>
cacheState == <<password, initDone, diskVars, step, due, cutoff, job, crashed>>
cacheVars == <<now, cacheState>>

Steps == {"idle", "mark", "connect", "force", "truncate", "token", "sweep",
          "use", "insert"}
Rows == [by : 1 .. MaxPassword, expire : Nat]
Jobs == [op : {"get", "set"}, key : Keys]

CacheTypeOK ==
    /\ now \in Nat /\ password \in 1 .. MaxPassword
    /\ initDone \in BOOLEAN /\ listed \in BOOLEAN /\ crashed \in BOOLEAN
    /\ token \in 1 .. MaxPassword \cup {None}
    /\ last \in Nat
    /\ rows \in [Keys -> Rows \cup {None}]
    /\ step \in [Threads -> Steps]
    /\ due \in [Threads -> BOOLEAN]
    /\ cutoff \in [Threads -> Nat]
    /\ job \in [Threads -> Jobs \cup {None}]

(* A new database: create_schema has stored LAST_MAINTENANCE.              *)
CacheInit ==
    /\ now = 0 /\ password = 1 /\ initDone = FALSE
    /\ token = None /\ last = 0 /\ listed = FALSE
    /\ rows = [k \in Keys |-> None]
    /\ step = [t \in Threads |-> "idle"]
    /\ due = [t \in Threads |-> FALSE]
    /\ cutoff = [t \in Threads |-> 0]
    /\ job = [t \in Threads |-> None]
    /\ crashed = FALSE

Goto(t, s) == step' = [step EXCEPT ![t] = s]

(* get and set call maintenance() first: is the period over?               *)
Begin(t) ==
    /\ step[t] = "idle"
    /\ \E j \in Jobs : job' = [job EXCEPT ![t] = j]
    /\ Goto(t, IF now < last + Period THEN "connect" ELSE "mark")
    /\ UNCHANGED <<now, password, initDone, diskVars, due, cutoff, crashed>>

(* LAST_MAINTENANCE is stored before anything is deleted.                  *)
MarkMaintenance(t) ==
    /\ step[t] = "mark"
    /\ last' = now
    /\ due' = [due EXCEPT ![t] = TRUE]
    /\ cutoff' = [cutoff EXCEPT ![t] = now]
    /\ Goto(t, "connect")
    /\ UNCHANGED <<now, password, initDone, token, listed, rows, job, crashed>>

Onward(t) == IF due[t] THEN "sweep" ELSE "use"

(* connect() and DB call init(), which runs once per process and sets      *)
(* _init_done at its beginning: other threads go on while it runs.         *)
Connect(t) ==
    /\ step[t] = "connect"
    /\ initDone' = TRUE
    /\ Goto(t, IF initDone \/ token = password THEN Onward(t) ELSE "force")
    /\ UNCHANGED <<now, password, diskVars, due, cutoff, job, crashed>>

(* maintenance(force=True, truncate=True): LAST_MAINTENANCE, then DELETE.  *)
(* MUTANT: the hash token is stored with it.                               *)
ForceWithToken(t) ==
    /\ step[t] = "force"
    /\ last' = now /\ token' = password
    /\ Goto(t, "truncate")
    /\ UNCHANGED <<now, password, initDone, listed, rows, due, cutoff, job, crashed>>
ForceMaintenance(t) ==
    /\ step[t] = "force"
    /\ last' = now
    /\ Goto(t, "truncate")
    /\ UNCHANGED <<now, password, initDone, token, listed, rows, due, cutoff, job, crashed>>

Truncate(t) ==
    /\ step[t] = "truncate"
    /\ rows' = [k \in Keys |-> IF listed THEN None ELSE rows[k]]
    /\ crashed' = FALSE
    /\ Goto(t, "token")
    /\ UNCHANGED <<now, password, initDone, token, last, listed, due, cutoff, job>>

StoreToken(t) ==
    /\ step[t] = "token"
    /\ token' = password
    /\ Goto(t, Onward(t))
    /\ UNCHANGED <<now, password, initDone, last, listed, rows, due, cutoff, job, crashed>>

(* DELETE FROM table WHERE expire < ?; MUTANT: the column is taken for the *)
(* time of the insertion.                                                  *)
KeptForHold(t, k) == listed => rows[k].expire + MaxHold >= cutoff[t]
Kept(t, k) == listed => rows[k].expire >= cutoff[t]

Sweep(t) ==
    /\ step[t] = "sweep"
    /\ rows' = [k \in Keys |->
                  IF rows[k] # None /\ Kept(t, k) THEN rows[k] ELSE None]
    /\ due' = [due EXCEPT ![t] = FALSE]
    /\ crashed' = FALSE
    /\ Goto(t, "use")
    /\ UNCHANGED <<now, password, initDone, token, last, listed, cutoff, job>>

(* The row is returned whatever its expire column says.                    *)
Get(t) ==
    /\ step[t] = "use" /\ job[t].op = "get"
    /\ Goto(t, "idle")
    /\ UNCHANGED <<now, password, initDone, diskVars, due, cutoff, job, crashed>>

(* create_table: the table is made, then listed.                           *)
CreateTable(t) ==
    /\ step[t] = "use" /\ job[t].op = "set"
    /\ listed' = TRUE
    /\ Goto(t, "insert")
    /\ UNCHANGED <<now, password, initDone, token, last, rows, due, cutoff, job, crashed>>

(* INSERT or UPDATE, unless the serialized value is too big.               *)
Insert(t) ==
    /\ step[t] = "insert"
    /\ \/ UNCHANGED rows
       \/ \E hold \in 1 .. MaxHold :
            rows' = [rows EXCEPT ![job[t].key] =
                       [by |-> password, expire |-> now + hold]]
    /\ Goto(t, "idle")
    /\ UNCHANGED <<now, password, initDone, token, last, listed, due, cutoff, job, crashed>>

(* The process dies and starts again; a new password was not used before.  *)
Crash ==
    /\ \E t \in Threads : step[t] # "idle"
    /\ password' \in {password, password + 1} /\ password' <= MaxPassword
    /\ initDone' = FALSE
    /\ step' = [t \in Threads |-> "idle"]
    /\ due' = [t \in Threads |-> FALSE]
    /\ crashed' = (crashed \/ \E t \in Threads : due[t] \/ step[t] = "truncate")
    /\ UNCHANGED <<now, diskVars, cutoff, job>>

CacheTick == Tick /\ UNCHANGED cacheState

Operation(t) ==
    \/ Begin(t) \/ MarkMaintenance(t) \/ Connect(t)
    \/ ForceMaintenance(t) \/ Truncate(t) \/ StoreToken(t)
    \/ Sweep(t) \/ Get(t) \/ CreateTable(t) \/ Insert(t)

CacheNext == (\E t \in Threads : Operation(t)) \/ Crash \/ CacheTick

CacheSpec == CacheInit /\ [][CacheNext]_cacheVars

-----------------------------------------------------------------------------
(* A row that was stored under another password exists only before init()  *)
(* has truncated the tables, whatever thread got there first and wherever  *)
(* a crash cut it off (cache.py, password: "all values in the cache are    *)
(* deleted when the password is changed").                                 *)
OldRowsNeedInit ==
    (\E k \in Keys : rows[k] # None /\ rows[k].by # password)
        => ~initDone \/ \E t \in Threads : step[t] \in {"force", "truncate"}

(* A row that had expired when LAST_MAINTENANCE was stored exists only     *)
(* while that maintenance is about to delete it, or after a crash cut it   *)
(* off and until another one has ended (cache.py, maintenance).            *)
StaleNeedsUnfinished ==
    (\E k \in Keys : rows[k] # None /\ rows[k].expire < last)
        => crashed \/ \E t \in Threads : due[t] \/ step[t] = "truncate"
=============================================================================
