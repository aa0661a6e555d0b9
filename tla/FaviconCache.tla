---------------------------- MODULE FaviconCache ----------------------------
(***************************************************************************)
(* FaviconCacheSQLite and the favicon proxy that looks icons up in it.     *)
(* blob_map has a row for each authority of a resolver, blobs one for each *)
(* icon, named by its hash.  Requests run in threads of the server; a      *)
(* transaction is one step, and so is a statement outside of one.          *)
(***************************************************************************)
EXTENDS ServerClock, FiniteSets, FiniteSetsExt

CONSTANTS
    Authorities,    \* domain names, asked for with one resolver
    Icons,          \* the icons the resolver finds
    Bytes,          \* bytes_c of each icon
    BlobMax,        \* BLOB_MAX_BYTES
    Limit,          \* LIMIT_TOTAL_BYTES
    HoldTime,       \* HOLD_TIME
    IconPeriod,     \* MAINTENANCE_PERIOD
    Fallback        \* FALLBACK_ICON, stored when there is no icon

ASSUME BytesAssumption ==
    /\ IsFiniteSet(Icons) /\ Bytes \in [Icons -> Nat \ {0}]
    /\ {Limit, BlobMax, HoldTime, IconPeriod} \subseteq Nat
ASSUME FallbackAssumption == None \notin Icons /\ Fallback \notin Icons \cup {None}

VARIABLES
    blobs,      \* the icons of table blobs
    blobMap,    \* the row of each authority: its icon and m_time
    kept,       \* m_time of the property LAST_MAINTENANCE
    at,         \* where a thread is
    site,       \* the authority it was asked for
    icon,       \* the hash it has read, or the icon it has to store
    upkept      \* a maintenance has run since it read the map

iconState == <<blobs, blobMap, kept, at, site, icon, upkept>>
iconVars == <<now, iconState>>

Places == {"idle", "lookup", "blob", "resolve", "set", "recheck", "upkeep", "store"}
MapRows == [sha : Icons \cup {Fallback}, mtime : Nat]

IconTypeOK ==
    /\ now \in Nat /\ kept \in Nat
    /\ blobs \subseteq Icons
    /\ blobMap \in [Authorities -> MapRows \cup {None}]
    /\ at \in [Threads -> Places]
    /\ site \in [Threads -> Authorities \cup {None}]
    /\ icon \in [Threads -> Icons \cup {Fallback, None}]
    /\ upkept \in [Threads -> BOOLEAN]

IconInit ==
    /\ now = 0 /\ kept = 0 /\ blobs = {}
    /\ blobMap = [a \in Authorities |-> None]
    /\ at = [t \in Threads |-> "idle"]
    /\ site = [t \in Threads |-> None]
    /\ icon = [t \in Threads |-> None]
    /\ upkept = [t \in Threads |-> FALSE]

Moves(t, place) == at' = [at EXCEPT ![t] = place] /\ UNCHANGED <<site, upkept>>

Returns(t) ==
    /\ at' = [at EXCEPT ![t] = "idle"]
    /\ site' = [site EXCEPT ![t] = None]
    /\ icon' = [icon EXCEPT ![t] = None]
    /\ upkept' = [upkept EXCEPT ![t] = FALSE]

-----------------------------------------------------------------------------
(* search_favicon and favicon_url: the lookup of an authority.             *)

Ask(t, a) ==
    /\ at[t] = "idle"
    /\ site' = [site EXCEPT ![t] = a]
    /\ at' = [at EXCEPT ![t] = "lookup"]
    /\ UNCHANGED <<now, blobs, blobMap, kept, icon, upkept>>

(* Not in the map: search_favicon asks the resolver, favicon_url returns   *)
(* the URL of the proxy.  A fallback is answered without a look at blobs.  *)
LookUp(t) ==
    /\ at[t] = "lookup"
    /\ LET row == blobMap[site[t]]
       IN  \/ row = None /\ Moves(t, "resolve") /\ UNCHANGED icon
           \/ row = None /\ Returns(t)
           \/ row # None /\ row.sha = Fallback /\ Returns(t)
           \/ /\ row # None /\ row.sha # Fallback
              /\ icon' = [icon EXCEPT ![t] = row.sha]
              /\ Moves(t, "blob")
    /\ UNCHANGED <<now, blobs, blobMap, kept>>

ReadBlob(t) ==
    /\ at[t] = "blob"
    /\ Returns(t)
    /\ UNCHANGED <<now, blobs, blobMap, kept>>

(* The resolver finds an icon; without one, or after an HTTP error, the    *)
(* fallback is stored.  Another exception ends the request.                *)
Resolve(t) ==
    /\ at[t] = "resolve"
    /\ \/ \E i \in Icons \cup {Fallback} :
            icon' = [icon EXCEPT ![t] = i] /\ Moves(t, "set")
       \/ Returns(t)
    /\ UNCHANGED <<now, blobs, blobMap, kept>>

-----------------------------------------------------------------------------
(* set() and maintenance(), each with a look at the clock of its own.      *)

TestPeriod(t) ==
    /\ at[t] = "set"
    /\ Moves(t, IF now > IconPeriod + kept THEN "recheck" ELSE "store")
    /\ UNCHANGED <<now, blobs, blobMap, kept, icon>>

(* Another thread may have stored LAST_MAINTENANCE meanwhile.              *)
Recheck(t) ==
    /\ at[t] = "recheck"
    /\ IF now < IconPeriod + kept
       THEN Moves(t, "store") /\ UNCHANGED kept
       ELSE Moves(t, "upkeep") /\ kept' = now
    /\ UNCHANGED <<now, blobs, blobMap, icon>>

Total(set) == MapThenSumSet(LAMBDA i : Bytes[i], set)

(* The rows of map m that have their icon in table blobs.                  *)
Joined(m) == {a \in Authorities : m[a] # None /\ m[a].sha \in blobs}
Used(m) == {m[a].sha : a \in Joined(m)}

(* What the loop over the join, ordered by m_time, may have gone through   *)
(* when it breaks: it adds bytes_c for every row, twice for an icon that   *)
(* two authorities have.                                                   *)
RowBytes(m, rows) == MapThenSumSet(LAMBDA a : Bytes[m[a].sha], rows)

(* MUTANT: the loop stops a row too early.                                 *)
DroppedButLast(m, excess) ==
    {rows \in SUBSET Joined(m) :
        /\ \A a \in rows, b \in Joined(m) \ rows : m[a].mtime <= m[b].mtime
        /\ RowBytes(m, rows) <= excess}

Dropped(m, excess) ==
    {rows \in SUBSET Joined(m) :
        /\ \A a \in rows, b \in Joined(m) \ rows : m[a].mtime <= m[b].mtime
        /\ RowBytes(m, rows) > excess \/ rows = Joined(m)
        /\ \E a \in rows :
             /\ \A b \in rows : m[b].mtime <= m[a].mtime
             /\ RowBytes(m, rows \ {a}) <= excess}

DropRows(m, rows) ==
    LET shas == {m[a].sha : a \in rows}
    IN  /\ blobs' = Used(m) \ shas
        /\ blobMap' = [a \in Authorities |->
                         IF m[a] # None /\ m[a].sha \in shas THEN None ELSE m[a]]

(* One transaction: rows out of HOLD_TIME, left-over blobs, and, if there  *)
(* are too many bytes, the oldest icons with all their rows.               *)
Upkeep(t) ==
    /\ at[t] = "upkeep"
    /\ LET m == [a \in Authorities |->
                   IF blobMap[a] # None /\ blobMap[a].mtime < now - HoldTime
                   THEN None ELSE blobMap[a]]
           excess == Total(Used(m)) - Limit
       IN  IF excess > 0
           THEN \E rows \in Dropped(m, excess) : DropRows(m, rows)
           ELSE DropRows(m, {})
    /\ upkept' = [u \in Threads |-> upkept[u] \/ at[u] = "blob"]
    /\ at' = [at EXCEPT ![t] = "store"]
    /\ UNCHANGED <<now, kept, site, icon>>

(* The icon and its row are stored together, unless it is too big.         *)
(* MUTANT: the test comes between the two statements.                      *)
StoreRowFirst(t) ==
    /\ at[t] = "store"
    /\ blobMap' = [blobMap EXCEPT ![site[t]] = [sha |-> icon[t], mtime |-> now]]
    /\ blobs' = blobs \cup (IF icon[t] \in Icons /\ Bytes[icon[t]] <= BlobMax
                            THEN {icon[t]} ELSE {})
    /\ Returns(t)
    /\ UNCHANGED <<now, kept>>
Store(t) ==
    /\ at[t] = "store"
    /\ IF icon[t] \in Icons /\ Bytes[icon[t]] > BlobMax
       THEN UNCHANGED <<blobs, blobMap>>
       ELSE /\ blobs' = blobs \cup ({icon[t]} \ {Fallback})
            /\ blobMap' = [blobMap EXCEPT ![site[t]] =
                             [sha |-> icon[t], mtime |-> now]]
    /\ Returns(t)
    /\ UNCHANGED <<now, kept>>

(* The process dies and starts again; what was committed is on the disk.   *)
Restart ==
    /\ \E t \in Threads : at[t] # "idle"
    /\ at' = [t \in Threads |-> "idle"]
    /\ site' = [t \in Threads |-> None]
    /\ icon' = [t \in Threads |-> None]
    /\ upkept' = [t \in Threads |-> FALSE]
    /\ UNCHANGED <<now, blobs, blobMap, kept>>

IconTick == Tick /\ UNCHANGED iconState

IconStep(t) ==
    \/ \E a \in Authorities : Ask(t, a)
    \/ LookUp(t) \/ ReadBlob(t) \/ Resolve(t)
    \/ TestPeriod(t) \/ Recheck(t) \/ Upkeep(t) \/ Store(t)

IconNext == (\E t \in Threads : IconStep(t)) \/ Restart \/ IconTick

IconSpec == IconInit /\ [][IconNext]_iconVars

-----------------------------------------------------------------------------
(* An icon that is in the map is missing among the blobs only for a        *)
(* request that had read the map before a maintenance (cache.py, __call__  *)
(* reads the two tables in two statements).                                *)
MissingIconNeedsMaintenance ==
    \A t \in Threads : at[t] = "blob" /\ icon[t] \notin blobs => upkept[t]

(* The bytes that are left after a maintenance exceed LIMIT_TOTAL_BYTES    *)
(* only if an icon of several authorities was among those it dropped, as   *)
(* it was counted for each of them (cache.py, maintenance: "drop old items *)
(* to be in LIMIT_TOTAL_BYTES").                                           *)
OverLimitNeedsShared ==
    [][\A t \in Threads : Upkeep(t) /\ Total(blobs') > Limit =>
         \E i \in blobs \ blobs' :
            Cardinality({a \in Joined(blobMap) : blobMap[a].sha = i}) > 1]_iconVars

(* After a maintenance the cache is within LIMIT_TOTAL_BYTES (cache.py,    *)
(* LIMIT_TOTAL_BYTES: "The limit is only reached at each maintenance       *)
(* interval after which the oldest BLOBs are deleted").  The code breaks   *)
(* it.                                                                     *)
UpkeepKeepsLimit ==
    [][\A t \in Threads : Upkeep(t) => Total(blobs') <= Limit]_iconVars
=============================================================================
