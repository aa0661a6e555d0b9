------------------------------ MODULE ApiSearch ------------------------------
(***************************************************************************)
(* The JSON search endpoint (app.api_search) with its two caches: the      *)
(* response cache SEARCH_CACHE, keyed by URL, and the FAST_SEARCH_CACHE of *)
(* the router, keyed by the query.  The server runs one thread per request *)
(* and neither cache has a lock, so each access to one is a step: a key    *)
(* that was there when it was tested may be gone when it is read.          *)
(*                                                                         *)
(* What the providers answer is left open (SearchRouter models it).        *)
(***************************************************************************)
EXTENDS Integers, Sequences, FiniteSets

CONSTANTS
  Threads,   \* the threads of the server; each handles one request at a time
  Urls,      \* request URLs, the keys of SEARCH_CACHE
  Keys,      \* the keys of FAST_SEARCH_CACHE
  KeyOf,     \* the key of each URL
  FastUrls,  \* URLs that ask for mode "fast"
  CacheTtl,  \* CACHE_TTL
  Low, High, \* purge expired entries above Low, everything above High
  FastTtl, MaxFast,  \* ttl and maxsize of FAST_SEARCH_CACHE
  None,
  Error,     \* the response of a request that failed (status 500)
  Horizon    \* BOUND: the clock stops here

ASSUME CachesAssumption ==
  /\ KeyOf \in [Urls -> Keys] /\ FastUrls \subseteq Urls
  /\ {Low, FastTtl, Horizon} \subseteq Nat /\ CacheTtl \in Nat \ {0}
  /\ High \in Nat /\ Low <= High
  /\ MaxFast \in Nat \ {0}
  /\ {None, Error} \intersect Nat = {} /\ None \notin Urls
ASSUME ThreadsAssumption == IsFiniteSet(Threads) /\ Threads /= {}

VARIABLES
  now,     \* time.time()
  cache,   \* SEARCH_CACHE: per URL None or [stored, made]
  fast,    \* FAST_SEARCH_CACHE: its entries [key, made, expiry], oldest first
  pc,      \* where the thread is
  url,     \* request.url
  doomed,  \* the keys_to_delete not deleted yet
  listed,  \* len(SEARCH_CACHE) when the iteration over it began
  made,    \* when the payload at hand was obtained, or None
  served   \* the last response: None, Error, or when its payload was made

cacheVars  == <<cache, fast>>
threadVars == <<pc, url, doomed, listed, made, served>>
vars == <<now, cacheVars, threadVars>>

Pcs == {"idle", "read", "measure", "list", "listing", "delete", "clear",
        "get", "fastread", "touch", "drop", "search", "put", "putdel", "putpop",
        "putset", "fallback", "store"}

Times    == 0 .. Horizon
Payloads == Times \union {None}
Cached   == {u \in Urls : cache[u] /= None}
FastKeys == {fast[i].key : i \in DOMAIN fast}
Place(k) == CHOOSE i \in DOMAIN fast : fast[i].key = k
FastEntry(k) == fast[Place(k)]
WithoutKey(k) == [i \in 1 .. Len(fast) - 1 |-> fast[IF i < Place(k) THEN i ELSE i + 1]]

Key(t) == KeyOf[url[t]]

Init ==
  /\ now = 0
  /\ cache = [u \in Urls |-> None]
  /\ fast = <<>>
  /\ pc = [t \in Threads |-> "idle"]
  /\ url = [t \in Threads |-> None]
  /\ doomed = [t \in Threads |-> {}]
  /\ listed = [t \in Threads |-> 0]
  /\ made = [t \in Threads |-> None]
  /\ served = [t \in Threads |-> None]

Goto(t, to) == pc' = [pc EXCEPT ![t] = to]
Moves(t, from, to) == pc[t] = from /\ Goto(t, to)

\* A step that changes nothing but where the thread is, and one on fast only.
Looks(t, from, to) ==
  Moves(t, from, to) /\ UNCHANGED <<now, cacheVars, url, doomed, listed, made, served>>
Edits(t, from, to) ==
  Moves(t, from, to) /\ UNCHANGED <<now, cache, url, doomed, listed, made, served>>

\* The thread gets hold of a payload.
Takes(t, from, to, when) ==
  /\ Moves(t, from, to)
  /\ made' = [made EXCEPT ![t] = when]
  /\ UNCHANGED <<now, cacheVars, url, doomed, listed, served>>

\* The thread is done with its request; what it held is gone.
Respond(t, response) ==
  /\ Goto(t, "idle")
  /\ served' = [served EXCEPT ![t] = response]
  /\ url' = [url EXCEPT ![t] = None]
  /\ doomed' = [doomed EXCEPT ![t] = {}]
  /\ listed' = [listed EXCEPT ![t] = 0]
  /\ made' = [made EXCEPT ![t] = None]

\* An exception outside the try of api_search: the server answers 500.
Fails(t) == Respond(t, Error) /\ UNCHANGED <<now, cacheVars>>

\* Time passes between requests and while providers or the fallback are asked.
Tick ==
  /\ now < Horizon
  /\ \A t \in Threads : pc[t] \in {"idle", "search", "fallback"}
  /\ now' = now + 1
  /\ UNCHANGED <<cacheVars, threadVars>>

-----------------------------------------------------------------------------
(* SEARCH_CACHE: looking up and purging.                                   *)

\* The request arrives; the key is in the cache or not.
Ask(t, u) ==
  /\ Moves(t, "idle", IF u \in Cached THEN "read" ELSE "measure")
  /\ url' = [url EXCEPT ![t] = u]
  /\ served' = [served EXCEPT ![t] = None]
  /\ UNCHANGED <<now, cacheVars, doomed, listed, made>>

\* MUTANT of ReadHit: the age of the entry is not looked at.
ReadAnyAge(t) ==
  /\ pc[t] = "read"
  /\ url[t] \in Cached
  /\ Respond(t, cache[url[t]].made)
  /\ UNCHANGED <<now, cacheVars>>

ReadHit(t) ==
  /\ pc[t] = "read"
  /\ url[t] \in Cached
  /\ now - cache[url[t]].stored < CacheTtl
  /\ Respond(t, cache[url[t]].made)
  /\ UNCHANGED <<now, cacheVars>>

ReadExpired(t) ==
  /\ Looks(t, "read", "measure")
  /\ url[t] \in Cached
  /\ now - cache[url[t]].stored >= CacheTtl

\* The key was purged since it was tested: KeyError.
ReadGone(t) == pc[t] = "read" /\ url[t] \notin Cached /\ Fails(t)

\* len(SEARCH_CACHE) > Low?
Measure(t) == Looks(t, "measure", IF Cardinality(Cached) > Low THEN "list" ELSE "get")

\* The comprehension iterates over the dict ...
BeginList(t) ==
  /\ Moves(t, "list", "listing")
  /\ listed' = [listed EXCEPT ![t] = Cardinality(Cached)]
  /\ UNCHANGED <<now, cacheVars, url, doomed, made, served>>

\* ... and ends with the expired keys, unless the size of the dict has changed.
EndList(t) ==
  /\ Moves(t, "listing", "delete")
  /\ listed[t] = Cardinality(Cached)
  /\ doomed' = [doomed EXCEPT ![t] = {u \in Cached : now - cache[u].stored > CacheTtl}]
  /\ UNCHANGED <<now, cacheVars, url, listed, made, served>>

ListBroken(t) == pc[t] = "listing" /\ listed[t] /= Cardinality(Cached) /\ Fails(t)

Delete(t, u) ==
  /\ pc[t] = "delete"
  /\ u \in doomed[t] \intersect Cached
  /\ cache' = [cache EXCEPT ![u] = None]
  /\ doomed' = [doomed EXCEPT ![t] = @ \ {u}]
  /\ UNCHANGED <<now, fast, pc, url, listed, made, served>>

\* Another thread deleted it first: KeyError.
DeleteGone(t, u) == pc[t] = "delete" /\ u \in doomed[t] \ Cached /\ Fails(t)

\* MUTANT of Size: what has not expired is kept, however much it is.
SizeIgnored(t) ==
  /\ Looks(t, "delete", "get")
  /\ doomed[t] = {}

\* len(SEARCH_CACHE) > High? then clear() everything.
Size(t) ==
  /\ Looks(t, "delete", IF Cardinality(Cached) > High THEN "clear" ELSE "get")
  /\ doomed[t] = {}

Clear(t) ==
  /\ Moves(t, "clear", "get")
  /\ cache' = [u \in Urls |-> None]
  /\ UNCHANGED <<now, fast, url, doomed, listed, made, served>>

\* int(pageno) fails, and fails again in the handler of the exception.
BadPage(t) == pc[t] = "get" /\ Fails(t)

-----------------------------------------------------------------------------
(* FAST_SEARCH_CACHE: the get and put of SearchRouter.route.               *)

\* An exception in route: the request goes to the fallback with empty hands.
RouteFails(t) == Takes(t, pc[t], "fallback", None)

Get(t) == Looks(t, "get", IF url[t] \in FastUrls /\ Key(t) \in FastKeys THEN "fastread" ELSE "search")

\* MUTANT of FastRead: an expired entry is used.
FastReadAnyAge(t) ==
  /\ pc[t] = "fastread"
  /\ Key(t) \in FastKeys
  /\ Takes(t, "fastread", "touch", FastEntry(Key(t)).made)

FastRead(t) ==
  /\ pc[t] = "fastread"
  /\ Key(t) \in FastKeys
  /\ LET entry == FastEntry(Key(t))
     IN  IF now < entry.expiry THEN Takes(t, "fastread", "touch", entry.made)
                               ELSE Looks(t, "fastread", "drop")

\* move_to_end
Touch(t) ==
  /\ Edits(t, "touch", "store")
  /\ Key(t) \in FastKeys
  /\ fast' = Append(WithoutKey(Key(t)), FastEntry(Key(t)))

Drop(t) ==
  /\ Edits(t, "drop", "search")
  /\ Key(t) \in FastKeys
  /\ fast' = WithoutKey(Key(t))

\* MUTANT of Found: the payload is put into the cache before it is there.
FoundUnset(t) == Looks(t, "search", IF url[t] \in FastUrls THEN "put" ELSE "store")

\* The providers answer, with results, with none, or with an exception.
Found(t) == Takes(t, "search", IF url[t] \in FastUrls THEN "put" ELSE "store", now)

FoundNothing(t) == pc[t] = "search" /\ RouteFails(t)

\* put(): replace the key, or make room, or do neither ...
Put(t) ==
  /\ Looks(t, "put", IF Key(t) \in FastKeys THEN "putdel"
                     ELSE IF Len(fast) >= MaxFast THEN "putpop" ELSE "putset")

PutDel(t) ==
  /\ Edits(t, "putdel", "putset")
  /\ Key(t) \in FastKeys
  /\ fast' = WithoutKey(Key(t))

\* MUTANT of PutPop: a full cache is left as it is.
PutPopNothing(t) == Looks(t, "putpop", "putset")

\* popitem(last=False)
PutPop(t) ==
  /\ Edits(t, "putpop", "putset")
  /\ fast /= <<>>
  /\ fast' = Tail(fast)

\* ... and set it: a key that came back meanwhile keeps its place in the order.
PutSet(t) ==
  /\ Edits(t, "putset", "store")
  /\ LET entry == [key |-> Key(t), made |-> made[t], expiry |-> now + FastTtl]
     IN  fast' = IF Key(t) \in FastKeys
                 THEN [i \in DOMAIN fast |-> IF fast[i].key = Key(t) THEN entry ELSE fast[i]]
                 ELSE Append(fast, entry)

\* The entry another thread has removed meanwhile: KeyError, and the results
\* of the search, if it was one, are lost.
FastGone(t) ==
  /\ \/ pc[t] \in {"fastread", "touch", "drop", "putdel"} /\ Key(t) \notin FastKeys
     \/ pc[t] = "putpop" /\ fast = <<>>
  /\ RouteFails(t)

-----------------------------------------------------------------------------
(* The end of the request.                                                 *)

FallbackFound(t) == Takes(t, "fallback", "store", now)

\* Nothing was found at all: the empty payload is not cached.
FallbackEmpty(t) ==
  /\ pc[t] = "fallback"
  /\ Respond(t, now)
  /\ UNCHANGED <<now, cacheVars>>

Store(t) ==
  /\ pc[t] = "store"
  /\ cache' = [cache EXCEPT ![url[t]] = [stored |-> now, made |-> made[t]]]
  /\ Respond(t, made[t])
  /\ UNCHANGED <<now, fast>>

-----------------------------------------------------------------------------
Lookup(t) ==
  \/ \E u \in Urls : Ask(t, u)
  \/ ReadHit(t) \/ ReadExpired(t) \/ ReadGone(t)

Purge(t) ==
  \/ Measure(t) \/ BeginList(t) \/ EndList(t) \/ ListBroken(t)
  \/ \E u \in Urls : Delete(t, u) \/ DeleteGone(t, u)
  \/ Size(t) \/ Clear(t) \/ BadPage(t)

Route(t) ==
  \/ Get(t) \/ FastRead(t) \/ Touch(t) \/ Drop(t)
  \/ Found(t) \/ FoundNothing(t)
  \/ Put(t) \/ PutDel(t) \/ PutPop(t) \/ PutSet(t) \/ FastGone(t)

End(t) == FallbackFound(t) \/ FallbackEmpty(t) \/ Store(t)

Next == Tick \/ \E t \in Threads : Lookup(t) \/ Purge(t) \/ Route(t) \/ End(t)

Spec == Init /\ [][Next]_vars

-----------------------------------------------------------------------------
(* Properties.                                                             *)

TypeOK ==
  /\ now \in Times
  /\ cache \in [Urls -> [stored: Times, made: Times] \union {None}]
  /\ fast \in Seq([key: Keys, made: Times, expiry: Nat])
  /\ pc \in [Threads -> Pcs]
  /\ url \in [Threads -> Urls \union {None}]
  /\ doomed \in [Threads -> SUBSET Urls]
  /\ listed \in [Threads -> Nat]
  /\ made \in [Threads -> Payloads]
  /\ served \in [Threads -> Payloads \union {Error}]
  /\ \A t \in Threads :
       /\ pc[t] /= "idle" => url[t] \in Urls
       /\ pc[t] \in {"touch", "put", "putdel", "putpop", "putset", "store"} => made[t] \in Times

\* The purge runs before the search and the insertion after it, so threads that
\* search at the same time overshoot; never by more than one entry each.
CacheBounded == Cardinality(Cached) <= High + Cardinality(Threads)

\* put() tests the size and inserts in two steps, and takes a key out to put it
\* back in: threads that interleave exceed maxsize, by less than their number.
FastBounded == Len(fast) < MaxFast + Cardinality(Threads)

\* An entry of one cache is stored again in the other, with a new age: what a
\* user sees may be older than either limit, but never than both together.
AnswerFresh ==
  [][\A t \in Threads : served'[t] \in Times /\ served[t] = None =>
       now - served'[t] < CacheTtl + FastTtl]_vars
=============================================================================
