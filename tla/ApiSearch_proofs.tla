-------------------------- MODULE ApiSearch_proofs --------------------------
(***************************************************************************)
(* Proofs that both caches stay bounded and that answers are fresh, for    *)
(* any number of URLs and threads and any limits.  A thread that is past   *)
(* the purge of SEARCH_CACHE will insert one entry at most, so the entries *)
(* and these threads are bounded together; the same holds of the fast      *)
(* cache and the threads that have tested its size.                        *)
(***************************************************************************)
EXTENDS ApiSearch, FiniteSetTheorems, TLAPS

\* The threads that are past the purge and have not answered yet.
PastPurge == {"get", "fastread", "touch", "drop", "search", "put", "putdel", "putpop",
              "putset", "fallback", "store"}
Past == {t \in Threads : pc[t] \in PastPurge}

BoundInv ==
  /\ pc \in [Threads -> Pcs]
  /\ cache = [u \in Urls |-> cache[u]]
  /\ IsFiniteSet(Cached)
  /\ Cardinality(Cached) + Cardinality(Past) <= High + Cardinality(Threads)

\* The threads past the purge are finitely many, no more than there are threads.
LEMMA PastFinite ==
  /\ IsFiniteSet(Past) /\ Cardinality(Past) \in Nat
  /\ Cardinality(Past) <= Cardinality(Threads) /\ Cardinality(Threads) \in Nat
<1>1. Past \in SUBSET Threads /\ IsFiniteSet(Threads)
  BY ThreadsAssumption DEF Past
<1>2. QED
  BY <1>1, FS_Subset, FS_CardinalityType

\* The threads past the purge are the only ones to insert, so a step that adds
\* neither an entry nor such a thread keeps the bound.
LEMMA NothingAdded ==
  ASSUME BoundInv, pc' \in [Threads -> Pcs], cache' = [u \in Urls |-> cache'[u]],
         Cached' \subseteq Cached, Past' \subseteq Past
  PROVE  BoundInv'
<1>1. IsFiniteSet(Cached') /\ Cardinality(Cached') <= Cardinality(Cached)
  BY FS_Subset DEF BoundInv
<1>2. Cardinality(Past') <= Cardinality(Past) /\ Cardinality(Past') \in Nat
  BY PastFinite, FS_Subset, FS_CardinalityType
<1>3. Cardinality(Cached') \in Nat /\ Cardinality(Cached) \in Nat
  BY <1>1, FS_CardinalityType DEF BoundInv
<1>4. QED
  BY <1>1, <1>2, <1>3, PastFinite, CachesAssumption DEF BoundInv

\* A thread passes the purge when there are at most High entries.
LEMMA Passes ==
  ASSUME pc' \in [Threads -> Pcs], cache' = [u \in Urls |-> cache'[u]],
         IsFiniteSet(Cached'), Cardinality(Cached') <= High
  PROVE  BoundInv'
<1>1. Past' \in SUBSET Threads
  BY DEF Past
<1>2. Cardinality(Past') \in Nat /\ Cardinality(Past') <= Cardinality(Threads)
  BY <1>1, ThreadsAssumption, FS_Subset, FS_CardinalityType
<1>3. Cardinality(Cached') \in Nat
  BY FS_CardinalityType
<1>4. QED
  BY <1>2, <1>3, PastFinite, CachesAssumption DEF BoundInv

\* Storing one entry after the purge keeps the bound.
LEMMA StoreKeepsBound ==
  ASSUME BoundInv, NEW t \in Threads, Store(t)
  PROVE  BoundInv'
<1>1. pc' \in [Threads -> Pcs] /\ cache' = [u \in Urls |-> cache'[u]]
  BY DEF BoundInv, Store, Respond, Goto, Pcs
<1>2. Cached' \subseteq Cached \union {url[t]}
  BY DEF Cached, Store, BoundInv
<1>3. IsFiniteSet(Cached') /\ Cardinality(Cached') <= Cardinality(Cached) + 1
  <2>1. /\ IsFiniteSet(Cached \union {url[t]})
        /\ Cardinality(Cached \union {url[t]}) <= Cardinality(Cached) + 1
    <3>1. IsFiniteSet(Cached) /\ Cardinality(Cached) \in Nat
      BY FS_CardinalityType DEF BoundInv
    <3>2. /\ IsFiniteSet(Cached \union {url[t]})
          /\ Cardinality(Cached \union {url[t]}) =
               IF url[t] \in Cached THEN Cardinality(Cached) ELSE Cardinality(Cached) + 1
      BY <3>1, FS_AddElement
    <3>3. QED
      BY <3>1, <3>2
  <2>2. IsFiniteSet(Cached') /\ Cardinality(Cached') <= Cardinality(Cached \union {url[t]})
    BY <1>2, <2>1, FS_Subset
  <2>3. /\ Cardinality(Cached') \in Nat /\ Cardinality(Cached) \in Nat
        /\ Cardinality(Cached \union {url[t]}) \in Nat
    BY <2>1, <2>2, FS_CardinalityType DEF BoundInv
  <2>4. QED
    BY <2>1, <2>2, <2>3
<1>4. Past' = Past \ {t} /\ t \in Past
  BY DEF Past, PastPurge, Store, Respond, Goto, BoundInv
<1>5. Cardinality(Past') = Cardinality(Past) - 1
  BY <1>4, PastFinite, FS_RemoveElement
<1>6. Cardinality(Cached') \in Nat /\ Cardinality(Cached) \in Nat
  BY <1>3, FS_CardinalityType DEF BoundInv
<1>7. QED
  BY <1>1, <1>3, <1>5, <1>6, PastFinite, CachesAssumption DEF BoundInv

\* The entries and the threads past the purge are bounded in every state.
LEMMA BoundInvariant == Spec => []BoundInv
<1>1. Init => BoundInv
  <2> SUFFICES ASSUME Init
               PROVE  BoundInv
    OBVIOUS
  <2>1. Cached = {} /\ Past = {}
    BY DEF Init, Cached, Past, PastPurge
  <2>2. QED
    BY <2>1, FS_EmptySet, PastFinite, CachesAssumption DEF Init, BoundInv, Pcs
<1>2. BoundInv /\ [Next]_vars => BoundInv'
  <2> SUFFICES ASSUME BoundInv, [Next]_vars
               PROVE  BoundInv'
    OBVIOUS
  <2> USE DEF Goto, Moves, Looks, Edits, Takes, Fails, Respond
  <2>1. CASE Tick \/ UNCHANGED vars
    BY <2>1, NothingAdded DEF Tick, vars, cacheVars, threadVars, BoundInv, Cached, Past
  <2>2. ASSUME NEW t \in Threads, pc[t] \notin PastPurge,
               pc' \in [Threads -> Pcs], pc' = [pc EXCEPT ![t] = pc'[t]],
               pc'[t] \notin PastPurge, cache' = cache
        PROVE  BoundInv'
    BY <2>2, NothingAdded DEF BoundInv, Cached, Past
  <2>3. ASSUME NEW t \in Threads, Lookup(t)
        PROVE  BoundInv'
    <3>1. pc[t] \in {"idle", "read"} /\ pc'[t] \in {"idle", "read", "measure"}
      BY <2>3 DEF Lookup, Ask, ReadHit, ReadExpired, ReadGone, BoundInv
    <3>2. cache' = cache /\ pc' = [pc EXCEPT ![t] = pc'[t]]
      BY <2>3 DEF Lookup, Ask, ReadHit, ReadExpired, ReadGone, cacheVars, BoundInv
    <3>3. QED
      BY <2>2, <3>1, <3>2 DEF PastPurge, Pcs, BoundInv
  <2>4. ASSUME NEW t \in Threads, Purge(t)
        PROVE  BoundInv'
    <3>1. CASE Measure(t) \/ Size(t)
      <4>1. cache' = cache /\ pc' \in [Threads -> Pcs]
        BY <3>1 DEF Measure, Size, cacheVars, BoundInv, Pcs
      <4>2. CASE pc'[t] = "get"
        <5>1. Cardinality(Cached) \in Nat /\ Cardinality(Cached) <= High
          BY <3>1, <4>2, FS_CardinalityType, CachesAssumption DEF Measure, Size, BoundInv
        <5>2. Cached' = Cached
          BY <4>1 DEF Cached
        <5>3. QED
          BY <4>1, <5>1, <5>2, Passes DEF BoundInv
      <4>3. CASE pc'[t] /= "get"
        BY <2>2, <3>1, <4>1, <4>3 DEF Measure, Size, PastPurge, BoundInv
      <4>4. QED
        BY <4>2, <4>3
    <3>2. CASE Clear(t)
      <4>1. Cached' = {} /\ pc' \in [Threads -> Pcs]
        BY <3>2 DEF Clear, Cached, BoundInv, Pcs
      <4>2. QED
        BY <3>2, <4>1, Passes, FS_EmptySet, CachesAssumption DEF Clear
    <3>3. CASE BeginList(t) \/ EndList(t) \/ ListBroken(t) \/ BadPage(t)
      <4>1. cache' = cache /\ pc' \in [Threads -> Pcs] /\ pc' = [pc EXCEPT ![t] = pc'[t]]
        BY <3>3 DEF BeginList, EndList, ListBroken, BadPage, cacheVars, BoundInv, Pcs
      <4>2. pc'[t] \notin PastPurge
        BY <3>3 DEF BeginList, EndList, ListBroken, BadPage, BoundInv, PastPurge
      <4>3. QED
        BY <4>1, <4>2, NothingAdded DEF BoundInv, Cached, Past
    <3>4. ASSUME NEW u \in Urls, Delete(t, u)
          PROVE  BoundInv'
      <4>1. cache' = [x \in Urls |-> cache'[x]] /\ Cached' \subseteq Cached
        BY <3>4 DEF Delete, Cached, BoundInv
      <4>2. QED
        BY <3>4, <4>1, NothingAdded DEF Delete, BoundInv, Past
    <3>5. ASSUME NEW u \in Urls, DeleteGone(t, u)
          PROVE  BoundInv'
      BY <2>2, <3>5 DEF DeleteGone, cacheVars, BoundInv, PastPurge, Pcs
    <3>6. QED
      BY <2>4, <3>1, <3>2, <3>3, <3>4, <3>5 DEF Purge
  <2>5. ASSUME NEW t \in Threads, Route(t) \/ FallbackFound(t) \/ FallbackEmpty(t)
        PROVE  BoundInv'
    <3>1. cache' = cache /\ pc[t] \in PastPurge
      BY <2>5 DEF Route, Get, FastRead, Touch, Drop, Found, FoundNothing, RouteFails, Put,
         PutDel, PutPop, PutSet, FastGone, FallbackFound, FallbackEmpty, cacheVars, PastPurge
    <3>2. pc' \in [Threads -> Pcs] /\ pc' = [pc EXCEPT ![t] = pc'[t]]
      BY <2>5 DEF Route, Get, FastRead, Touch, Drop, Found, FoundNothing, RouteFails, Put,
         PutDel, PutPop, PutSet, FastGone, FallbackFound, FallbackEmpty, Pcs, BoundInv
    <3>3. Past' \subseteq Past
      BY <3>1, <3>2 DEF Past, BoundInv
    <3>4. QED
      BY <3>1, <3>2, <3>3, NothingAdded DEF BoundInv, Cached
  <2>6. QED
    BY <2>1, <2>3, <2>4, <2>5, StoreKeepsBound DEF Next, End
<1>3. QED
  BY <1>1, <1>2, PTL DEF Spec

(***************************************************************************)
(* SEARCH_CACHE never holds more than High entries and one for each thread *)
(* of the server, although nothing locks the purge and the insertion.      *)
(***************************************************************************)
THEOREM CacheIsBounded == Spec => []CacheBounded
<1>1. BoundInv => CacheBounded
  <2> SUFFICES ASSUME BoundInv
               PROVE  CacheBounded
    OBVIOUS
  <2>1. Cardinality(Cached) \in Nat
    BY FS_CardinalityType DEF BoundInv
  <2>2. QED
    BY <2>1, PastFinite, CachesAssumption DEF BoundInv, CacheBounded
<1>2. QED
  BY <1>1, BoundInvariant, PTL

-----------------------------------------------------------------------------
(* Types.                                                                  *)

FastEntries == [key: Keys, made: Times, expiry: Nat]

\* What a removed key leaves: one entry less, and every other one.
LEMMA WithoutKeyFacts ==
  ASSUME fast \in Seq(FastEntries), NEW k \in FastKeys
  PROVE  /\ FastEntry(k) \in FastEntries /\ FastEntry(k).key = k
         /\ Len(fast) \in Nat \ {0}
         /\ WithoutKey(k) \in Seq(FastEntries)
         /\ Len(WithoutKey(k)) = Len(fast) - 1
         /\ DOMAIN WithoutKey(k) = 1 .. Len(fast) - 1
         /\ \A i \in DOMAIN WithoutKey(k) : \E j \in DOMAIN fast : WithoutKey(k)[i] = fast[j]
         /\ \E j \in DOMAIN fast : FastEntry(k) = fast[j]
<1>1. Place(k) \in DOMAIN fast /\ fast[Place(k)].key = k
  BY DEF Place, FastKeys
<1>2. Len(fast) \in Nat /\ DOMAIN fast = 1 .. Len(fast)
  OBVIOUS
<1>3. \A i \in 1 .. Len(fast) - 1 : (IF i < Place(k) THEN i ELSE i + 1) \in DOMAIN fast
  BY <1>1, <1>2
<1>4. \A i \in DOMAIN fast : fast[i] \in FastEntries
  OBVIOUS
<1>5. WithoutKey(k) \in [1 .. Len(fast) - 1 -> FastEntries]
  BY <1>3, <1>4 DEF WithoutKey
<1>6. Len(fast) - 1 \in Nat
  BY <1>1, <1>2
<1>7. WithoutKey(k) \in Seq(FastEntries) /\ Len(WithoutKey(k)) = Len(fast) - 1
  BY <1>5, <1>6
<1>8. \A i \in 1 .. Len(fast) - 1 : \E j \in DOMAIN fast : WithoutKey(k)[i] = fast[j]
  BY <1>3 DEF WithoutKey
<1>9. QED
  BY <1>1, <1>2, <1>4, <1>5, <1>6, <1>7, <1>8 DEF FastEntry

\* The entry that a thread which sets its key stores.
NewEntry(t) == [key |-> Key(t), made |-> made[t], expiry |-> now + FastTtl]

\* Setting a key stores the new entry and changes no other one.
LEMMA PutSetFacts ==
  ASSUME TypeOK, NEW t \in Threads, PutSet(t)
  PROVE  /\ NewEntry(t) \in FastEntries
         /\ fast' \in Seq(FastEntries)
         /\ Len(fast') <= Len(fast) + 1 /\ Len(fast) \in Nat
         /\ \A i \in DOMAIN fast' : fast'[i] = NewEntry(t) \/ \E j \in DOMAIN fast : fast'[i] = fast[j]
<1>1. pc[t] = "putset" /\ fast \in Seq(FastEntries)
  BY DEF TypeOK, PutSet, Edits, Moves, FastEntries
<1>2. NewEntry(t) \in FastEntries
  BY <1>1, CachesAssumption DEF TypeOK, NewEntry, FastEntries, Key, Times
<1>3. fast' = IF Key(t) \in FastKeys
              THEN [i \in DOMAIN fast |-> IF fast[i].key = Key(t) THEN NewEntry(t) ELSE fast[i]]
              ELSE Append(fast, NewEntry(t))
  BY DEF PutSet, NewEntry
<1>4. Len(fast) \in Nat /\ DOMAIN fast = 1 .. Len(fast)
  BY <1>1
<1>5. CASE Key(t) \in FastKeys
  <2>1. fast' \in [1 .. Len(fast) -> FastEntries]
    BY <1>1, <1>2, <1>3, <1>4, <1>5
  <2>2. fast' \in Seq(FastEntries) /\ Len(fast') = Len(fast)
    BY <2>1, <1>4
  <2>3. QED
    BY <1>2, <1>3, <1>4, <1>5, <2>1, <2>2
<1>6. CASE Key(t) \notin FastKeys
  <2>1. fast' = Append(fast, NewEntry(t))
    BY <1>3, <1>6
  <2>2. /\ fast' \in Seq(FastEntries) /\ Len(fast') = Len(fast) + 1
        /\ \A i \in DOMAIN fast' : fast'[i] = IF i = Len(fast) + 1 THEN NewEntry(t) ELSE fast[i]
    BY <2>1, <1>1, <1>2
  <2>3. \A i \in DOMAIN fast' : i /= Len(fast) + 1 => i \in DOMAIN fast
    BY <2>2, <1>4
  <2>4. QED
    BY <1>2, <1>4, <2>2, <2>3
<1>7. QED
  BY <1>5, <1>6

\* Every step on the fast cache leaves a sequence of entries, each of them an
\* old one but for the one that PutSet stores.
LEMMA FastSteps ==
  ASSUME TypeOK, NEW t \in Threads, Touch(t) \/ Drop(t) \/ PutDel(t) \/ PutPop(t)
  PROVE  /\ fast' \in Seq(FastEntries)
         /\ Len(fast') <= Len(fast) /\ Len(fast) \in Nat
         /\ ~Touch(t) => Len(fast') = Len(fast) - 1
         /\ \A i \in DOMAIN fast' : \E j \in DOMAIN fast : fast'[i] = fast[j]
<1> fast \in Seq(FastEntries)
  BY DEF TypeOK, FastEntries
<1>1. CASE Drop(t) \/ PutDel(t)
  <2>1. fast' = WithoutKey(Key(t)) /\ Key(t) \in FastKeys
    BY <1>1 DEF Drop, PutDel
  <2>2. QED
    BY <2>1, WithoutKeyFacts
<1>2. CASE Touch(t)
  <2>1. fast' = Append(WithoutKey(Key(t)), FastEntry(Key(t))) /\ Key(t) \in FastKeys
    BY <1>2 DEF Touch
  <2> DEFINE w == WithoutKey(Key(t))
             e == FastEntry(Key(t))
  <2>2. /\ w \in Seq(FastEntries) /\ e \in FastEntries /\ Len(w) = Len(fast) - 1
        /\ DOMAIN w = 1 .. Len(fast) - 1 /\ Len(fast) \in Nat \ {0}
        /\ \A i \in DOMAIN w : \E j \in DOMAIN fast : w[i] = fast[j]
        /\ \E j \in DOMAIN fast : e = fast[j]
    BY <2>1, WithoutKeyFacts
  <2>3. fast' = Append(w, e)
    BY <2>1
  <2> HIDE DEF w, e
  <2>4. /\ fast' \in Seq(FastEntries) /\ Len(fast') = Len(fast)
        /\ DOMAIN fast' = 1 .. Len(fast)
        /\ \A i \in 1 .. Len(fast) : fast'[i] = IF i = Len(fast) THEN e ELSE w[i]
    BY <2>2, <2>3
  <2>5. QED
    BY <1>2, <2>2, <2>4
<1>3. CASE PutPop(t)
  <2>1. fast' = Tail(fast) /\ fast /= <<>>
    BY <1>3 DEF PutPop
  <2>2. /\ fast' \in Seq(FastEntries) /\ Len(fast') = Len(fast) - 1 /\ Len(fast) \in Nat
        /\ \A i \in DOMAIN fast' : fast'[i] = fast[i + 1] /\ i + 1 \in DOMAIN fast
    BY <2>1
  <2>3. QED
    BY <2>2
<1>4. QED
  BY <1>1, <1>2, <1>3

\* The steps that leave the fast cache alone.
OtherRoute(t) ==
  Get(t) \/ FastRead(t) \/ Found(t) \/ FoundNothing(t) \/ Put(t) \/ FastGone(t)

\* Every variable of the endpoint keeps its type, and a thread that is about to
\* store a payload has one.
THEOREM TypeCorrect == Spec => []TypeOK
<1>1. Init => TypeOK
  BY CachesAssumption DEF Init, TypeOK, Times, Payloads, Pcs
<1>2. TypeOK /\ BoundInv /\ [Next]_vars => TypeOK'
  <2> SUFFICES ASSUME TypeOK, BoundInv, [Next]_vars
               PROVE  TypeOK'
    OBVIOUS
  <2>1. CASE Tick \/ UNCHANGED vars
    BY <2>1, CachesAssumption DEF Tick, vars, cacheVars, threadVars, TypeOK, Times, Payloads
  <2>2. ASSUME NEW t \in Threads, NEW r \in Payloads \union {Error}, Respond(t, r),
               UNCHANGED <<now, fast>>,
               cache' \in [Urls -> [stored: Times, made: Times] \union {None}]
        PROVE  TypeOK'
    BY <2>2, CachesAssumption DEF Respond, Goto, TypeOK, Pcs, Payloads
  <2>3. ASSUME NEW t \in Threads, Lookup(t)
        PROVE  TypeOK'
    <3>1. ASSUME NEW u \in Urls, Ask(t, u)
          PROVE  TypeOK'
      BY <3>1 DEF Ask, Moves, Goto, TypeOK, Pcs, Payloads, cacheVars
    <3>2. CASE ReadHit(t)
      <4>1. cache[url[t]].made \in Payloads
        BY <3>2, CachesAssumption DEF ReadHit, Cached, TypeOK, Payloads
      <4>2. QED
        BY <3>2, <4>1, <2>2 DEF ReadHit, cacheVars, TypeOK
    <3>3. CASE ReadExpired(t)
      BY <3>3 DEF ReadExpired, Looks, Moves, Goto, TypeOK, Pcs, cacheVars
    <3>4. CASE ReadGone(t)
      BY <3>4, <2>2 DEF ReadGone, Fails, cacheVars, TypeOK
    <3>5. QED
      BY <2>3, <3>1, <3>2, <3>3, <3>4 DEF Lookup
  <2>4. ASSUME NEW t \in Threads, Purge(t)
        PROVE  TypeOK'
    <3>1. CASE Measure(t) \/ Size(t)
      BY <3>1 DEF Measure, Size, Looks, Moves, Goto, TypeOK, Pcs, cacheVars
    <3>2. CASE BeginList(t)
      <4>1. Cardinality(Cached) \in Nat
        BY FS_CardinalityType DEF BoundInv
      <4>2. QED
        BY <3>2, <4>1 DEF BeginList, Moves, Goto, TypeOK, Pcs, cacheVars
    <3>3. CASE EndList(t)
      BY <3>3 DEF EndList, Moves, Goto, TypeOK, Pcs, cacheVars, Cached
    <3>4. CASE ListBroken(t) \/ BadPage(t) \/ \E u \in Urls : DeleteGone(t, u)
      BY <3>4, <2>2 DEF ListBroken, BadPage, DeleteGone, Fails, cacheVars, TypeOK
    <3>5. ASSUME NEW u \in Urls, Delete(t, u)
          PROVE  TypeOK'
      BY <3>5 DEF Delete, TypeOK
    <3>6. CASE Clear(t)
      BY <3>6 DEF Clear, Moves, Goto, TypeOK, Pcs
    <3>7. QED
      BY <2>4, <3>1, <3>2, <3>3, <3>4, <3>5, <3>6 DEF Purge
  <2>5. ASSUME NEW t \in Threads, Touch(t) \/ Drop(t) \/ PutDel(t) \/ PutPop(t) \/ PutSet(t)
        PROVE  TypeOK'
    <3>1. fast' \in Seq([key: Keys, made: Times, expiry: Nat])
      BY <2>5, FastSteps, PutSetFacts DEF FastEntries
    <3>2. /\ pc[t] \in {"touch", "drop", "putdel", "putpop", "putset"}
          /\ pc' = [pc EXCEPT ![t] = pc'[t]]
          /\ pc'[t] \in {"store", "search", "putset"}
          /\ pc[t] = "drop" => pc'[t] = "search"
          /\ UNCHANGED <<now, cache, url, doomed, listed, made, served>>
      BY <2>5 DEF Touch, Drop, PutDel, PutPop, PutSet, Edits, Moves, Goto, TypeOK
    <3>3. QED
      BY <3>1, <3>2 DEF TypeOK, Pcs
  <2>6. ASSUME NEW t \in Threads, OtherRoute(t)
        PROVE  TypeOK'
    <3> USE DEF Looks, Takes, Moves, Goto, TypeOK, Pcs, cacheVars, Payloads
    <3>1. CASE Get(t)
      BY <3>1 DEF Get
    <3>2. CASE FastRead(t)
      <4>1. FastEntry(Key(t)).made \in Times
        BY <3>2, WithoutKeyFacts DEF FastRead, FastEntries
      <4>2. QED
        BY <3>2, <4>1 DEF FastRead
    <3>3. CASE Found(t)
      BY <3>3 DEF Found
    <3>4. CASE FoundNothing(t) \/ FastGone(t)
      BY <3>4 DEF FoundNothing, FastGone, RouteFails
    <3>5. CASE Put(t)
      BY <3>5 DEF Put
    <3>6. QED
      BY <2>6, <3>1, <3>2, <3>3, <3>4, <3>5 DEF OtherRoute
  <2>7. ASSUME NEW t \in Threads, End(t)
        PROVE  TypeOK'
    <3>1. CASE FallbackFound(t)
      BY <3>1 DEF FallbackFound, Takes, Moves, Goto, TypeOK, Pcs, cacheVars, Payloads
    <3>2. CASE FallbackEmpty(t)
      BY <3>2, <2>2 DEF FallbackEmpty, cacheVars, TypeOK, Payloads
    <3>3. CASE Store(t)
      <4>1. /\ url[t] \in Urls /\ made[t] \in Times /\ now \in Times
        BY <3>3 DEF Store, TypeOK
      <4>2. /\ cache' = [cache EXCEPT ![url[t]] = [stored |-> now, made |-> made[t]]]
            /\ Respond(t, made[t]) /\ UNCHANGED <<now, fast>>
        BY <3>3 DEF Store
      <4>3. cache' \in [Urls -> [stored: Times, made: Times] \union {None}]
        BY <4>1, <4>2 DEF TypeOK
      <4>4. QED
        BY <2>2, <4>1, <4>2, <4>3 DEF Payloads
    <3>4. QED
      BY <2>7, <3>1, <3>2, <3>3 DEF End
  <2>8. QED
    BY <2>1, <2>3, <2>4, <2>5, <2>6, <2>7 DEF Next, Route, OtherRoute
<1>3. QED
  BY <1>1, <1>2, BoundInvariant, PTL DEF Spec

-----------------------------------------------------------------------------
(* The size of the fast cache.                                             *)

\* The threads that have made room, or found it, and will set their key.
Setting == {t \in Threads : pc[t] = "putset"}

RoomInv == Len(fast) + Cardinality(Setting) < MaxFast + Cardinality(Threads)

\* The threads about to set a key are finitely many.
LEMMA SettingFinite ==
  /\ IsFiniteSet(Setting) /\ Cardinality(Setting) \in Nat
  /\ Cardinality(Setting) <= Cardinality(Threads) /\ Cardinality(Threads) \in Nat
<1>1. Setting \in SUBSET Threads /\ IsFiniteSet(Threads)
  BY ThreadsAssumption DEF Setting
<1>2. QED
  BY <1>1, FS_Subset, FS_CardinalityType

\* What neither adds an entry nor such a thread keeps the bound.
LEMMA NoRoomTaken ==
  ASSUME RoomInv, Len(fast) \in Nat, Len(fast') \in Nat, Len(fast') <= Len(fast),
         Setting' \subseteq Setting
  PROVE  RoomInv'
<1>1. Cardinality(Setting') <= Cardinality(Setting) /\ Cardinality(Setting') \in Nat
  BY SettingFinite, FS_Subset, FS_CardinalityType
<1>2. QED
  BY <1>1, SettingFinite, CachesAssumption DEF RoomInv

(***************************************************************************)
(* FAST_SEARCH_CACHE exceeds maxsize by less than the number of threads:   *)
(* each that has tested the size or removed an entry may still add one.    *)
(***************************************************************************)
THEOREM FastIsBounded == Spec => []FastBounded
<1>1. Init => RoomInv
  <2> SUFFICES ASSUME Init
               PROVE  RoomInv
    OBVIOUS
  <2>1. Setting = {} /\ fast = <<>>
    BY DEF Init, Setting
  <2>2. Cardinality(Setting) = 0 /\ Len(fast) = 0
    BY <2>1, FS_EmptySet
  <2>3. QED
    BY <2>2, SettingFinite, CachesAssumption DEF RoomInv
<1>2. RoomInv /\ TypeOK /\ [Next]_vars => RoomInv'
  <2> SUFFICES ASSUME RoomInv, TypeOK, [Next]_vars
               PROVE  RoomInv'
    OBVIOUS
  <2>1. Len(fast) \in Nat /\ pc \in [Threads -> Pcs]
    BY DEF TypeOK
  <2>2. CASE Tick \/ UNCHANGED vars
    BY <2>1, <2>2, NoRoomTaken DEF Tick, vars, cacheVars, threadVars, Setting
  <2>3. ASSUME NEW t \in Threads, fast' = fast, pc' = [pc EXCEPT ![t] = pc'[t]],
               pc'[t] /= "putset" \/ pc' = pc
        PROVE  RoomInv'
    BY <2>1, <2>3, NoRoomTaken DEF Setting
  <2>4. ASSUME NEW t \in Threads, pc' = [pc EXCEPT ![t] = "putset"], pc[t] /= "putset",
               Len(fast') = Len(fast) - 1
        PROVE  RoomInv'
    <3>1. Setting' = Setting \union {t} /\ t \notin Setting
      BY <2>1, <2>4 DEF Setting
    <3>2. Cardinality(Setting') = Cardinality(Setting) + 1
      BY <3>1, SettingFinite, FS_AddElement
    <3>3. QED
      BY <2>1, <2>4, <3>2, SettingFinite, CachesAssumption DEF RoomInv
  <2>5. ASSUME NEW t \in Threads, Lookup(t) \/ Purge(t) \/ End(t)
        PROVE  RoomInv'
    <3>1. fast' = fast /\ pc' = [pc EXCEPT ![t] = pc'[t]] /\ (pc'[t] /= "putset" \/ pc' = pc)
      BY <2>1, <2>5 DEF Lookup, Ask, ReadHit, ReadExpired, ReadGone, Purge, Measure, BeginList,
         EndList, ListBroken, Delete, DeleteGone, Size, Clear, BadPage, End, FallbackFound,
         FallbackEmpty, Store, Looks, Takes, Fails, Respond, Moves, Goto, cacheVars
    <3>2. QED
      BY <2>3, <3>1
  <2>6. ASSUME NEW t \in Threads, Get(t) \/ FastRead(t) \/ Found(t) \/ FoundNothing(t) \/ FastGone(t)
        PROVE  RoomInv'
    <3>1. fast' = fast /\ pc' = [pc EXCEPT ![t] = pc'[t]] /\ pc'[t] /= "putset"
      BY <2>1, <2>6 DEF Get, FastRead, Found, FoundNothing, FastGone, RouteFails, Looks,
         Takes, Moves, Goto, cacheVars
    <3>2. QED
      BY <2>3, <3>1
  <2>7. ASSUME NEW t \in Threads, Touch(t) \/ Drop(t)
        PROVE  RoomInv'
    <3>1. Len(fast') \in Nat /\ Len(fast') <= Len(fast)
      BY <2>7, FastSteps
    <3>2. Setting' \subseteq Setting
      BY <2>1, <2>7 DEF Touch, Drop, Edits, Moves, Goto, Setting
    <3>3. QED
      BY <2>1, <3>1, <3>2, NoRoomTaken
  <2>8. ASSUME NEW t \in Threads, Put(t)
        PROVE  RoomInv'
    <3>1. CASE Key(t) \in FastKeys \/ Len(fast) >= MaxFast
      <4>1. fast' = fast /\ pc' = [pc EXCEPT ![t] = pc'[t]] /\ pc'[t] /= "putset"
        BY <2>1, <2>8, <3>1 DEF Put, Looks, Moves, Goto, cacheVars
      <4>2. QED
        BY <2>3, <4>1
    <3>2. CASE Key(t) \notin FastKeys /\ ~(Len(fast) >= MaxFast)
      <4>1. fast' = fast /\ Setting' \in SUBSET Threads
        BY <2>8 DEF Put, Looks, cacheVars, Setting
      <4>2. Cardinality(Setting') <= Cardinality(Threads) /\ Cardinality(Setting') \in Nat
        BY <4>1, ThreadsAssumption, FS_Subset, FS_CardinalityType
      <4>3. QED
        BY <2>1, <3>2, <4>1, <4>2, SettingFinite, CachesAssumption DEF RoomInv
    <3>3. QED
      BY <3>1, <3>2
  <2>9. ASSUME NEW t \in Threads, PutDel(t) \/ PutPop(t)
        PROVE  RoomInv'
    <3>1. Len(fast') = Len(fast) - 1
      <4>1. ~Touch(t)
        BY <2>9 DEF PutDel, PutPop, Touch, Edits, Moves
      <4>2. QED
        BY <2>9, <4>1, FastSteps
    <3>2. QED
      BY <2>4, <2>9, <3>1 DEF PutDel, PutPop, Edits, Moves, Goto
  <2>10. ASSUME NEW t \in Threads, PutSet(t)
         PROVE  RoomInv'
    <3>1. Setting' = Setting \ {t} /\ t \in Setting
      BY <2>1, <2>10 DEF PutSet, Edits, Moves, Goto, Setting
    <3>2. Cardinality(Setting') = Cardinality(Setting) - 1
      BY <3>1, SettingFinite, FS_RemoveElement
    <3>3. Len(fast') \in Nat /\ Len(fast') <= Len(fast) + 1
      BY <2>10, PutSetFacts
    <3>4. QED
      BY <2>1, <3>2, <3>3, SettingFinite, CachesAssumption DEF RoomInv
  <2>11. QED
    BY <2>2, <2>5, <2>6, <2>7, <2>8, <2>9, <2>10 DEF Next, Route
<1>3. RoomInv /\ TypeOK => FastBounded
  <2> SUFFICES ASSUME RoomInv, TypeOK
               PROVE  FastBounded
    OBVIOUS
  <2>1. Len(fast) \in Nat
    BY DEF TypeOK
  <2>2. QED
    BY <2>1, SettingFinite, CachesAssumption DEF RoomInv, FastBounded
<1>4. QED
  BY <1>1, <1>2, <1>3, TypeCorrect, PTL DEF Spec

-----------------------------------------------------------------------------
(* The age of an answer.                                                   *)

\* A payload that was kept by the fast cache only, if at all, at a time.
Fresh(when, at) == when <= at /\ (when = at \/ at - when < FastTtl)

\* What the response cache holds was fresh when it was stored, and what a thread
\* is about to store is; an entry of the fast cache expires as that demands.
FreshInv ==
  /\ \A u \in Cached : cache[u].stored <= now /\ Fresh(cache[u].made, cache[u].stored)
  /\ \A i \in DOMAIN fast : fast[i].made <= now /\ fast[i].expiry = fast[i].made + FastTtl
  /\ \A t \in Threads :
       /\ pc[t] \in {"put", "putdel", "putpop", "putset"} => made[t] = now
       /\ pc[t] \in {"touch", "store"} => Fresh(made[t], now)

\* Steps after which every entry of the caches is an old one, and the thread of
\* the step, if it has a payload then, has a fresh one.
LEMMA FreshKept ==
  ASSUME TypeOK, FreshInv, NEW t \in Threads, now' = now,
         pc' = [pc EXCEPT ![t] = pc'[t]], made' = [made EXCEPT ![t] = made'[t]],
         \A u \in Cached' : u \in Cached /\ cache'[u] = cache[u],
         \A i \in DOMAIN fast' : \E j \in DOMAIN fast : fast'[i] = fast[j],
         pc'[t] \in {"put", "putdel", "putpop", "putset"} => made'[t] = now,
         pc'[t] \in {"touch", "store"} => Fresh(made'[t], now)
  PROVE  FreshInv'
<1>1. \A u \in Cached' : cache'[u].stored <= now' /\ Fresh(cache'[u].made, cache'[u].stored)
  BY DEF FreshInv
<1>2. \A i \in DOMAIN fast' : fast'[i].made <= now' /\ fast'[i].expiry = fast'[i].made + FastTtl
  BY DEF FreshInv
<1>3. ASSUME NEW t1 \in Threads
      PROVE  /\ pc'[t1] \in {"put", "putdel", "putpop", "putset"} => made'[t1] = now'
             /\ pc'[t1] \in {"touch", "store"} => Fresh(made'[t1], now')
  <2>1. CASE t1 = t
    BY <2>1
  <2>2. CASE t1 /= t
    <3>1. pc'[t1] = pc[t1] /\ made'[t1] = made[t1]
      BY <2>2 DEF TypeOK
    <3>2. QED
      BY <3>1 DEF FreshInv
  <2>3. QED
    BY <2>1, <2>2
<1>4. QED
  BY <1>1, <1>2, <1>3 DEF FreshInv, Fresh

\* The entries of the fast cache were made at a time.
LEMMA MadeIsTime == TypeOK => \A i \in DOMAIN fast : fast[i].made \in Nat
<1> SUFFICES ASSUME TypeOK, NEW i \in DOMAIN fast
             PROVE  fast[i].made \in Nat
  OBVIOUS
<1>1. fast \in Seq(FastEntries)
  BY DEF TypeOK, FastEntries
<1>2. fast[i] \in FastEntries
  BY <1>1
<1>3. QED
  BY <1>2, CachesAssumption DEF FastEntries, Times

\* What the caches hold and the threads are about to store is fresh.
LEMMA FreshInvariant == Spec => []FreshInv
<1>1. Init => FreshInv
  BY DEF Init, FreshInv, Cached
<1>2. FreshInv /\ TypeOK /\ [Next]_vars => FreshInv'
  <2> SUFFICES ASSUME FreshInv, TypeOK, [Next]_vars
               PROVE  FreshInv'
    OBVIOUS
  <2>1. now \in Nat /\ pc \in [Threads -> Pcs] /\ made \in [Threads -> Payloads]
    BY CachesAssumption DEF TypeOK, Times
  <2>2. CASE UNCHANGED vars
    BY <2>2 DEF vars, cacheVars, threadVars, FreshInv, Cached, Fresh
  <2>3. CASE Tick
    <3>1. now' = now + 1 /\ UNCHANGED <<cache, fast, pc, made>>
          /\ \A t \in Threads : pc[t] \in {"idle", "search", "fallback"}
      BY <2>3 DEF Tick, cacheVars, threadVars
    <3>2. \A u \in Cached' : cache'[u].stored <= now' /\ Fresh(cache'[u].made, cache'[u].stored)
      <4>1. \A u \in Cached : cache[u].stored \in Nat
        BY CachesAssumption DEF TypeOK, Cached, Times
      <4>2. QED
        BY <2>1, <3>1, <4>1 DEF FreshInv, Cached, Fresh
    <3>3. \A i \in DOMAIN fast' : fast'[i].made <= now' /\ fast'[i].expiry = fast'[i].made + FastTtl
      <4>1. \A i \in DOMAIN fast : fast[i].made \in Nat
        BY MadeIsTime
      <4>2. QED
        BY <2>1, <3>1, <4>1 DEF FreshInv
    <3>4. QED
      BY <3>1, <3>2, <3>3 DEF FreshInv
  <2>4. ASSUME NEW t \in Threads, Lookup(t) \/ Purge(t)
        PROVE  FreshInv'
    <3> USE DEF Lookup, Ask, ReadHit, ReadExpired, ReadGone, Purge, Measure, BeginList,
         EndList, ListBroken, Delete, DeleteGone, Size, Clear, BadPage,
         Looks, Takes, Fails, Respond, Moves, Goto, cacheVars
    <3>1. /\ now' = now /\ fast' = fast
          /\ pc' = [pc EXCEPT ![t] = pc'[t]] /\ made' = [made EXCEPT ![t] = made'[t]]
      BY <2>1, <2>4
    <3>2. pc'[t] \in {"idle", "read", "measure", "list", "listing", "delete", "clear", "get"}
      BY <2>1, <2>4
    <3>3. \A u \in Cached' : u \in Cached /\ cache'[u] = cache[u]
      BY <2>4 DEF Cached, TypeOK
    <3>4. QED
      BY <3>1, <3>2, <3>3, FreshKept
  <2>5. ASSUME NEW t \in Threads, Touch(t) \/ Drop(t) \/ PutDel(t) \/ PutPop(t)
        PROVE  FreshInv'
    <3>1. \A i \in DOMAIN fast' : \E j \in DOMAIN fast : fast'[i] = fast[j]
      BY <2>5, FastSteps
    <3>2. /\ UNCHANGED <<now, cache, made>> /\ pc' = [pc EXCEPT ![t] = pc'[t]]
          /\ \/ pc[t] = "touch" /\ pc'[t] = "store"
             \/ pc'[t] = "search"
             \/ pc[t] \in {"putdel", "putpop"} /\ pc'[t] = "putset"
      BY <2>1, <2>5 DEF Touch, Drop, PutDel, PutPop, Edits, Moves, Goto
    <3>3. made' = [made EXCEPT ![t] = made'[t]] /\ made'[t] = made[t]
      BY <2>1, <3>2
    <3>4. \A u \in Cached' : u \in Cached /\ cache'[u] = cache[u]
      BY <3>2 DEF Cached
    <3>5. /\ pc'[t] \in {"put", "putdel", "putpop", "putset"} => made'[t] = now
          /\ pc'[t] \in {"touch", "store"} => Fresh(made'[t], now)
      BY <3>2, <3>3 DEF FreshInv
    <3>6. QED
      BY <3>1, <3>2, <3>3, <3>4, <3>5, FreshKept
  <2>6. ASSUME NEW t \in Threads, OtherRoute(t) \/ FallbackFound(t) \/ FallbackEmpty(t)
        PROVE  FreshInv'
    <3>1. /\ UNCHANGED <<now, cache, fast>>
          /\ pc' = [pc EXCEPT ![t] = pc'[t]] /\ made' = [made EXCEPT ![t] = made'[t]]
      BY <2>1, <2>6 DEF OtherRoute, Get, FastRead, Found, FoundNothing, Put, FastGone, RouteFails,
         FallbackFound, FallbackEmpty, Looks, Takes, Respond, Moves, Goto, cacheVars
    <3>2. /\ pc'[t] \in {"put", "putdel", "putpop", "putset"} => made'[t] = now
          /\ pc'[t] \in {"touch", "store"} => Fresh(made'[t], now)
      <4>1. CASE FastRead(t)
        <5>1. CASE pc'[t] = "touch"
          <6>1. made'[t] = FastEntry(Key(t)).made /\ now < FastEntry(Key(t)).expiry
                /\ Key(t) \in FastKeys
            BY <2>1, <4>1, <5>1 DEF FastRead, Takes, Looks, Moves, Goto
          <6>2. PICK i \in DOMAIN fast : FastEntry(Key(t)) = fast[i]
            BY <6>1, WithoutKeyFacts DEF TypeOK, FastEntries
          <6>3. fast[i].made \in Nat /\ FastTtl \in Nat
            BY MadeIsTime, CachesAssumption
          <6>4. Fresh(made'[t], now)
            BY <2>1, <6>1, <6>2, <6>3 DEF FreshInv, Fresh
          <6>5. QED
            BY <5>1, <6>4
        <5>2. CASE pc'[t] /= "touch"
          BY <2>1, <4>1, <5>2 DEF FastRead, Takes, Looks, Moves, Goto
        <5>3. QED
          BY <5>1, <5>2
      <4>2. CASE Found(t) \/ FallbackFound(t)
        BY <2>1, <4>2 DEF Found, FallbackFound, Takes, Moves, Goto, Fresh
      <4>3. CASE Put(t)
        BY <2>1, <4>3 DEF Put, Looks, Moves, Goto, FreshInv
      <4>4. CASE Get(t) \/ FoundNothing(t) \/ FastGone(t) \/ FallbackEmpty(t)
        BY <2>1, <4>4 DEF Get, FoundNothing, FastGone, FallbackEmpty, RouteFails, Respond,
           Looks, Takes, Moves, Goto
      <4>5. QED
        BY <2>6, <4>1, <4>2, <4>3, <4>4 DEF OtherRoute
    <3>3. \A u \in Cached' : u \in Cached /\ cache'[u] = cache[u]
      BY <3>1 DEF Cached
    <3>4. QED
      BY <3>1, <3>2, <3>3, FreshKept
  <2>7. ASSUME NEW t \in Threads, PutSet(t)
        PROVE  FreshInv'
    <3>1. /\ pc[t] = "putset" /\ pc' = [pc EXCEPT ![t] = "store"] /\ UNCHANGED <<now, cache, made>>
      BY <2>7 DEF PutSet, Edits, Moves, Goto
    <3>2. made[t] = now
      BY <3>1 DEF FreshInv
    <3>3. \A i \in DOMAIN fast' : fast'[i].made <= now /\ fast'[i].expiry = fast'[i].made + FastTtl
      <4>1. NewEntry(t).made = now /\ NewEntry(t).expiry = now + FastTtl
        BY <3>2 DEF NewEntry
      <4>2. QED
        BY <2>1, <2>7, <4>1, PutSetFacts DEF FreshInv
    <3>4. \A t1 \in Threads : pc'[t1] /= pc[t1] => t1 = t /\ pc'[t1] = "store"
      BY <2>1, <3>1
    <3>5. Fresh(now, now)
      BY <2>1 DEF Fresh
    <3>6. QED
      BY <3>1, <3>2, <3>3, <3>4, <3>5 DEF FreshInv, Fresh, Cached
  <2>8. ASSUME NEW t \in Threads, Store(t)
        PROVE  FreshInv'
    <3>1. /\ pc[t] = "store" /\ now' = now /\ fast' = fast
          /\ cache' = [cache EXCEPT ![url[t]] = [stored |-> now, made |-> made[t]]]
          /\ pc' = [pc EXCEPT ![t] = "idle"] /\ made' = [made EXCEPT ![t] = None]
      BY <2>8 DEF Store, Respond, Goto
    <3>2. Fresh(made[t], now)
      BY <3>1 DEF FreshInv
    <3>3. \A u \in Cached' : cache'[u].stored <= now' /\ Fresh(cache'[u].made, cache'[u].stored)
      <4> SUFFICES ASSUME NEW u \in Cached'
                   PROVE  cache'[u].stored <= now' /\ Fresh(cache'[u].made, cache'[u].stored)
        OBVIOUS
      <4>1. CASE u = url[t]
        <5>1. cache'[u] = [stored |-> now, made |-> made[t]]
          BY <3>1, <4>1 DEF Cached, TypeOK
        <5>2. QED
          BY <2>1, <3>1, <3>2, <5>1
      <4>2. CASE u /= url[t]
        <5>1. u \in Cached /\ cache'[u] = cache[u]
          BY <3>1, <4>2 DEF Cached, TypeOK
        <5>2. QED
          BY <3>1, <5>1 DEF FreshInv
      <4>3. QED
        BY <4>1, <4>2
    <3>4. \A t1 \in Threads : t1 /= t => pc'[t1] = pc[t1] /\ made'[t1] = made[t1]
      BY <2>1, <3>1
    <3>5. pc'[t] = "idle"
      BY <2>1, <3>1
    <3>6. QED
      BY <3>1, <3>3, <3>4, <3>5 DEF FreshInv, Fresh
  <2>9. QED
    BY <2>2, <2>3, <2>4, <2>5, <2>6, <2>7, <2>8 DEF Next, Route, OtherRoute, End
<1>3. QED
  BY <1>1, <1>2, TypeCorrect, PTL DEF Spec

(***************************************************************************)
(* What a user sees may have been kept by both caches, one after the       *)
(* other, but never for longer than their two limits together.             *)
(***************************************************************************)
THEOREM AnswersAreFresh == Spec => AnswerFresh
<1> DEFINE FreshStep ==
      \A t \in Threads : served'[t] \in Times /\ served[t] = None =>
        now - served'[t] < CacheTtl + FastTtl
<1>1. TypeOK /\ FreshInv /\ [Next]_vars => [FreshStep]_vars
  <2> SUFFICES ASSUME TypeOK, FreshInv, Next,
                      NEW t \in Threads, served'[t] \in Times, served[t] = None
               PROVE  now - served'[t] < CacheTtl + FastTtl
    BY DEF vars
  <2>1. /\ now \in Nat /\ served'[t] \in Nat /\ FastTtl \in Nat /\ CacheTtl \in Nat \ {0}
        /\ served'[t] /= None /\ served'[t] /= Error
    BY CachesAssumption DEF TypeOK, Times
  <2>2. served' /= served
    BY <2>1
  <2>3. PICK t1 \in Threads : Lookup(t1) \/ Purge(t1) \/ End(t1)
    BY <2>2 DEF Next, Tick, cacheVars, threadVars, Route, Get, FastRead, Touch, Drop, Found,
       FoundNothing, Put, PutDel, PutPop, PutSet, FastGone, RouteFails, Looks, Edits, Takes
  <2>4. t1 = t /\ (ReadHit(t) \/ FallbackEmpty(t) \/ Store(t))
    BY <2>1, <2>2, <2>3 DEF TypeOK, Lookup, Ask, ReadHit, ReadExpired, ReadGone, Purge, Measure,
       BeginList, EndList, ListBroken, Delete, DeleteGone, Size, Clear, BadPage, End,
       FallbackFound, FallbackEmpty, Store, Looks, Takes, Fails, Respond
  <2>5. CASE ReadHit(t)
    <3>1. /\ url[t] \in Cached /\ served'[t] = cache[url[t]].made
          /\ now - cache[url[t]].stored < CacheTtl
      BY <2>5 DEF ReadHit, Respond, TypeOK
    <3>2. cache[url[t]].stored \in Nat /\ Fresh(served'[t], cache[url[t]].stored)
      BY <3>1, CachesAssumption DEF FreshInv, TypeOK, Cached, Times
    <3>3. QED
      BY <2>1, <3>1, <3>2 DEF Fresh
  <2>6. CASE FallbackEmpty(t)
    BY <2>1, <2>6 DEF FallbackEmpty, Respond, TypeOK
  <2>7. CASE Store(t)
    <3>1. served'[t] = made[t] /\ pc[t] = "store"
      BY <2>7 DEF Store, Respond, TypeOK
    <3>2. Fresh(served'[t], now)
      BY <3>1 DEF FreshInv
    <3>3. QED
      BY <2>1, <3>2 DEF Fresh
  <2>8. QED
    BY <2>4, <2>5, <2>6, <2>7
<1>2. QED
  BY <1>1, TypeCorrect, FreshInvariant, PTL DEF Spec, AnswerFresh
=============================================================================
