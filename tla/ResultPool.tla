----------------------------- MODULE ResultPool -----------------------------
(***************************************************************************)
(* BlendResults while it is open: the threads of the engines put results   *)
(* into one pool, which merges those it takes for the same.  Main results  *)
(* are merged under the lock; an infobox is looked for under the lock and  *)
(* appended outside of it.                                                 *)
(*                                                                         *)
(* A page is what results with one hash have in common: template, URL      *)
(* without scheme, image.  A typed result is a MainResult, another one a   *)
(* LegacyResult.  Of the fields, the title stands for those of which the   *)
(* longer is kept, and the thumbnail for those that may be unset.          *)
(***************************************************************************)
EXTENDS Integers, Sequences, FiniteSets

CONSTANTS
    Engines,        \* engines, each with a thread of its own
    Pages,          \* what main results are about
    Ids,            \* ids of infoboxes
    MaxTitle,       \* the longest title
    MaxResults,     \* bound: how many results an engine has
    Nothing         \* no id, no result

ASSUME PoolAssumption ==
    /\ IsFiniteSet(Engines) /\ IsFiniteSet(Ids)
    /\ MaxTitle \in Nat /\ MaxResults \in Nat
    /\ Nothing \notin Ids

VARIABLES
    mainResults,    \* main_results_map
    infoboxes,      \* infoboxes: id and engines of each
    found,          \* the main results that were put into the pool
    count,          \* main_count of an engine's thread
    left,           \* how many results it has yet to put in
    adding          \* the infobox it has not found, and will append

poolVars == <<mainResults, infoboxes, found, count, left, adding>>

Results == [engine : Engines, page : Pages, typed : BOOLEAN,
            title : 0 .. MaxTitle, https : BOOLEAN, thumbnail : BOOLEAN]
Entries == [typed : BOOLEAN, engines : SUBSET Engines, positions : Seq(Nat),
            title : 0 .. MaxTitle, https : BOOLEAN, thumbnail : BOOLEAN]
Infoboxes == [id : Ids \cup {Nothing}, engines : SUBSET Engines]

ASSUME NothingAssumption == Nothing \notin Entries /\ Nothing \notin Infoboxes

PoolTypeOK ==
    /\ mainResults \in [Pages -> Entries \cup {Nothing}]
    /\ infoboxes \in Seq(Infoboxes)
    /\ found \subseteq [result : Results, position : Nat]
    /\ count \in [Engines -> Nat] /\ left \in [Engines -> 0 .. MaxResults]
    /\ adding \in [Engines -> Infoboxes \cup {Nothing}]

PoolInit ==
    /\ mainResults = [p \in Pages |-> Nothing] /\ infoboxes = <<>>
    /\ found = {}
    /\ count = [e \in Engines |-> 0] /\ left = [e \in Engines |-> MaxResults]
    /\ adding = [e \in Engines |-> Nothing]

-----------------------------------------------------------------------------
Longer(m, n) == IF n > m THEN n ELSE m

(* The first result of a page, with its own engine and position.           *)
Entry(r, position) ==
    [typed |-> r.typed, engines |-> {r.engine}, positions |-> <<position>>,
     title |-> r.title, https |-> r.https, thumbnail |-> r.thumbnail]

(* Result.defaults_from: a field that is set gets the value of the other   *)
(* result, which has no positions yet; one that is unset stays unset.      *)
Overwritten(m, r) ==
    [typed |-> TRUE, engines |-> {r.engine}, positions |-> <<>>,
     title |-> IF m.title > 0 THEN r.title ELSE 0,
     https |-> r.https, thumbnail |-> m.thumbnail /\ r.thumbnail]

(* LegacyResult.defaults_from: a field that is unset gets it.              *)
Filled(m, r) == [m EXCEPT !.thumbnail = @ \/ r.thumbnail]

(* MUTANT: what is set is overwritten for both classes.                    *)
AlwaysOverwritten(m, r) == Overwritten(m, r)
WithDefaults(m, r) ==
    IF m.typed /\ r.typed THEN Overwritten(m, r)
    ELSE IF m.typed = r.typed THEN Filled(m, r)
    ELSE m

(* merge_two_main_results, and the new position.                           *)
Merged(m, r, position) ==
    LET d == WithDefaults([m EXCEPT !.title = Longer(@, r.title)], r)
    IN  [d EXCEPT !.engines = @ \cup {r.engine}, !.https = @ \/ r.https,
                  !.positions = Append(@, position)]

(* extend() puts a main result into the pool.                              *)
PutMain(e) ==
    /\ left[e] > 0 /\ adding[e] = Nothing
    /\ left' = [left EXCEPT ![e] = @ - 1]
    /\ count' = [count EXCEPT ![e] = @ + 1]
    /\ \E r \in Results :
         /\ r.engine = e
         /\ found' = found \cup {[result |-> r, position |-> count'[e]]}
         /\ mainResults' =
              [mainResults EXCEPT ![r.page] =
                 IF @ = Nothing THEN Entry(r, count'[e])
                 ELSE Merged(@, r, count'[e])]
    /\ UNCHANGED <<infoboxes, adding>>

-----------------------------------------------------------------------------
(* _merge_infobox.                                                         *)

(* MUTANT: an infobox is never the same as another.                        *)
NeverSame(box, id) == FALSE
Same(box, id) == id # Nothing /\ box.id = id

(* merge_two_infoboxes joins the engines of the two.                       *)
WithEngine(box, e) == [box EXCEPT !.engines = @ \cup {e}]

MergeInfobox(e, id) ==
    /\ left[e] > 0 /\ adding[e] = Nothing
    /\ \E i \in DOMAIN infoboxes : Same(infoboxes[i], id)
    /\ left' = [left EXCEPT ![e] = @ - 1]
    /\ infoboxes' = [i \in DOMAIN infoboxes |->
                       IF Same(infoboxes[i], id) THEN WithEngine(infoboxes[i], e)
                       ELSE infoboxes[i]]
    /\ UNCHANGED <<mainResults, found, count, adding>>

(* None has its id: it will be appended, after the lock was released.      *)
MissInfobox(e, id) ==
    /\ left[e] > 0 /\ adding[e] = Nothing
    /\ \A i \in DOMAIN infoboxes : ~Same(infoboxes[i], id)
    /\ left' = [left EXCEPT ![e] = @ - 1]
    /\ adding' = [adding EXCEPT ![e] = [id |-> id, engines |-> {e}]]
    /\ UNCHANGED <<mainResults, infoboxes, found, count>>

AppendInfobox(e) ==
    /\ adding[e] # Nothing
    /\ infoboxes' = Append(infoboxes, adding[e])
    /\ adding' = [adding EXCEPT ![e] = Nothing]
    /\ UNCHANGED <<mainResults, found, count, left>>

Extend(e) ==
    \/ PutMain(e)
    \/ \E id \in Ids \cup {Nothing} : MergeInfobox(e, id) \/ MissInfobox(e, id)
    \/ AppendInfobox(e)

PoolNext == \E e \in Engines : Extend(e)

PoolSpec == PoolInit /\ [][PoolNext]_poolVars

-----------------------------------------------------------------------------
(* The results of a page, and what its entry has to show of them.          *)
Of(p) == {f \in found : f.result.page = p}
Typed(p) == {f \in Of(p) : f.result.typed}

Listed(f, m) ==
    /\ f.result.engine \in m.engines
    /\ \E i \in DOMAIN m.positions : m.positions[i] = f.position
    /\ m.title >= f.result.title
    /\ f.result.https => m.https

(* A merged result has lost an engine, a position, the longest title or    *)
(* https only if two typed results were merged (_base.py, defaults_from):  *)
(* whatever the threads do, nothing else loses anything.                   *)
LossNeedsTypedMerge ==
    \A p \in Pages : (\E f \in Of(p) : ~Listed(f, mainResults[p]))
                        => \E f, g \in Typed(p) : f # g

(* A merged result lists the engines that found it (_base.py, engines).    *)
(* The code breaks it.                                                     *)
MergeKeepsEngines ==
    \A f \in found : f.result.engine \in mainResults[f.result.page].engines

(* Infoboxes with one id are appended at most once per thread: a thread    *)
(* that looks for one after it was appended finds it (results.py,          *)
(* _merge_infobox, "duplicates will be merged").                           *)
WithId(id) == {i \in DOMAIN infoboxes : infoboxes[i].id = id}
DuplicatesNeedRace ==
    \A id \in Ids : Cardinality(WithId(id)) <= Cardinality(Engines)
=============================================================================
