--------------------------- MODULE Results_proofs ---------------------------
(***************************************************************************)
(* Theorems about the results of a search, for any engines, pages, ids and *)
(* categories: the pool that merges them and the pass that groups them.    *)
(***************************************************************************)
EXTENDS ResultPool, ResultGrouping, FiniteSetTheorems, TLAPS

-----------------------------------------------------------------------------
(* The pool.                                                               *)

(* Positions are given to an engine in order.                              *)
Numbered == \A f \in found : f.position <= count[f.result.engine]

(* The entry of a page is typed only if one of its results is; until two   *)
(* typed results have met, all that was found is listed.                   *)
TwoTyped(p) == \E f, g \in Typed(p) : f # g
PageInv(p) ==
    /\ Of(p) # {} => mainResults[p] # Nothing
    /\ mainResults[p] # Nothing /\ mainResults[p].typed => Typed(p) # {}
    /\ (\A f \in Of(p) : Listed(f, mainResults[p])) \/ TwoTyped(p)

(* The engines that will append an infobox with an id.                     *)
Adding(id) == {e \in Engines : adding[e] # Nothing /\ adding[e].id = id}
BoxInv(id) ==
    Cardinality(WithId(id)) + Cardinality(Adding(id)) <= Cardinality(Engines)

PoolInv == /\ PoolTypeOK /\ Numbered
           /\ \A p \in Pages : PageInv(p)
           /\ \A id \in Ids : BoxInv(id)

LEMMA PoolInitInv == PoolInit => PoolInv
<1> SUFFICES ASSUME PoolInit PROVE PoolInv
  OBVIOUS
<1>1. PoolTypeOK
  <2>1. mainResults \in [Pages -> Entries \cup {Nothing}] /\ infoboxes \in Seq(Infoboxes)
    BY DEF PoolInit
  <2>2. found \subseteq [result : Results, position : Nat]
    BY DEF PoolInit
  <2>3. count \in [Engines -> Nat] /\ left \in [Engines -> 0 .. MaxResults]
    BY PoolAssumption DEF PoolInit
  <2>4. adding \in [Engines -> Infoboxes \cup {Nothing}]
    BY DEF PoolInit
  <2> QED
    BY <2>1, <2>2, <2>3, <2>4 DEF PoolTypeOK
<1>2. Numbered /\ \A p \in Pages : PageInv(p)
  BY DEF PoolInit, Numbered, PageInv, Of
<1>3. ASSUME NEW id \in Ids PROVE BoxInv(id)
  <2>1. WithId(id) = {} /\ Adding(id) = {}
    BY DEF PoolInit, WithId, Adding
  <2>2. Cardinality(WithId(id)) = 0 /\ Cardinality(Adding(id)) = 0
    BY <2>1, FS_EmptySet
  <2> QED
    BY <2>2, PoolAssumption, FS_CardinalityType DEF BoxInv
<1> QED
  BY <1>1, <1>2, <1>3 DEF PoolInv

(* What a merge makes of an entry.                                         *)
LEMMA LongerType ==
  ASSUME NEW m \in Entries, NEW r \in Results
  PROVE  Longer(m.title, r.title) \in 0 .. MaxTitle
BY DEF Longer, Entries, Results

LEMMA DefaultsType ==
  ASSUME NEW m \in Entries, NEW r \in Results PROVE WithDefaults(m, r) \in Entries
<1>1. Overwritten(m, r) \in Entries
  <2>1. (IF m.title > 0 THEN r.title ELSE 0) \in 0 .. MaxTitle
    BY PoolAssumption DEF Results
  <2>2. {r.engine} \in SUBSET Engines /\ r.https \in BOOLEAN /\ r.thumbnail \in BOOLEAN
    BY DEF Results
  <2>3. (m.thumbnail /\ r.thumbnail) \in BOOLEAN
    OBVIOUS
  <2>4. <<>> \in Seq(Nat)
    OBVIOUS
  <2> QED
    BY <2>1, <2>2, <2>3, <2>4 DEF Overwritten, Entries
<1>2. Filled(m, r) \in Entries
  <2>1. (m.thumbnail \/ r.thumbnail) \in BOOLEAN
    OBVIOUS
  <2> QED
    BY <2>1 DEF Filled, Entries
<1> QED
  BY <1>1, <1>2 DEF WithDefaults

LEMMA MergedType ==
  ASSUME NEW m \in Entries, NEW r \in Results, NEW n \in Nat
  PROVE  Merged(m, r, n) \in Entries
<1> DEFINE d == WithDefaults([m EXCEPT !.title = Longer(@, r.title)], r)
<1>1. [m EXCEPT !.title = Longer(@, r.title)] \in Entries
  BY LongerType DEF Entries
<1>2. d \in Entries
  BY <1>1, LongerType, DefaultsType
<1> HIDE DEF d
<1>3. Append(d.positions, n) \in Seq(Nat)
  BY <1>2 DEF Entries
<1>4. /\ (d.engines \cup {r.engine}) \in SUBSET Engines
      /\ (d.https \/ r.https) \in BOOLEAN
  BY <1>2 DEF Entries, Results
<1>5. [d EXCEPT !.engines = @ \cup {r.engine}, !.https = @ \/ r.https,
                !.positions = Append(@, n)] \in Entries
  BY <1>2, <1>3, <1>4 DEF Entries
<1> QED
  BY <1>5 DEF Merged, d

LEMMA EntryType ==
  ASSUME NEW r \in Results, NEW n \in Nat PROVE Entry(r, n) \in Entries
<1>1. <<n>> \in Seq(Nat)
  OBVIOUS
<1> QED
  BY <1>1 DEF Entry, Results, Entries

(* A merge that is not one of two typed results loses nothing.             *)
LEMMA MergedLists ==
  ASSUME NEW m \in Entries, NEW r \in Results, NEW n \in Nat, ~(m.typed /\ r.typed)
  PROVE  /\ Merged(m, r, n).typed = m.typed
         /\ Listed([result |-> r, position |-> n], Merged(m, r, n))
         /\ \A f \in [result : Results, position : Nat] :
              Listed(f, m) => Listed(f, Merged(m, r, n))
<1> DEFINE d == WithDefaults([m EXCEPT !.title = Longer(@, r.title)], r)
<1>0. [m EXCEPT !.title = Longer(@, r.title)] \in Entries
  BY LongerType DEF Entries
<1>1. d = [m EXCEPT !.title = Longer(@, r.title)]
      \/ d = Filled([m EXCEPT !.title = Longer(@, r.title)], r)
  BY DEF WithDefaults, Entries
<1>2. /\ d.typed = m.typed /\ d.engines = m.engines /\ d.positions = m.positions
      /\ d.title = Longer(m.title, r.title) /\ d.https = m.https
  BY <1>0, <1>1 DEF Filled, Entries
<1>3. d \in Entries
  BY <1>0, DefaultsType
<1> HIDE DEF d
<1> DEFINE x == Merged(m, r, n)
<1>4. x = [d EXCEPT !.engines = @ \cup {r.engine}, !.https = @ \/ r.https,
                    !.positions = Append(@, n)]
  BY DEF Merged, d
<1>5. /\ x.typed = m.typed /\ x.engines = m.engines \cup {r.engine}
      /\ x.https = (m.https \/ r.https) /\ x.positions = Append(m.positions, n)
      /\ x.title = Longer(m.title, r.title)
  BY <1>2, <1>3, <1>4 DEF Entries
<1>6. /\ m.positions \in Seq(Nat) /\ m.title \in Nat /\ r.title \in Nat
      /\ m.https \in BOOLEAN /\ r.https \in BOOLEAN
  BY PoolAssumption DEF Entries, Results
<1> HIDE DEF x
<1>7. /\ \A i \in DOMAIN m.positions : i \in DOMAIN x.positions /\ x.positions[i] = m.positions[i]
      /\ \E i \in DOMAIN x.positions : x.positions[i] = n
  <2>1. /\ Len(x.positions) = Len(m.positions) + 1 /\ x.positions[Len(m.positions) + 1] = n
        /\ \A i \in 1 .. Len(m.positions) : x.positions[i] = m.positions[i]
        /\ DOMAIN x.positions = 1 .. (Len(m.positions) + 1)
        /\ DOMAIN m.positions = 1 .. Len(m.positions) /\ Len(m.positions) \in Nat
    BY <1>5, <1>6
  <2> QED
    BY <2>1
<1>8. x.title >= m.title /\ x.title >= r.title
  BY <1>5, <1>6 DEF Longer
<1>9. Listed([result |-> r, position |-> n], x)
  BY <1>5, <1>6, <1>7, <1>8 DEF Listed
<1>10. ASSUME NEW f \in [result : Results, position : Nat], Listed(f, m) PROVE Listed(f, x)
  <2>1. f.result.title \in Nat /\ x.title \in Nat
    BY <1>5, <1>6, PoolAssumption DEF Results, Longer
  <2>2. f.result.engine \in x.engines /\ (f.result.https => x.https)
    BY <1>5, <1>10 DEF Listed
  <2>3. \E i \in DOMAIN x.positions : x.positions[i] = f.position
    BY <1>7, <1>10 DEF Listed
  <2>4. x.title >= f.result.title
    BY <1>6, <1>8, <1>10, <2>1 DEF Listed
  <2> QED
    BY <2>2, <2>3, <2>4 DEF Listed
<1> QED
  BY <1>5, <1>9, <1>10 DEF x

LEMMA EntryLists ==
  ASSUME NEW r \in Results, NEW n \in Nat
  PROVE  Listed([result |-> r, position |-> n], Entry(r, n)) /\ Entry(r, n).typed = r.typed
<1>1. r.title \in Nat
  BY PoolAssumption DEF Results
<1>2. DOMAIN <<n>> = {1} /\ <<n>>[1] = n
  OBVIOUS
<1> QED
  BY <1>1, <1>2 DEF Listed, Entry

-----------------------------------------------------------------------------
(* Steps that put no main result in.                                       *)
LEMMA SameMain ==
  ASSUME PoolInv, UNCHANGED <<mainResults, found, count>>
  PROVE  Numbered' /\ \A p \in Pages : PageInv(p)'
<1>1. \A p : Of(p)' = Of(p) /\ Typed(p)' = Typed(p)
  BY DEF Of, Typed
<1> QED
  BY <1>1 DEF PoolInv, Numbered, PageInv, TwoTyped

(* Steps that change no infobox.                                           *)
LEMMA SameBoxes ==
  ASSUME PoolInv, UNCHANGED <<infoboxes, adding>> PROVE \A id \in Ids : BoxInv(id)'
<1>1. \A id : WithId(id)' = WithId(id) /\ Adding(id)' = Adding(id)
  BY DEF WithId, Adding
<1> QED
  BY <1>1 DEF PoolInv, BoxInv

LEMMA PutMainInv ==
  ASSUME PoolInv, NEW e \in Engines, PutMain(e) PROVE PoolInv'
<1> USE DEF PoolInv
<1>1. count[e] \in Nat /\ count[e] + 1 \in Nat /\ count' = [count EXCEPT ![e] = count[e] + 1]
      /\ count'[e] = count[e] + 1
  BY DEF PutMain, PoolTypeOK
<1>2. PICK r \in Results :
        /\ r.engine = e
        /\ found' = found \cup {[result |-> r, position |-> count[e] + 1]}
        /\ mainResults' =
             [mainResults EXCEPT ![r.page] =
                IF @ = Nothing THEN Entry(r, count[e] + 1)
                ELSE Merged(@, r, count[e] + 1)]
  BY <1>1 DEF PutMain
<1>3. PICK n : n = count[e] + 1
  OBVIOUS
<1>4. PICK g : g = [result |-> r, position |-> n]
  OBVIOUS
<1>5. n \in Nat /\ r.page \in Pages /\ g \in [result : Results, position : Nat]
      /\ g.result = r /\ g.position = n
  BY <1>1, <1>3, <1>4 DEF Results
<1>6. PICK old : old = mainResults[r.page]
  OBVIOUS
<1>7. PICK new : new = IF old = Nothing THEN Entry(r, n) ELSE Merged(old, r, n)
  OBVIOUS
<1>8. mainResults' = [mainResults EXCEPT ![r.page] = new] /\ found' = found \cup {g}
  BY <1>2, <1>3, <1>4, <1>6, <1>7
<1>9. old \in Entries \/ old = Nothing
  BY <1>5, <1>6 DEF PoolTypeOK
<1>10. new \in Entries
  BY <1>5, <1>7, <1>9, EntryType, MergedType
<1>11. PoolTypeOK'
  <2>1. mainResults' \in [Pages -> Entries \cup {Nothing}]
    BY <1>8, <1>10 DEF PoolTypeOK
  <2>2. found' \subseteq [result : Results, position : Nat]
    BY <1>5, <1>8 DEF PoolTypeOK
  <2>3. count' \in [Engines -> Nat] /\ left' \in [Engines -> 0 .. MaxResults]
    BY <1>1, PoolAssumption DEF PutMain, PoolTypeOK
  <2> QED
    BY <2>1, <2>2, <2>3 DEF PutMain, PoolTypeOK
<1>12. Numbered'
  <2>1. ASSUME NEW f \in found PROVE f.position <= count'[f.result.engine]
    <3>1. f.position \in Nat /\ f.result.engine \in Engines
      BY DEF PoolTypeOK, Results
    <3>2. f.position <= count[f.result.engine] /\ count[f.result.engine] \in Nat
      BY <3>1 DEF Numbered, PoolTypeOK
    <3>3. count'[f.result.engine] = count[f.result.engine] \/
          count'[f.result.engine] = count[f.result.engine] + 1
      BY <1>1, <3>1 DEF PoolTypeOK
    <3> QED
      BY <3>1, <3>2, <3>3
  <2>2. g.position <= count'[g.result.engine]
    BY <1>1, <1>2, <1>3, <1>5
  <2> QED
    BY <1>8, <2>1, <2>2 DEF Numbered
<1>13. g \notin found
  BY <1>1, <1>2, <1>3, <1>5 DEF Numbered
<1>14. ASSUME NEW p \in Pages PROVE PageInv(p)'
  <2>1. CASE p # r.page
    <3>1. Of(p)' = Of(p) /\ Typed(p)' = Typed(p) /\ mainResults'[p] = mainResults[p]
      BY <1>5, <1>8, <2>1 DEF Of, Typed, PoolTypeOK
    <3> QED
      BY <3>1 DEF PageInv, TwoTyped
  <2>2. CASE p = r.page
    <3>1. Of(p)' = Of(p) \cup {g} /\ mainResults'[p] = new /\ mainResults[p] = old
      BY <1>5, <1>6, <1>8, <2>2 DEF Of, PoolTypeOK
    <3>2. Typed(p) \subseteq Typed(p)' /\ (r.typed => g \in Typed(p)')
      BY <1>5, <3>1 DEF Typed
    <3>3. new # Nothing
      BY <1>10, NothingAssumption
    <3>4. Of(p) \subseteq [result : Results, position : Nat]
      BY DEF Of, PoolTypeOK
    <3>5. CASE old = Nothing
      <4>1. new = Entry(r, n) /\ Of(p) = {}
        BY <1>7, <3>1, <3>5 DEF PageInv
      <4>2. Of(p)' = {g} /\ Listed(g, new) /\ new.typed = r.typed
        BY <1>4, <1>5, <3>1, <4>1, EntryLists
      <4> QED
        BY <3>1, <3>2, <3>3, <4>2 DEF PageInv
    <3>6. CASE old # Nothing /\ old.typed /\ r.typed
      <4>1. PICK f \in Typed(p) : TRUE
        BY <3>1, <3>6 DEF PageInv
      <4>2. f # g
        BY <1>13 DEF Typed, Of
      <4>3. TwoTyped(p)'
        BY <3>2, <3>6, <4>1, <4>2 DEF TwoTyped
      <4> QED
        BY <3>1, <3>2, <3>3, <4>1, <4>3 DEF PageInv
    <3>7. CASE old # Nothing /\ ~(old.typed /\ r.typed)
      <4>1. old \in Entries /\ new = Merged(old, r, n)
        BY <1>7, <1>9, <3>7
      <4>2. /\ new.typed = old.typed /\ Listed(g, new)
            /\ \A f \in [result : Results, position : Nat] : Listed(f, old) => Listed(f, new)
        BY <1>4, <1>5, <3>7, <4>1, MergedLists
      <4>3. TwoTyped(p) => TwoTyped(p)'
        BY <3>2 DEF TwoTyped
      <4> QED
        BY <3>1, <3>2, <3>3, <3>4, <3>7, <4>2, <4>3 DEF PageInv
    <3> QED
      BY <3>5, <3>6, <3>7
  <2> QED
    BY <2>1, <2>2
<1>15. \A id \in Ids : BoxInv(id)'
  BY SameBoxes DEF PutMain
<1> QED
  BY <1>11, <1>12, <1>14, <1>15

-----------------------------------------------------------------------------
(* Infoboxes.                                                              *)
LEMMA BoxSets ==
  ASSUME PoolTypeOK, NEW id
  PROVE  /\ IsFiniteSet(WithId(id)) /\ Cardinality(WithId(id)) \in Nat
         /\ IsFiniteSet(Adding(id)) /\ Cardinality(Adding(id)) \in Nat
         /\ Cardinality(Engines) \in Nat /\ Cardinality(Adding(id)) <= Cardinality(Engines)
<1>1. DOMAIN infoboxes = 1 .. Len(infoboxes) /\ Len(infoboxes) \in Nat
  BY DEF PoolTypeOK
<1>2. IsFiniteSet(DOMAIN infoboxes)
  BY <1>1, FS_Interval
<1>3. WithId(id) \subseteq DOMAIN infoboxes /\ Adding(id) \subseteq Engines
  BY DEF WithId, Adding
<1>4. IsFiniteSet(WithId(id)) /\ IsFiniteSet(Adding(id))
      /\ Cardinality(Adding(id)) <= Cardinality(Engines)
  BY <1>2, <1>3, PoolAssumption, FS_Subset
<1> QED
  BY <1>4, PoolAssumption, FS_CardinalityType

LEMMA MergeInfoboxInv ==
  ASSUME PoolInv, NEW e \in Engines, NEW i \in Ids \cup {Nothing}, MergeInfobox(e, i)
  PROVE  PoolInv'
<1> USE DEF PoolInv
<1>0. infoboxes \in Seq(Infoboxes)
  BY DEF PoolTypeOK
<1>1. \A j \in DOMAIN infoboxes : infoboxes[j] \in Infoboxes
  BY <1>0
<1>2. \A b \in Infoboxes : WithEngine(b, e) \in Infoboxes /\ WithEngine(b, e).id = b.id
  BY DEF WithEngine, Infoboxes
<1>3. /\ DOMAIN infoboxes' = DOMAIN infoboxes
      /\ \A j \in DOMAIN infoboxes :
           infoboxes'[j] \in Infoboxes /\ infoboxes'[j].id = infoboxes[j].id
  BY <1>1, <1>2 DEF MergeInfobox
<1>4. infoboxes' \in Seq(Infoboxes)
  <2>1. infoboxes' = [j \in 1 .. Len(infoboxes) |-> infoboxes'[j]] /\ Len(infoboxes) \in Nat
    BY <1>0, <1>3 DEF MergeInfobox
  <2>2. \A j \in 1 .. Len(infoboxes) : infoboxes'[j] \in Infoboxes
    BY <1>0, <1>3
  <2> QED
    BY <2>1, <2>2
<1>5. PoolTypeOK'
  BY <1>4, PoolAssumption DEF MergeInfobox, PoolTypeOK
<1>6. ASSUME NEW id \in Ids PROVE BoxInv(id)'
  <2>1. WithId(id)' = WithId(id) /\ Adding(id)' = Adding(id)
    BY <1>3 DEF WithId, Adding, MergeInfobox
  <2> QED
    BY <2>1 DEF BoxInv
<1> QED
  BY <1>5, <1>6, SameMain DEF MergeInfobox

LEMMA MissInfoboxInv ==
  ASSUME PoolInv, NEW e \in Engines, NEW i \in Ids \cup {Nothing}, MissInfobox(e, i)
  PROVE  PoolInv'
<1> USE DEF PoolInv
<1>1. [id |-> i, engines |-> {e}] \in Infoboxes
  BY DEF Infoboxes
<1>2. PoolTypeOK'
  BY <1>1, PoolAssumption DEF MissInfobox, PoolTypeOK
<1>3. ASSUME NEW id \in Ids PROVE BoxInv(id)'
  <2>1. CASE id = i
    <3>1. WithId(id)' = {}
      BY <2>1, PoolAssumption DEF MissInfobox, Same, WithId
    <3>2. Cardinality(WithId(id)') = 0
      BY <3>1, FS_EmptySet
    <3>3. Cardinality(Adding(id)') \in Nat /\ Cardinality(Adding(id)') <= Cardinality(Engines)
      <4>1. Adding(id)' \subseteq Engines
        BY DEF Adding
      <4>2. IsFiniteSet(Adding(id)') /\ Cardinality(Adding(id)') <= Cardinality(Engines)
        BY <4>1, PoolAssumption, FS_Subset
      <4> QED
        BY <4>2, FS_CardinalityType
    <3> QED
      BY <3>2, <3>3, PoolAssumption, FS_CardinalityType DEF BoxInv
  <2>2. CASE id # i
    <3>1. WithId(id)' = WithId(id) /\ Adding(id)' = Adding(id)
      BY <2>2 DEF WithId, Adding, MissInfobox, PoolTypeOK
    <3> QED
      BY <3>1 DEF BoxInv
  <2> QED
    BY <2>1, <2>2
<1> QED
  BY <1>2, <1>3, SameMain DEF MissInfobox

LEMMA AppendInfoboxInv ==
  ASSUME PoolInv, NEW e \in Engines, AppendInfobox(e) PROVE PoolInv'
<1> USE DEF PoolInv
<1>1. adding[e] \in Infoboxes /\ infoboxes \in Seq(Infoboxes)
  BY DEF AppendInfobox, PoolTypeOK
<1>2. infoboxes' \in Seq(Infoboxes)
  BY <1>1 DEF AppendInfobox
<1>3. PoolTypeOK'
  BY <1>2 DEF AppendInfobox, PoolTypeOK
<1>4. PICK n \in Nat : n = Len(infoboxes)
  BY <1>1
<1>5. /\ DOMAIN infoboxes = 1 .. n /\ DOMAIN infoboxes' = 1 .. (n + 1)
      /\ infoboxes'[n + 1] = adding[e]
      /\ \A j \in 1 .. n : infoboxes'[j] = infoboxes[j]
  BY <1>1, <1>4 DEF AppendInfobox
<1>6. ASSUME NEW id \in Ids PROVE BoxInv(id)'
  <2>1. CASE adding[e].id = id
    <3>1. WithId(id)' = WithId(id) \cup {n + 1} /\ n + 1 \notin WithId(id)
      BY <1>5, <2>1 DEF WithId
    <3>2. Adding(id)' = Adding(id) \ {e} /\ e \in Adding(id)
      BY <2>1 DEF Adding, AppendInfobox, PoolTypeOK
    <3>3. Cardinality(WithId(id)') = Cardinality(WithId(id)) + 1
      BY <3>1, BoxSets, FS_AddElement
    <3>4. Cardinality(Adding(id)') = Cardinality(Adding(id)) - 1
      BY <3>2, BoxSets, FS_RemoveElement
    <3> QED
      BY <3>3, <3>4, BoxSets DEF BoxInv
  <2>2. CASE adding[e].id # id
    <3>1. WithId(id)' = WithId(id) /\ Adding(id)' = Adding(id)
      BY <1>5, <2>2 DEF WithId, Adding, AppendInfobox, PoolTypeOK
    <3> QED
      BY <3>1 DEF BoxInv
  <2> QED
    BY <2>1, <2>2
<1> QED
  BY <1>3, <1>6, SameMain DEF AppendInfobox

LEMMA PoolInvariance == PoolSpec => []PoolInv
<1>1. PoolInv /\ [PoolNext]_poolVars => PoolInv'
  <2> SUFFICES ASSUME PoolInv, [PoolNext]_poolVars PROVE PoolInv'
    OBVIOUS
  <2>1. CASE UNCHANGED poolVars
    <3>1. PoolTypeOK'
      BY <2>1 DEF poolVars, PoolInv, PoolTypeOK
    <3> QED
      BY <2>1, <3>1, SameMain, SameBoxes DEF poolVars, PoolInv
  <2> QED
    BY <2>1, PutMainInv, MergeInfoboxInv, MissInfoboxInv, AppendInfoboxInv
    DEF PoolNext, Extend
<1> QED
  BY PoolInitInv, <1>1, PTL DEF PoolSpec

(* A merged result has lost something only where two typed results were    *)
(* merged, for any engines and pages (results.py, extend; _base.py,        *)
(* defaults_from).                                                         *)
THEOREM OnlyTypedMergesLose == PoolSpec => []LossNeedsTypedMerge
<1>1. PoolInv => LossNeedsTypedMerge
  BY DEF PoolInv, PageInv, TwoTyped, LossNeedsTypedMerge
<1> QED
  BY PoolInvariance, <1>1, PTL

(* There are at most as many infoboxes of one id as engines, however their *)
(* threads interleave (results.py, _merge_infobox).                        *)
THEOREM DuplicatesAreRaces == PoolSpec => []DuplicatesNeedRace
<1>1. PoolInv => DuplicatesNeedRace
  <2> SUFFICES ASSUME PoolInv, NEW id \in Ids
               PROVE Cardinality(WithId(id)) <= Cardinality(Engines)
    BY DEF DuplicatesNeedRace
  <2>1. PoolTypeOK /\ BoxInv(id)
    BY DEF PoolInv
  <2> QED
    BY <2>1, BoxSets DEF BoxInv
<1> QED
  BY PoolInvariance, <1>1, PTL

-----------------------------------------------------------------------------
(* The grouping.                                                           *)

(* The results of a category are all before the end of its last group.     *)
GroupInv(c) ==
    \A j \in DOMAIN gresults :
        category[gresults[j]] = c => groups[c] # NoGroup /\ j <= groups[c].index
EndsInside(c) == groups[c] # NoGroup => groups[c].index <= Len(gresults)
FirstRanks == \A j \in DOMAIN gresults : gresults[j] <= Len(gresults)
Bounded(j) == Overtaken(j) = {} \/ Cardinality(Overtaken(j)) < MaxDistance

GroupingInv ==
    /\ GroupingTypeOK /\ FirstRanks
    /\ \A c \in Categories : GroupInv(c) /\ EndsInside(c)
    /\ SameCategoryInOrder
    /\ \A j \in DOMAIN gresults : Bounded(j)

LEMMA GroupingInitInv == GroupingInit => GroupingInv
<1> SUFFICES ASSUME GroupingInit PROVE GroupingInv
  OBVIOUS
<1>1. gresults = <<>> /\ DOMAIN gresults = {}
  BY DEF GroupingInit
<1>2. GroupingTypeOK
  BY DEF GroupingInit, GroupingTypeOK
<1> QED
  BY <1>1, <1>2 DEF GroupingInit, GroupingInv, FirstRanks, GroupInv, EndsInside,
     SameCategoryInOrder

(* What an insertion does to a sequence.                                   *)
Insertion(S, s, p, e, t) ==
    /\ t \in Seq(S) /\ Len(t) = Len(s) + 1 /\ t[p] = e
    /\ \A j \in 1 .. (p - 1) : t[j] = s[j]
    /\ \A j \in (p + 1) .. (Len(s) + 1) : t[j] = s[j - 1]

LEMMA Inserted ==
  ASSUME NEW S, NEW s \in Seq(S), NEW e \in S, NEW p \in 1 .. (Len(s) + 1)
  PROVE  Insertion(S, s, p, e, InsertAt(s, p, e))
<1>1. Len(s) \in Nat /\ p \in Nat /\ p <= Len(s) + 1 /\ p >= 1
  OBVIOUS
<1>2. PICK a : a = SubSeq(s, 1, p - 1)
  OBVIOUS
<1>3. PICK b : b = SubSeq(s, p, Len(s))
  OBVIOUS
<1>4. /\ a \in Seq(S) /\ Len(a) = p - 1 /\ \A j \in 1 .. (p - 1) : a[j] = s[j]
  BY <1>1, <1>2
<1>5. /\ b \in Seq(S) /\ Len(b) = Len(s) + 1 - p
      /\ \A j \in 1 .. (Len(s) + 1 - p) : b[j] = s[p + j - 1]
  BY <1>1, <1>3
<1>6. <<e>> \in Seq(S) /\ Len(<<e>>) = 1 /\ <<e>>[1] = e
  OBVIOUS
<1>7. PICK x : x = a \o <<e>>
  OBVIOUS
<1>8. /\ x \in Seq(S) /\ Len(x) = p /\ x[p] = e
      /\ \A j \in 1 .. (p - 1) : x[j] = s[j]
  BY <1>1, <1>4, <1>6, <1>7
<1>9. InsertAt(s, p, e) = x \o b
  BY <1>2, <1>3, <1>7 DEF InsertAt
<1>10. PICK y : y = x \o b
  OBVIOUS
<1>11. /\ y \in Seq(S) /\ Len(y) = Len(s) + 1 /\ y[p] = e
       /\ \A j \in 1 .. (p - 1) : y[j] = s[j]
  <2>0. y \in Seq(S) /\ Len(y) = Len(x) + Len(b)
    BY <1>5, <1>8, <1>10
  <2>1. y \in Seq(S) /\ Len(y) = Len(s) + 1
    BY <1>1, <1>5, <1>8, <2>0
  <2>2. \A j \in 1 .. p : y[j] = x[j]
    BY <1>1, <1>5, <1>8, <1>10
  <2> QED
    BY <1>1, <1>8, <2>1, <2>2
<1>12. ASSUME NEW j \in (p + 1) .. (Len(s) + 1) PROVE y[j] = s[j - 1]
  <2>1. j - p \in 1 .. (Len(s) + 1 - p) /\ y[j] = b[j - p]
    BY <1>1, <1>5, <1>8, <1>10
  <2> QED
    BY <1>1, <1>5, <2>1
<1> QED
  BY <1>9, <1>10, <1>11, <1>12 DEF Insertion

LEMMA StartGroupInv ==
  ASSUME GroupingInv, StartGroup PROVE GroupingInv'
<1> USE DEF GroupingInv
<1>1. PICK n : n = Len(gresults)
  OBVIOUS
<1>2. /\ n \in Nat /\ n < MaxRank /\ n + 1 \in Ranks /\ DOMAIN gresults = 1 .. n
      /\ gresults \in Seq(Ranks)
  BY <1>1, GroupingAssumption DEF StartGroup, More, Ranks, GroupingTypeOK
<1>3. PICK c \in Categories : c = category[n + 1]
  BY <1>2 DEF GroupingTypeOK
<1>4. /\ gresults' = Append(gresults, n + 1) /\ category' = category
      /\ groups' = [groups EXCEPT ![c] = [index |-> n + 1, count |-> MaxCount]]
  BY <1>1, <1>3 DEF StartGroup, NextRank
<1>5. /\ gresults' \in Seq(Ranks) /\ Len(gresults') = n + 1 /\ DOMAIN gresults' = 1 .. (n + 1)
      /\ gresults'[n + 1] = n + 1 /\ \A j \in 1 .. n : gresults'[j] = gresults[j]
  BY <1>1, <1>2, <1>4
<1>6. [index |-> n + 1, count |-> MaxCount] \in Groups
      /\ [index |-> n + 1, count |-> MaxCount] # NoGroup
  BY <1>2, GroupingAssumption DEF Groups
<1>7. GroupingTypeOK'
  BY <1>4, <1>5, <1>6 DEF GroupingTypeOK
<1>8. \A j \in 1 .. n : gresults[j] \in Nat /\ gresults[j] <= n
  <2>1. \A j \in 1 .. n : gresults[j] \in Ranks
    BY <1>2
  <2>2. Ranks \subseteq Nat
    BY DEF Ranks
  <2> QED
    BY <1>1, <1>2, <2>1, <2>2 DEF FirstRanks
<1>9. FirstRanks'
  BY <1>2, <1>5, <1>8 DEF FirstRanks
<1>10. ASSUME NEW d \in Categories PROVE GroupInv(d)' /\ EndsInside(d)'
  <2>1. CASE d = c
    <3>1. groups'[d] = [index |-> n + 1, count |-> MaxCount]
      BY <1>4, <2>1 DEF GroupingTypeOK
    <3> QED
      BY <1>2, <1>5, <1>6, <3>1 DEF GroupInv, EndsInside
  <2>2. CASE d # c
    <3>1. groups'[d] = groups[d]
      BY <1>4, <2>2 DEF GroupingTypeOK
    <3>2. groups[d] # NoGroup => groups[d].index \in Nat
      BY DEF GroupingTypeOK, Groups
    <3>3. GroupInv(d)'
      BY <1>2, <1>3, <1>4, <1>5, <2>2, <3>1 DEF GroupInv
    <3>4. EndsInside(d)'
      BY <1>1, <1>2, <1>5, <3>1, <3>2 DEF EndsInside
    <3> QED
      BY <3>3, <3>4
  <2> QED
    BY <2>1, <2>2
<1>11. SameCategoryInOrder'
  <2>1. SUFFICES ASSUME NEW i \in 1 .. (n + 1), NEW j \in 1 .. (n + 1), i < j,
                        category[gresults'[i]] = category[gresults'[j]]
                 PROVE  gresults'[i] < gresults'[j]
    BY <1>4, <1>5 DEF SameCategoryInOrder
  <2>2. i \in 1 .. n /\ gresults'[i] = gresults[i]
    BY <1>2, <1>5, <2>1
  <2>3. CASE j = n + 1
    BY <1>2, <1>5, <1>8, <2>2, <2>3
  <2>4. CASE j \in 1 .. n
    BY <1>2, <1>5, <2>1, <2>2, <2>4 DEF SameCategoryInOrder
  <2> QED
    BY <1>2, <2>3, <2>4
<1>12. ASSUME NEW j \in 1 .. (n + 1) PROVE Bounded(j)'
  <2>1. CASE j = n + 1
    <3>1. Overtaken(j)' = {}
      BY <1>2, <1>5, <2>1 DEF Overtaken
    <3> QED
      BY <3>1 DEF Bounded
  <2>2. CASE j \in 1 .. n
    <3>1. Overtaken(j)' = Overtaken(j)
      <4>1. n + 1 \notin Overtaken(j)'
        BY <1>2, <1>5, <1>8, <2>2 DEF Overtaken
      <4>2. \A i \in 1 .. n : i \in Overtaken(j)' <=> i \in Overtaken(j)
        BY <1>2, <1>5, <2>2 DEF Overtaken
      <4>3. Overtaken(j)' \subseteq 1 .. (n + 1) /\ Overtaken(j) \subseteq 1 .. n
        BY <1>2, <1>5 DEF Overtaken
      <4>4. \A i \in 1 .. (n + 1) : i = n + 1 \/ i \in 1 .. n
        BY <1>2
      <4>5. 1 .. n \subseteq 1 .. (n + 1)
        BY <1>2
      <4> HIDE DEF Overtaken
      <4> QED
        BY <4>1, <4>2, <4>3, <4>4, <4>5
    <3> QED
      BY <1>2, <2>2, <3>1 DEF Bounded
  <2> QED
    BY <1>2, <2>1, <2>2
<1> QED
  BY <1>5, <1>7, <1>9, <1>10, <1>11, <1>12

LEMMA JoinGroupInv ==
  ASSUME GroupingInv, JoinGroup PROVE GroupingInv'
<1> USE DEF GroupingInv
<1>1. PICK n : n = Len(gresults)
  OBVIOUS
<1>2. /\ n \in Nat /\ n < MaxRank /\ n + 1 \in Ranks /\ DOMAIN gresults = 1 .. n
      /\ gresults \in Seq(Ranks)
  BY <1>1, GroupingAssumption DEF JoinGroup, More, Ranks, GroupingTypeOK
<1>3. PICK c \in Categories : c = category[n + 1]
  BY <1>2 DEF GroupingTypeOK
<1>4. groups[c] # NoGroup /\ groups[c] \in Groups /\ groups[c].count > 0
      /\ n - groups[c].index < MaxDistance /\ groups[c].index <= n
  BY <1>1, <1>3 DEF JoinGroup, NextRank, Accepts, GroupingTypeOK, EndsInside
<1>5. PICK k : k = groups[c].index
  OBVIOUS
<1>6. k \in Nat /\ k <= n /\ n - k < MaxDistance /\ MaxDistance \in Nat
  BY <1>4, <1>5, GroupingAssumption DEF Groups
<1>7. /\ gresults' = InsertAt(gresults, k + 1, n + 1) /\ category' = category
      /\ groups' = [[d \in Categories |-> Moved(groups[d], k)]
                      EXCEPT ![c].count = @ - 1]
  BY <1>1, <1>3, <1>5 DEF JoinGroup, NextRank
<1>8. /\ gresults' \in Seq(Ranks) /\ Len(gresults') = n + 1 /\ DOMAIN gresults' = 1 .. (n + 1)
      /\ gresults'[k + 1] = n + 1
      /\ \A j \in 1 .. k : gresults'[j] = gresults[j]
      /\ \A j \in (k + 2) .. (n + 1) : gresults'[j] = gresults[j - 1]
  <2>1. k + 1 \in 1 .. (Len(gresults) + 1)
    BY <1>1, <1>2, <1>6
  <2>2. PICK q : q = k + 1
    OBVIOUS
  <2>3. PICK e : e = n + 1
    OBVIOUS
  <2>4. q \in 1 .. (Len(gresults) + 1) /\ e \in Ranks /\ gresults \in Seq(Ranks)
    BY <1>2, <2>1, <2>2, <2>3
  <2>5. PICK t : t = InsertAt(gresults, q, e)
    OBVIOUS
  <2>6. /\ t \in Seq(Ranks) /\ Len(t) = Len(gresults) + 1 /\ t[q] = e
        /\ \A j \in 1 .. (q - 1) : t[j] = gresults[j]
        /\ \A j \in (q + 1) .. (Len(gresults) + 1) : t[j] = gresults[j - 1]
    <3>1. Insertion(Ranks, gresults, q, e, t)
      BY <2>4, <2>5, Inserted
    <3> QED
      BY <3>1 DEF Insertion
  <2>7. gresults' = t
    BY <1>7, <2>2, <2>3, <2>5
  <2>8. q - 1 = k /\ q + 1 = k + 2
    BY <1>6, <2>2
  <2> QED
    BY <1>1, <2>2, <2>3, <2>6, <2>7, <2>8
<1>9. \A j \in 1 .. n : gresults[j] \in Nat /\ gresults[j] <= n
  <2>1. \A j \in 1 .. n : gresults[j] \in Ranks
    BY <1>2
  <2>2. Ranks \subseteq Nat
    BY DEF Ranks
  <2> QED
    BY <1>1, <1>2, <2>1, <2>2 DEF FirstRanks

(* Where a result was before the insertion, and where it is after it.      *)
<1> DEFINE Before(j) == IF j <= k THEN j ELSE j - 1
           After(j) == IF j <= k THEN j ELSE j + 1
<1>10. \A j \in 1 .. (n + 1) : j # k + 1 =>
         /\ Before(j) \in 1 .. n /\ gresults'[j] = gresults[Before(j)]
         /\ After(Before(j)) = j
  <2> SUFFICES ASSUME NEW j \in 1 .. (n + 1), j # k + 1
               PROVE /\ Before(j) \in 1 .. n /\ gresults'[j] = gresults[Before(j)]
                     /\ After(Before(j)) = j
    OBVIOUS
  <2>1. CASE j <= k
    BY <1>2, <1>6, <1>8, <2>1
  <2>2. CASE ~(j <= k)
    <3>1. j \in (k + 2) .. (n + 1) /\ j - 1 \in 1 .. n /\ ~(j - 1 <= k)
      BY <1>2, <1>6, <2>2
    <3> QED
      BY <1>2, <1>6, <1>8, <2>2, <3>1
  <2> QED
    BY <2>1, <2>2
<1>11. \A i, j \in 1 .. (n + 1) :
         i < j /\ i # k + 1 /\ j # k + 1 => Before(i) < Before(j)
  BY <1>2, <1>6
<1>12. \A d \in Categories :
         /\ groups[d] = NoGroup => groups'[d] = NoGroup
         /\ groups[d] # NoGroup =>
              /\ groups[d] \in Groups /\ groups'[d] \in Groups
              /\ groups'[d] # NoGroup
              /\ groups'[d].index = IF groups[d].index >= k THEN groups[d].index + 1
                                    ELSE groups[d].index
  <2> SUFFICES ASSUME NEW d \in Categories
               PROVE  /\ groups[d] = NoGroup => groups'[d] = NoGroup
                      /\ groups[d] # NoGroup =>
                           /\ groups[d] \in Groups /\ groups'[d] \in Groups
                           /\ groups'[d] # NoGroup
                           /\ groups'[d].index =
                                IF groups[d].index >= k THEN groups[d].index + 1
                                ELSE groups[d].index
    OBVIOUS
  <2>1. \A g \in Groups : g # NoGroup
    BY GroupingAssumption DEF Groups
  <2>2. groups[d] # NoGroup => groups[d] \in Groups
    BY DEF GroupingTypeOK
  <2>3. CASE groups[d] = NoGroup
    <3>1. d # c /\ groups'[d] = Moved(groups[d], k)
      BY <1>4, <1>7, <2>3
    <3> QED
      BY <2>3, <3>1 DEF Moved
  <2>4. CASE groups[d] # NoGroup
    <3>1. PICK m : m = Moved(groups[d], k)
      OBVIOUS
    <3>2. /\ m \in Groups
          /\ m.count = groups[d].count
          /\ m.index = IF groups[d].index >= k THEN groups[d].index + 1
                       ELSE groups[d].index
      BY <2>2, <2>4, <3>1, GroupingAssumption DEF Moved, Groups
    <3>3. groups'[d] = IF d = c THEN [m EXCEPT !.count = @ - 1] ELSE m
      BY <1>7, <3>1
    <3>4. d = c => [m EXCEPT !.count = @ - 1] \in Groups
                   /\ [m EXCEPT !.count = @ - 1].index = m.index
      BY <1>4, <3>2, GroupingAssumption DEF Groups
    <3> QED
      BY <2>1, <2>2, <2>4, <3>2, <3>3, <3>4
  <2> QED
    BY <2>3, <2>4
<1>13. GroupingTypeOK'
  <2>1. groups' = [d \in Categories |-> groups'[d]]
    BY <1>7
  <2>2. \A d \in Categories : groups'[d] \in Groups \cup {NoGroup}
    BY <1>12
  <2>3. groups' \in [Categories -> Groups \cup {NoGroup}]
    BY <2>1, <2>2
  <2> QED
    BY <1>7, <1>8, <2>3 DEF GroupingTypeOK
<1> HIDE DEF Before, After
<1>14. FirstRanks'
  <2>1. ASSUME NEW j \in 1 .. (n + 1) PROVE gresults'[j] <= n + 1
    <3>1. CASE j = k + 1
      BY <1>2, <1>8, <3>1
    <3>2. CASE j # k + 1
      <4>1. gresults'[j] \in Nat /\ gresults'[j] <= n
        BY <1>9, <1>10, <3>2
      <4> QED
        BY <1>2, <4>1
    <3> QED
      BY <3>1, <3>2
  <2> QED
    BY <1>8, <2>1 DEF FirstRanks
<1>15. ASSUME NEW d \in Categories PROVE GroupInv(d)' /\ EndsInside(d)'
  <2>1. EndsInside(d)'
    <3>1. groups[d] # NoGroup => groups[d].index \in Nat /\ groups[d].index <= n
      BY <1>1, <1>12 DEF Groups, EndsInside
    <3> QED
      BY <1>2, <1>8, <1>12, <3>1 DEF EndsInside
  <2>2. ASSUME NEW j \in 1 .. (n + 1), category[gresults'[j]] = d
        PROVE  groups'[d] # NoGroup /\ j <= groups'[d].index
    <3>1. CASE j = k + 1
      <4>1. d = c /\ groups'[c].index = k + 1 /\ groups'[c] # NoGroup
        BY <1>3, <1>4, <1>5, <1>6, <1>8, <1>12, <2>2, <3>1
      <4> QED
        BY <1>6, <3>1, <4>1
    <3>2. CASE j # k + 1
      <4>1. groups[d] # NoGroup /\ Before(j) <= groups[d].index /\ groups[d].index \in Nat
        BY <1>2, <1>10, <1>12, <2>2, <3>2 DEF GroupInv, Groups
      <4> QED
        BY <1>6, <1>12, <3>2, <4>1 DEF Before
    <3> QED
      BY <3>1, <3>2
  <2>3. GroupInv(d)'
    BY <1>7, <1>8, <2>2 DEF GroupInv
  <2> QED
    BY <2>1, <2>3
<1>16. SameCategoryInOrder'
  <2>1. SUFFICES ASSUME NEW i \in 1 .. (n + 1), NEW j \in 1 .. (n + 1), i < j,
                        category[gresults'[i]] = category[gresults'[j]]
                 PROVE  gresults'[i] < gresults'[j]
    BY <1>7, <1>8 DEF SameCategoryInOrder
  <2>2. CASE i # k + 1 /\ j # k + 1
    BY <1>2, <1>10, <1>11, <2>1, <2>2 DEF SameCategoryInOrder
  <2>3. CASE j = k + 1
    <3>1. gresults'[i] \in Nat /\ gresults'[i] <= n
      BY <1>9, <1>10, <2>1, <2>3
    <3> QED
      BY <1>2, <1>8, <2>3, <3>1
  <2>4. CASE i = k + 1
    <3>1. j # k + 1 /\ Before(j) = j - 1
      BY <1>6, <2>1, <2>4 DEF Before
    <3>2. category[gresults[Before(j)]] = c
      BY <1>3, <1>8, <1>10, <2>1, <2>4, <3>1
    <3>3. Before(j) <= k
      BY <1>2, <1>5, <1>10, <3>1, <3>2 DEF GroupInv
    <3> QED
      BY <1>6, <2>1, <2>4, <3>1, <3>3
  <2> QED
    BY <2>2, <2>3, <2>4
<1>17. ASSUME NEW j \in 1 .. (n + 1) PROVE Bounded(j)'
  <2>1. CASE j = k + 1
    <3>1. Overtaken(j)' \subseteq (k + 2) .. (n + 1)
      BY <1>2, <1>6, <1>8, <2>1 DEF Overtaken
    <3>2. IsFiniteSet((k + 2) .. (n + 1))
          /\ Cardinality((k + 2) .. (n + 1)) = IF k + 2 > n + 1 THEN 0 ELSE n - k
      <4>1. k + 2 \in Int /\ n + 1 \in Int /\ (n + 1) - (k + 2) + 1 = n - k
        BY <1>2, <1>6
      <4> QED
        BY <4>1, FS_Interval
    <3>3. IsFiniteSet(Overtaken(j)')
          /\ Cardinality(Overtaken(j)') <= Cardinality((k + 2) .. (n + 1))
      BY <3>1, <3>2, FS_Subset
    <3>4. Cardinality(Overtaken(j)') \in Nat
      BY <3>3, FS_CardinalityType
    <3>5. CASE k + 2 > n + 1
      <4>1. Overtaken(j)' = {}
        BY <1>2, <1>6, <3>1, <3>5
      <4> QED
        BY <4>1 DEF Bounded
    <3>6. CASE ~(k + 2 > n + 1)
      BY <1>2, <1>6, <3>2, <3>3, <3>4, <3>6 DEF Bounded
    <3> QED
      BY <3>5, <3>6
  <2>2. CASE j # k + 1
    <3>1. PICK b \in 1 .. n : b = Before(j) /\ gresults'[j] = gresults[b] /\ After(b) = j
      BY <1>10, <2>2
    <3> DEFINE O == Overtaken(b)
               P == Overtaken(j)'
               f == [i \in O |-> After(i)]
    <3>2. ASSUME NEW i \in P PROVE Before(i) \in O /\ After(Before(i)) = i
      <4>1. i \in 1 .. (n + 1) /\ j < i /\ gresults'[i] < gresults'[j]
        BY <1>8 DEF Overtaken
      <4>2. i # k + 1
        BY <1>2, <1>8, <1>9, <3>1, <4>1
      <4>3. Before(i) \in 1 .. n /\ gresults[Before(i)] < gresults[b] /\ Before(j) < Before(i)
        BY <1>10, <1>11, <2>2, <3>1, <4>1, <4>2
      <4> QED
        BY <1>2, <1>10, <3>1, <4>1, <4>2, <4>3 DEF Overtaken
    <3>3. ASSUME NEW i \in O PROVE After(i) \in P
      <4>1. i \in 1 .. n /\ b < i /\ gresults[i] < gresults[b]
        BY <1>2 DEF Overtaken
      <4>2. After(i) \in 1 .. (n + 1) /\ After(i) # k + 1 /\ Before(After(i)) = i
        BY <1>2, <1>6, <4>1 DEF After, Before
      <4>3. j < After(i)
        BY <1>2, <1>6, <3>1, <4>1 DEF After
      <4> QED
        BY <1>8, <1>10, <3>1, <4>1, <4>2, <4>3 DEF Overtaken
    <3>4. IsFiniteSet(O)
      <4>1. O \subseteq 1 .. n /\ IsFiniteSet(1 .. n)
        BY <1>2, FS_Interval DEF Overtaken
      <4> QED
        BY <4>1, FS_Subset
    <3> HIDE DEF O, P
    <3>5. f \in Surjection(O, P)
      BY <3>2, <3>3 DEF Surjection
    <3>6. Cardinality(P) <= Cardinality(O) /\ IsFiniteSet(P)
      BY <3>4, <3>5, FS_Surjection
    <3>7. O = {} \/ Cardinality(O) < MaxDistance
      BY <1>2 DEF O, Bounded
    <3>8. O = {} => P = {}
      BY <3>2
    <3>9. Cardinality(P) \in Nat /\ Cardinality(O) \in Nat
      BY <3>4, <3>6, FS_CardinalityType
    <3> QED
      BY <1>6, <3>6, <3>7, <3>8, <3>9 DEF P, Bounded
  <2> QED
    BY <2>1, <2>2
<1> QED
  BY <1>8, <1>13, <1>14, <1>15, <1>16, <1>17

LEMMA GroupingInvariance == GroupingSpec => []GroupingInv
<1>1. GroupingInv /\ UNCHANGED groupVars => GroupingInv'
  BY DEF groupVars, GroupingInv, GroupingTypeOK, FirstRanks, GroupInv, EndsInside,
     SameCategoryInOrder, Bounded, Overtaken
<1>2. GroupingInv /\ [GroupingNext]_groupVars => GroupingInv'
  BY <1>1, StartGroupInv, JoinGroupInv DEF GroupingNext
<1> QED
  BY GroupingInitInv, <1>2, PTL DEF GroupingSpec

(* The insertions keep the results of each category in the order of their  *)
(* scores, for any categories and limits (results.py,                      *)
(* get_ordered_results).                                                   *)
THEOREM CategoriesInOrder == GroupingSpec => []SameCategoryInOrder
<1>1. GroupingInv => SameCategoryInOrder
  BY DEF GroupingInv
<1> QED
  BY GroupingInvariance, <1>1, PTL

(* No result gets ahead of max_distance better ones (results.py,           *)
(* get_ordered_results).                                                   *)
THEOREM JumpsAreBounded == GroupingSpec => []BoundedJump
<1>1. GroupingInv => BoundedJump
  BY DEF GroupingInv, Bounded, BoundedJump
<1> QED
  BY GroupingInvariance, <1>1, PTL
=============================================================================
