--------------------------- MODULE ResultGrouping ---------------------------
(***************************************************************************)
(* The second pass of BlendResults.get_ordered_results: results sorted by  *)
(* score are grouped by category, each next to the last one of its         *)
(* category unless that group is full or too far from the end.             *)
(*                                                                         *)
(* A result is its rank in the sorted list; a category stands for the      *)
(* category, the template and whether there is an image.  A step is one    *)
(* round of the loop.                                                      *)
(***************************************************************************)
EXTENDS Integers, Sequences, FiniteSets, SequencesExt

CONSTANTS
    Categories,
    MaxCount,       \* max_count
    MaxDistance,    \* max_distance
    MaxRank,        \* bound: how many results there are
    NoGroup         \* a category that has no group

ASSUME GroupingAssumption ==
    /\ MaxCount \in Nat /\ MaxDistance \in Nat /\ MaxRank \in Nat
    /\ NoGroup \notin [index : Nat, count : Nat]

VARIABLES
    category,   \* of the results, in the order of their score
    gresults,   \* the results placed so far
    groups      \* categoryPositions: where the group of a category ends (the
                \* index that its next result gets), and its free places

groupVars == <<category, gresults, groups>>

Ranks == 1 .. MaxRank
Groups == [index : Nat, count : 0 .. MaxCount]

GroupingTypeOK ==
    /\ category \in [Ranks -> Categories]
    /\ gresults \in Seq(Ranks)
    /\ groups \in [Categories -> Groups \cup {NoGroup}]

GroupingInit ==
    /\ category \in [Ranks -> Categories]
    /\ gresults = <<>>
    /\ groups = [c \in Categories |-> NoGroup]

NextRank == Len(gresults) + 1
More == Len(gresults) < MaxRank

(* MUTANT: the distance is not looked at.                                  *)
AcceptsFar(g) == g # NoGroup /\ g.count > 0
Accepts(g) ==
    /\ g # NoGroup
    /\ g.count > 0 /\ Len(gresults) - g.index < MaxDistance

(* Groups that end at the new result or behind it move by one.             *)
(* MUTANT: only those behind it do.                                        *)
MovedBehind(g, index) ==
    IF g # NoGroup /\ g.index > index THEN [g EXCEPT !.index = @ + 1] ELSE g
Moved(g, index) ==
    IF g # NoGroup /\ g.index >= index THEN [g EXCEPT !.index = @ + 1] ELSE g

JoinGroup ==
    LET c == category[NextRank]
        index == groups[c].index
        moved == [d \in Categories |-> Moved(groups[d], index)]
    IN  /\ More
        /\ Accepts(groups[c])
        /\ gresults' = InsertAt(gresults, index + 1, NextRank)
        /\ groups' = [moved EXCEPT ![c].count = @ - 1]
        /\ UNCHANGED category

StartGroup ==
    LET c == category[NextRank]
    IN  /\ More
        /\ ~Accepts(groups[c])
        /\ gresults' = Append(gresults, NextRank)
        /\ groups' = [groups EXCEPT ![c] = [index |-> NextRank, count |-> MaxCount]]
        /\ UNCHANGED category

GroupingNext == JoinGroup \/ StartGroup

GroupingSpec == GroupingInit /\ [][GroupingNext]_groupVars

-----------------------------------------------------------------------------
(* Results of one category stay in the order of their scores, whatever is  *)
(* inserted between them (results.py, get_ordered_results).                *)
SameCategoryInOrder ==
    \A i, j \in DOMAIN gresults :
        i < j /\ category[gresults[i]] = category[gresults[j]]
            => gresults[i] < gresults[j]

(* A result gets ahead of fewer than max_distance better ones (results.py, *)
(* "not too far from the current position").                               *)
Overtaken(j) == {i \in DOMAIN gresults : i > j /\ gresults[i] < gresults[j]}
BoundedJump ==
    \A j \in DOMAIN gresults :
        Overtaken(j) = {} \/ Cardinality(Overtaken(j)) < MaxDistance
=============================================================================
