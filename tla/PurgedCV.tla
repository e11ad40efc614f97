------------------------------ MODULE PurgedCV ------------------------------
(***************************************************************************)
(* PurgedKFold.split and CombinatorialPurgedCV.split of purged_cv.py, on   *)
(* the positions 0 .. n-1 of the panel's sorted unique dates: the rows of  *)
(* one date go where the date goes.                                        *)
(***************************************************************************)
EXTENDS Integers, FiniteSets

\* fold_edges: the last fold takes the remainder.
FoldEdge(n, splits, k) == IF k = splits THEN n ELSE k * (n \div splits)

TestPositions(n, splits, groups) ==
    UNION {FoldEdge(n, splits, k) .. FoldEdge(n, splits, k + 1) - 1 : k \in groups}

\* Deviation: the purge stops one date short.
PurgedOneShort(n, splits, groups, lookahead) ==
    UNION {FoldEdge(n, splits, k) - lookahead + 1 .. FoldEdge(n, splits, k) - 1 : k \in groups}

\* The dates right before a test group, whose labels reach into it.
Purged(n, splits, groups, lookahead) ==
    UNION {FoldEdge(n, splits, k) - lookahead .. FoldEdge(n, splits, k) - 1 : k \in groups}

\* The dates right after a test group, which the labels of its rows reach.
Embargoed(n, splits, groups, embargo) ==
    UNION {FoldEdge(n, splits, k + 1) .. FoldEdge(n, splits, k + 1) + embargo - 1 : k \in groups}

TrainPositions(n, splits, groups, lookahead, embargo) ==
    (0 .. n - 1) \ (TestPositions(n, splits, groups)
                      \cup Purged(n, splits, groups, lookahead)
                      \cup Embargoed(n, splits, groups, embargo))

\* The test groups of the folds; PurgedKFold is the case of one group at a time.
KFoldGroups(splits) == {{k} : k \in 0 .. splits - 1}
CombinatorialGroups(splits, testGroups) ==
    {groups \in SUBSET (0 .. splits - 1) : Cardinality(groups) = testGroups}
=============================================================================
