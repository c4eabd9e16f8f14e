------------------------------ MODULE LockSets ------------------------------
(***************************************************************************)
(* LockSet_t of locksets.h: a set of lock ids kept as a sorted array.  The *)
(* part of the array before `end` is a sequence here.                      *)
(***************************************************************************)
EXTENDS Integers, Sequences, SequencesExt, FiniteSetsExt

\* IntersectionResult_t as the set of its bits; L_EQUAL_R is both last ones.
EMPTY == {}
L_SUBSET_OF_R == "subset"
L_SUPERSET_OF_R == "superset"
NONEMPTY == "nonempty"

\* Mutant of remove: the lock taken last goes.
remove_last(ls, id) == IF ls = <<>> THEN ls ELSE Front(ls)

\* The position of id: how many entries are smaller.
Rank(ls, id) == Cardinality({i \in DOMAIN ls : ls[i] < id})

insert(ls, id) == IF id \in ToSet(ls) THEN ls ELSE InsertAt(ls, Rank(ls, id) + 1, id)

\* An id that is absent is not looked for again: the next larger entry goes,
\* or the last one.  (On an empty array `end` would wrap.)
remove(ls, id) ==
    IF ls = <<>> THEN ls
    ELSE RemoveAt(ls, IF Rank(ls, id) < Len(ls) THEN Rank(ls, id) + 1 ELSE Len(ls))

\* LockSet_t::intersect.  One step compares the entries at i of L and j of R
\* and passes the smaller, or both.  The scan stops when either array is used
\* up, whatever the other has left, and as soon as it has seen a common lock
\* and a distinct one on both sides.  The second form is a mutant, with the
\* inclusions swapped.
Results == SUBSET {NONEMPTY, L_SUBSET_OF_R, L_SUPERSET_OF_R}

intersect_with(L, R, notSubset, notSuperset) ==
    LET step[at \in (1..Len(L) + 1) \X (1..Len(R) + 1) \X Results] ==
          LET i == at[1]
              j == at[2]
              result == at[3] IN
          IF i > Len(L) \/ j > Len(R) \/ result = {NONEMPTY} THEN result
          ELSE IF L[i] < R[j] THEN step[<<i + 1, j, result \ {notSubset}>>]
          ELSE IF R[j] < L[i] THEN step[<<i, j + 1, result \ {notSuperset}>>]
          ELSE step[<<i + 1, j + 1, result \cup {NONEMPTY}>>]
    IN IF L = <<>> \/ R = <<>> THEN EMPTY
       ELSE step[<<1, 1, {L_SUBSET_OF_R, L_SUPERSET_OF_R}>>]

intersect_swapped(L, R) == intersect_with(L, R, L_SUPERSET_OF_R, L_SUBSET_OF_R)
intersect(L, R) == intersect_with(L, R, L_SUBSET_OF_R, L_SUPERSET_OF_R)
=============================================================================
